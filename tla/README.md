# softForMarket: specifications

TLA+ models of softForMarket, the program that turns sales on GGSEL and
Digiseller (PLATI) into orders at three suppliers (SMM panel, TeaTeaGram,
Fragment), follows them and reports to an operator in Telegram. `TLC` checks
the models on small instances, `TLAPS` proves the main invariants for every
value of the constants. Source paths are relative to `src/`.

## 1. Inventory

A **web process** (`app/main.py`; two replicas with two workers each) serves
the redirects of buyers and the status page. A **worker process**
(`app/worker.py`) runs the outbox worker and three pollers. The worker is a
singleton, and its deployment takes the old one down before the new one comes
up (`strategy: Recreate` in
`charts/softformarket/templates/deployment-worker.yaml`). The outbox is
nevertheless written for several (`SKIP LOCKED`, leases, tokens), and a node that
has lost its connection may keep a stray one, so the models allow it. The
processes share one PostgreSQL database and nothing else; each database
transaction and each HTTP call is a point where another task or process may
step in.

| Part | State | Operations | What makes it correct |
| --- | --- | --- | --- |
| Outbox: `services/outbox`, `db/outbox_repository.py` | `outbox_messages`, `purchases`, leases; per process the batch being delivered | enqueue, claim, deliver, complete, fail, reschedule, clean up, start, stop | message and purchase agree; no order the supplier made is dropped or doubled; a live lease is its owner's; every message is settled in the end |
| Worker process: `worker.py`, `OutboxWorker.stop`, `stop_all` | the tasks of the process, the delivery loop and its batch, the clients | start, signal, ordered clean-up, kill | nothing runs on clients that are closed; the batch under way is drained; the process goes down |
| GGSEL orders: `services/orders/ggsel.py`, `orders/fragment.py` | `purchases`, `inflight`, `notified` | one pass per redirect or poll | one pass at a time under the lock; one message per code; nothing for an unpaid sale; an order on record is one that was made |
| Sales poller: `services/sales_poller.py` | `_skipped` | look for sales nobody was redirected for, launch them | every paid sale in the window, and on the list of newest sales, is launched |
| Digiseller orders: `services/orders/digiseller.py` | `purchases`, `inflight_invoices`, `processed_invoices`, `supplier_orders` | one visit per redirect | an order that is made is not made again; a processed invoice has its outcome on record |
| Order status: `services/background.py`, `routes/status.py` | `purchases.status`, `supplier_status`, `notified` | order poller, delayed check, visits of the page | nobody is told twice, and nobody is silenced by a mark whose message failed; an order is closed only when finished or reported in error, and in the end |
| Chat poller: `services/background.py` | `ggsel_chats.last_msg_id` | first sight of a chat, fetch a page, forward it, save how far | no message is passed over, overtaken or forwarded twice |
| Telegram: `clients/telegram/client.py`, `clients/base.py` | `_next_client_index`, one client per proxy | send a message: retry, next route | every route is tried before a call gives up; the load is spread; the answer agrees with what arrived |
| Marketplace tokens: `clients/platforms/` | `_token`, `_expiry`, `_lock` | get, log in, drop after a refusal | a token handed out lives long enough; no login is wasted; a task that was refused comes to an accepted token |
| Options and services: `services/links.py` | none | parse links, choose a service | the service covers the days that were paid |
| Routes, templates, configuration, migrations | none of their own | | |

Interaction: a redirect and the sales poller both call `process_ggsel`; it
queues a message in the outbox (SMM panel, TeaTeaGram) or orders from Fragment
itself. `process_digiseller` orders during the redirect. A delivered message
and a direct order both schedule a delayed status check; later the order poller
and the status page look after the order. All of them report through
`try_mark_notified` and `send_message`, which the chat poller uses too. All calls
to a marketplace go through its token cache.

What is hard: several processes and tasks on the same rows; reads before an
`await` used after it; locks and leases that expire under a slow holder; calls
whose answer is lost; processes that stop or die between two transactions.
`PROJECT.json` lists these hazards line by line with the properties that cover
them, and a note for each that none covers.

## 2. Modules

| Module | Content |
| --- | --- |
| `Outbox` | the outbox with its worker processes |
| `OutboxContract` | what the outbox promises: each purchase settled once, with an order that exists |
| `MCOutbox`, `OutboxProofs` | symmetry, fairness, liveness; theorems, and that `Outbox` implements `OutboxContract` |
| `WorkerProcess`, `MCWorkerProcess`, `WorkerProofs` | the life of a worker process and its end |
| `SaleContract` | what both platforms promise of the launch of one sale |
| `GgselOrders`, `MCGgselOrders`, `GgselProofs` | one GGSEL sale, its redirects and the sales poller |
| `DigisellerOrders`, `MCDigisellerOrders`, `DigisellerProofs` | one PLATI sale and its redirects |
| `OrderStatus`, `MCOrderStatus`, `OrderStatusProofs` | one accepted order and those who follow it |
| `ChatPoller`, `MCChatPoller`, `ChatProofs` | one chat and its poller |
| `TelegramRoutes`, `MCTelegramRoutes` | concurrent calls of `send_message` over one or several proxies |
| `TelegramContract` | what such a call promises, for which `OrderStatus` and `ChatPoller` take it |
| `TelegramProofs` | theorems about the routes, and that they implement the contract |
| `PlatformTokens`, `MCPlatformTokens`, `TokenProofs` | the token of one marketplace in one process |

The proof modules of `GgselOrders` and `DigisellerOrders` also show that these
implement `SaleContract`.

A definition whose comment begins with "Mutant" is a plausible mistake in a
definition after it. No specification uses it; it is put in the place of that
definition to see that a property notices.

### Outbox

| Model | Code |
| --- | --- |
| `outbox[i]`, `purchase[i]` | rows of `outbox_messages` and `purchases`; the n-th commit of `queue_supplier_purchase` makes both rows n |
| `wait`, `age` | `next_attempt_at` and `delivered_at` against the database clock, in seconds and days |
| `task[w][i]` | `_deliver_one` of process w for message i: calling, answered, or in the hook after delivery |
| `Enqueue` | `queue_supplier_purchase`, `enqueue_supplier_purchase`, `enqueue` |
| `Claim`, `DueBatch` | `tick` up to the first commit, `claim_due` |
| `Answer`, `Classify` | `deliver()` of a deliverer and `classify_delivery_error` |
| `RecordDelivered`, `RecordDead`, `RecordRetry` | `complete_supplier_delivery`, `complete_supplier_failure`, `reschedule`, each one transaction |
| `RecordStale`, `RecordFails` | the update matches no row; the transaction raises |
| `AfterComplete` | `after_complete`: the status check scheduled in this process |
| `Start`, `Stop`, `StopDone`, `GraceExpired`, `Crash` | `OutboxWorker.start`, `stop`, and the end of the process |
| `Cleanup` | `delete_delivered_before` |
| `Tick` | time |

Payloads and HTTP are reduced to the class of the reply, and to whether the
call created an order. `placed` (how many orders the supplier has created for a
message; they are numbered) and `lost` (the numbers of those whose answer is in
nobody's books) are history variables. Rows locked by another transaction are
skipped by `claim_due`, which has the outcome of running the two transactions
one after the other. The calls of a message in `SlowCalls` may outlast their
lease, those of the others do not; `.env.example` asks for a lease longer than
"the full HTTP timeout with retries".

`OutboxContract` knows neither leases nor workers nor time. `KeepsContract`
maps the pending rows to its queue and `purchases.status` to its ledger.

### WorkerProcess

`phase` is how far `_main` is: down, up, or one of the stages of its `finally`.
`task` holds the asyncio tasks that `stop_all` knows of (three pollers and the
delayed checks) and `_cleanup_loop`; `loop` is `_delivery_loop`, `delivery` the
`_deliver_one` of each message of the batch. `StopOutbox`, `CleanupStopped`, `CancelLoop`,
`GraceExpires` and `LoopEnded` are `OutboxWorker.stop`; `StopAll` and
`TasksForgotten` are `stop_all`; `CloseClients`, `CloseDeliverer` and `Exit` the
rest. `StartFails` is settings that a constructor refuses: the clean-up then
meets what has not been made. A cancelled task still rolls back and releases
its lock (`TaskStops`, `DeliveryStops`). What the tasks do to the database is in
the other modules; here they only run, hang, end or are cut off (`cut`).

### GgselOrders

`step[a]` is where a pass of `process_ggsel` stands; the steps in `Locked` lie
between `mark_inflight` and `clear_inflight`. The sale leads to Fragment, to
the outbox, or to a refusal (`order`), fixed at the start and unknown to the
code until the purchase is fetched. `PollSales`, `PollInfo`, `PollInfoRaises`
are `poll_sales_once` and `_launch`; `Cancel` is `stop_all`. The poller asks only
for the newest `GGSEL_SALES_POLL_TOP` sales, so `PushOff` may make a sale
`"unlisted"` at any time: the poller then never sees it again, whatever its age. `Expire` is the end
of `INFLIGHT_TTL_SECONDS`, at any time with `SlowRuns` and otherwise only when
nobody works under the lock: the sum of all HTTP timeouts and retries of a pass
can exceed the TTL, but only when several services time out in a row.
`overlapped` remembers whether a pass ever began while another stood between
its look-up of the code and the row that decides it.

### DigisellerOrders

`visit[v]` is where a visit of `process_digiseller` stands, and what follows the
failure message it may be sending. `Peek` and `Take` are the two statements of
`try_acquire_inflight_inv`, `Finish` and `Release` those of `_finish_inv`.
A sale need not name an invoice number (`numbered`): the code then takes no
lock and remembers nothing, which `IfNumbered` and `GetPurchase` follow.

### SaleContract

The two modules launch a sale by different steps, in a different order, with
different locks; `SaleContract` is what is left when locks, suppliers, marks and
messages are taken away. A pass is `out`, `in` (it found no row), `holds` an order
that is not on record yet, or has `failed` to get one and is about to say so. It
enters only before there is an outcome, is given at most one order, and records
as accepted only that one. The contract does not say that a sale is ordered
once: findings 2 and 3 show that it may not be.

| `SaleContract` | `GgselOrders` | `DigisellerOrders` |
| --- | --- | --- |
| `paid` | the invoice is paid or returned | always: Digiseller gives a code to buyers who have paid |
| `made` | `placed`, and one for a message in the outbox | `placed` |
| `accepted` | rows OUTBOX_PENDING and SUPPLIER_ACCEPTED | rows of an accepted order |
| `refused` | rows ERROR | rows ERROR, for whatever reason |
| `handed` | `queued` | never |
| `pass` | `Standing` of the step; `insert` holds | `Standing` of step and what follows; `remember` and `insert` hold, `reject_no_id` has failed |

What must not be: a pass that orders twice, that goes on to order after a row was
found, that records an order it was not given (an ERROR row that should
have been accepted, or the reverse), that queues a code twice, or that does any of
it for a sale that is not paid. A Fragment sale of Digiseller is in `finish` and
`release` before its order and the other sales after theirs, which `Standing` tells
apart by the route.

### OrderStatus

An actor (the poller, a delayed check, a visit of the page) is at one `step`
and holds the status it has `seen`. `PollRead`, `PollRow`, `Finish` are
`_poll_orders_once` and `_poll_order`; `VisitRead` is `status_view`; `Fetch`,
`FetchError`, `FetchFails`, `Save` are `fetch_status` and
`update_supplier_by_ucode`;
`Look` and `Insert` are the two statements of `try_mark_notified`; `Send` and
`Unmark` what follows. `crowded` says that more newer orders are open than
`get_pending_orders` takes, which is up to the other orders and may change at
any time. `told` counts the messages that reached the operator.
With `Ambiguous` Telegram may deliver what it does not acknowledge. The wording
of statuses is reduced to active, done and canceled: on what a supplier reports
the two functions that recognise a final status agree. ("partial" is final for
neither of them, so it counts as active.)

A query has three outcomes. It raises (`FetchFails`), it brings the state of the
order (`Fetch`), or it brings a body with status 200 that reports an error of the
query itself, such as a refused key or too many calls (`FetchError`).
`fetch_status` returns such a body like any other and `supplier_canceled` takes
it for a canceled order: it is saved, announced and ends the poll, at any
time and for all three actors. The history variable `erred` remembers that it
happened.

### ChatPoller

A message is its number in the chat. `Read` is the read of `last_msg_id`,
`Fetch`, `FetchEmpty` and `FetchFails` the outcomes of `get_chat_messages`, which
returns the last `Page` messages; `Send` is one `send_message`, `Save` the
bootstrap or the write of `new_last`, `Die` a process that goes down. Buyers and
sellers `Write`, messages are deleted, the chat grows too old to be looked at
(`GrowStale`). The history variable `missed` holds what the code passes over
and has a reason to: messages the first sight of a chat takes as read, and
messages that left the page while the poller was away.

### TelegramRoutes, TelegramContract

`call[s]` is where a call of `send_message` stands: its first route, how many
routes further, which attempt. `Begin` takes the route from the shared index
and moves the index on before the first `await`; `Accepted`, `Failed`,
`Overloaded`, `Unreachable` are the outcomes of an attempt as `BaseApi.request` and
the loop over the clients treat them: a message taken, an answer that ends the
call, one that is retried by the same route, none at all. `tried`, `starts` and
`copies` are history variables. A 429 or 5xx that outlasts its retries, like any
other answer, ends the call without trying the next route; only a route without
an answer is replaced by the next.

`TelegramContract` is one step per call: a call that returns True has brought a
copy, one copy if Telegram acknowledges what it delivers, and a message that
Telegram never takes is not said to have been taken. `OrderStatus!Send` and
`ChatPoller!Send` are such a step.

### PlatformTokens

One cache of GGSEL or Digiseller (`api`), its lock with the queue of
`asyncio.Lock`, and the tasks that use it. `Ask` and `Take` are `_get_token`
before and after the lock, `LoginOk` and `LoginFails` the login, `GgselRefused`,
`DigisellerRefused` and `Drop` what an answer 401 does. Digiseller reads the
time before it waits for the lock (`TimeOf`), drops the cached token under the lock,
and repeats a refused call with a reserve. GGSEL reads the time under the
lock and drops the token without it. A login hands out any token that nobody
holds, so logins need no bound.

## 3. Runs

| Run | Question | Bounds, and why they are enough |
| --- | --- | --- |
| `outbox_safety` | books, owners, retries, orders that exist, refinement | 2 processes, 2 messages in batches of 2, lease of 2 s, back-off up to 2 s, one fault. Message 1 may outlast its lease and message 2 not: the first shows takeovers, the second that they need an expired lease. A takeover needs two owners of one row, cleanup and re-enqueue a second row; 4 tokens are all that can be held at once and a free one |
| `outbox_liveness` | is every message settled | 1 process that dies or stops twice, both messages |
| `shutdown` | does the process end in order, and end at all | batch of 2, of which one may be done and one hang; 2 checks, one of which can be scheduled by the batch during the stop; lives without number |
| `status` | duplicates, marks without a message, early closing, does a finished order leave the poll | the poller, a check, a visit, one of them dies; any query may be answered with an error; all orders of reads and writes of three actors |
| `status_told` | finding 1 | smallest instance that shows it |
| `ggsel` | lock, orders made twice, the contract of the launch, does it happen | the poller and two redirects, two deaths or cancellations; the sale may leave the poller's window or its list at any time |
| `ggsel_duplicate` | finding 2 | the poller and one redirect, no faults |
| `digiseller` | processed invoices, orders made twice, the contract of the launch | three visits, one death, locks that expire under a visit |
| `digiseller_lock` | finding 3 | two visits, no faults |
| `chat` | skipped, overtaken, doubled messages; the mark; is everything forwarded | page of 2 and 3 messages, so that one can leave the page unseen; 2 deaths |
| `telegram` | routes, answers | 3 calls at once over 1 to 3 routes, 1 retry: a call can fall back onto a route that another has just taken, and wrap around |
| `tokens` | fresh tokens, wasted logins, recovery | 2 tasks and 3 tokens (one each and one cached), lives of 2 and 5 s with a margin of 2 s, so that one is unusable at once and one not; clock up to 2, one revocation |

Symmetry is used for processes, tokens, keys and visits, in runs without
liveness properties only. Deadlock is checked except in `ggsel`,
`ggsel_duplicate`, `digiseller`, `digiseller_lock` (a redirect is served once, and a
sale too old for the poller has nothing left to do), `chat` (a stale chat with
everything written is left alone) and `telegram` (calls that have returned).
The counters `placed`, `told`, `attempts`, `wait`, `clock` and `faults` are bounded
by the constants named "bound" in each module; `told` and `attempts` saturate,
the others stop the action that would pass them.

### Properties worth a sentence

- `OrdersAccounted` (Outbox): each order the supplier created is in exactly one
  place: its purchase, one delivery about to record it, or the set of those lost
  to an unclear answer, a result ignored as stale, a failed commit or a killed
  process.
- `LeaseRespected` (Outbox): an unexpired lease is ended by its holder alone.
- `ChecksFollowBooks` (Outbox): the status check that a delivery schedules
  follows the very order its purchase names.
- `NothingAfterClose` (WorkerProcess): when the first client is closed, no
  task, delivery or loop is left that could use it, though deliveries and the sales
  poller schedule checks until the last moment.
- `Exits` (WorkerProcess): a process told to stop goes down although calls,
  statements and claims hang.
- `ToldOnce` (OrderStatus): at most one message of each kind, whoever dies
  between mark and message, if Telegram acknowledges what it delivers.
- `MarksHaveReason` (OrderStatus): a mark keeps everybody silent for good, so each
  death leaves at most one without its message, and no failed send, unmark or
  race of the three actors leaves any.
- `ClosedOnlyWhenFinal` (OrderStatus): although any actor may save a status it
  fetched long ago over a newer one, no order is closed or reported final
  before the supplier has finished it or has answered a query about it with an
  error. It protects no order of which such an answer came: see section 5.
- `ClosedEventually` (OrderStatus): a finished order leaves the poll once the batch
  has room for it; a visit and the poller may take marks from one another in
  between.
- `Launched` (GgselOrders): a paid sale is launched or refused before it is too
  old or pushed off the list of the newest sales, although buyers stay away,
  passes die with the lock and calls fail.
- `OnceUnlessOverlapping` (GgselOrders, DigisellerOrders): passes one after the
  other order once, and once more for each that died between order and record;
  a numbered Fragment sale of Digiseller, which is finished before it is ordered,
  never a second time. Nothing is claimed of overlapping ones: findings 2 and 3.
- `KeepsSaleContract` (both): above.
- `NothingPassedOver`, `NoneOvertaken`, `OnceEach` (ChatPoller): whatever fails
  between a page, its messages and `last_msg_id`, the mark never passes an
  untold message except those in `missed`, none arrives before an older one, and
  one arrives twice only when a pass died or passes overlapped.
- `MarkMovesOn` (ChatPoller): without overlapping passes `last_msg_id` never goes
  back and nothing up to it is sent again, through empty answers, failures in the
  middle of a page and deaths.
- `EveryRouteTried` (TelegramRoutes): although concurrent calls share the index, a
  call that gives up has tried every route as often as it may.
- `HandsOutFresh` (PlatformTokens): a token taken from the cache has the margin
  to live, although Digiseller compares its end with a time read before the lock.
- `NoneWasted`, `Recovers` (PlatformTokens): no login replaces a usable token, and
  after any refusal every task comes to an accepted token again, although the
  401 of an old call may drop the token another task has just got.

### Fairness

- `Outbox`: the event loop runs every task and the deployment starts the process
  again (weak fairness of `Start`, `Claim`, `Record...`, `AfterComplete`); time
  passes; every call has a timeout, so it returns (weak fairness of `Answer`);
  the supplier does not answer one message with a retryable error for ever
  (strong fairness of an answer that settles). There is no limit on attempts in
  the code, so without the last one a message may be retried for ever.
- `WorkerProcess`: the event loop runs the stages of the clean-up, and what was
  cancelled ends. Calls, statements and claims may hang for ever, and nobody
  need start a process.
- `OrderStatus`: only the poller's task runs for certain; of infinitely many
  fetches of the poller one answers, of infinitely many messages one is
  delivered. Checks and visits may stay away or hang.
- `GgselOrders`: tasks run, expired locks expire, and of infinitely many cycles
  one finds GGSEL, `check_username` and Fragment working. No redirect need come.
- `ChatPoller`: the poller's task runs; of infinitely many fetches one answers, of
  infinitely many attempts to send a message that Telegram does not refuse for
  good one succeeds. `Forwarded` claims nothing of what stands behind a
  message refused for good: the code retries that one for ever.
- `TelegramRoutes`: every attempt ends, by the timeouts of the clients.
- `PlatformTokens`: tasks run, `asyncio.Lock` serves its waiters in turn, calls
  end; of infinitely many logins one succeeds, of infinitely many refusals one
  is answered as such.

## 4. Proofs

The proofs assume only what the modules name as assumptions on their constants
(`OutboxAssumption`, `ProcessAssumption`, `OrderStatusAssumption`, `GgselAssumption`,
`DigisellerAssumption`, `ChatAssumption`, `RoutesAssumption`, `TokenAssumption`),
which TLC evaluates in the runs. They hold for any number of processes,
messages, visits, checks, calls, tasks and faults, and any lease, back-off, batch,
page, number of routes and retries, lifetime and margin.

**Outbox.** `IInv` joins `TypeOK`, `BooksAgree`, `OneOwner` and
`ChecksFollowBooks` to `TasksFollowBooks`, which says of every running delivery
what the books must not forget: the message was submitted, an answer with an
order names one that was created, and a task in its hook has its order in the
purchase. Without it neither `BooksAgree` (is the recorded order one that
exists?) nor `ChecksFollowBooks` survives a step. `SettledForGood` follows since
every action that writes a purchase needs a pending message. `OrdersAccounted`
is kept because two deliveries of one message never hold the same order
number and an order on record ends its message: every step moves a number from
one place to another, never into a second one (`AccountsKept`). For
`ExclusiveDelivery` a second invariant, `LeaseCovers`, says that with calls
shorter than the lease a running delivery holds an unexpired lease; two
running deliveries then hold the same token, which `OneOwner` excludes.
`LeaseRespected` follows from the guard of the lease in each statement
that ends one. The refinement maps `Enqueue` to `Submit`, an `Answer` that
created an order to `Place`, `RecordDelivered` to `Accept`, `RecordDead` to
`Refuse` and every other action to a stutter.

**WorkerProcess.** One conjunct for each stage of the clean-up says what the
stage before it has left: `CleanupEnded`, `OutboxEnded`, `TasksEnded`; together
they are `NothingAfterClose`. `CutLate`, that nothing is cancelled before the
grace period has run out, gives `Drained`.

**OrderStatus.** `Marks`: who sends or takes back a notification has its mark in
the table; with the primary key, this gives `OneSender`. `Counts`: nothing was
told of a kind without a mark, or of one being sent; this gives `ToldOnce`.
`Finals`: a final status held by anybody, saved or marked is one the supplier
has reached, or an error has been reported (`Ended`); this gives
`ClosedOnlyWhenFinal`. What the supplier has finished and what was once answered
with an error stays so, so a status may be held for as long as it likes. For `MarksHaveReason` a set has to be
counted: `Orphans`, the marks without a message that nobody is about to send or
take back. `Known`: nobody holds or has saved "done" of an order that is not. So no
step but a death adds a member, and a death adds at most the kind of the status
that the dying actor held; theorems on cardinalities of finite sets carry the
bound from step to step.

**GgselOrders.** `UnderLock`: a pass within the TTL works under a live lock, so a
second one cannot take it (`LockExclusive`). `PaidFirst`: before the sale is
paid no pass is past the question to GGSEL (`NothingUnpaid`). `Alone` and
`NotYet`: passes that do not overlap have at most one undecided, which found no
row. `Orders` then counts as in `DigisellerOrders`, where a pass that is
cancelled under Fragment's call is a fault too (`OnceUnlessOverlapping`).

**DigisellerOrders.** Nothing here rests on the lock, which does not exclude
(`LockTakenOnce`). `AllFit` says of every visit where it can be on its route, and
that one about to finish has its outcome on record; this gives
`ProcessedIsSettled`. `Recorded`: an order on record is processed, or a visit is
about to finish it; without a visit under way only the first is left
(`AcceptedIsProcessed`). `Alone` and `NotYet`: visits that do not overlap have
one of them under way, which found no order on record. So `Orders` can count:
as long as none is recorded or waits to be, at most one order was created for
every visit that died; this gives `OnceUnlessOverlapping`. For a numbered Fragment
sale `Ahead` and `FinishedFirst` say more: whoever is about to order has finished
the invoice, so there is one such visit at most in its life.

**SaleContract.** Each step of the two modules maps to one step of the contract or
to a stutter: a look-up to `Enter`, a call that names an order to `Named`, one that
does not to `Unnamed`, `Insert` to `Accept`, `Queue` to `HandOver`, each way of
writing an ERROR row to `Refuse`, ends and deaths to `Leave`. The mapping
needs more than types: where a visit can be on its route (`AllFit`), that the sale
is paid wherever something is ordered, queued or refused (`PaidFirst`), and that a
code in the queue has its one row (`QueuedOnce`). From the contract follows
`AcceptedAreOrdered`, in each module the same way: the rows of accepted orders and the passes that hold one (`Holders`) are
together no more than the orders made (`Backed`). So no two purchases claim one
order and none claims an order nobody made, also where passes overlap,
expire, die or are answered ambiguously.

**ChatPoller.** `Fits` says of every pass what it may hold: what it read is
accounted for, and what it will save is accounted for but for the messages it has
yet to send. It holds of overlapping passes too, since nothing that is
accounted for becomes unaccounted; this gives `NothingPassedOver`, and
with the order in which a page is sent `NoneOvertaken`. A pass without another
beside it has read the mark that is still in the row (`LoneFacts`), and sends
and saves behind it; this gives `MarkMovesOn`.

**TelegramRoutes.** `Counted` relates the place of a route after the first one
(`Place`) to the attempts made by it: all for the routes before the present
one, none after it. `SpreadInv` says the same of `starts` and the index, and
`CopyInv` what a call under way has brought; the last gives the refinement, in
which every attempt but the last is a stutter.

**PlatformTokens.** `Queued`: the line holds who waits, once each, in the order
of the times they read. `HoldInv`: the lock is held by who logs in, who found
nothing usable, and with Digiseller everyone in line has read a later time.
`CacheInv` and `WaitInv` bound the cached end by the real one. So a time read
before the lock is still before every end stored meanwhile less the margin
(`HandsOutFresh`), and no task replaces a token usable at its time (`NoneWasted`).

**Stated for every value of the constants, and in no run.** These are proved in the
proof modules and were model-checked while they were written; no run repeats
them: `OneOwner`, `SettledForGood` (Outbox), `Drained` (WorkerProcess: only the end
of the grace period or a kill ends a delivery without its outcome), `LockFreed`,
`NothingUnpaid`, `QueuedOnce` (GgselOrders: without a fault the lock never waits for
its TTL; nothing for an unpaid sale, which the contract says too; one message
and one row per code), `AcceptedAreOrdered` (both modules of a launch), `OneSender`
(OrderStatus), `MissedIsUntold` (ChatPoller: what the poller wrote off it does
not send later) and `Balanced` (TelegramRoutes: no route begins two calls more
than another).

Only model-checked: the liveness properties (`EventuallySettled`, `Exits`,
`ClosedEventually`, `Launched`, `Forwarded`, `Returns`, `Recovers`), which are beyond the
prover.

## 5. Findings

Three statements of the repository that the code does not keep; each is the
property of a run that ends in a counterexample, and is quoted in
`PROJECT.json`.

1. `ClosedMeansTold`: the poller takes another actor's mark for a message that
   has gone out, and closes the order; when that message fails nobody repeats it.
2. `OneOrderPerCode`: `process_ggsel` looks for the row before it takes the lock
   and not after; a Fragment sale can be ordered twice by a redirect and the
   poller. (A sale for the outbox cannot, by the unique key: `QueuedOnce`.)
3. `LockTakenOnce`: `try_acquire_inflight_inv` answers True to two visits that
   both found no lock.

More that need no run to be seen. An error in the body of a status query,
accepted with status 200, is announced as "ЗАКАЗ ОТМЕНЁН" and closes an order the
supplier is still working on (`app/clients/telegram/formatting.py:50-54`), although
`_is_final` in `app/api/v1/routes/status.py` says "Заказ завершён или отменён" of
what it accepts; that an error outranks a status is intended
(`tests/test_notifications.py:353`), what it should do to an order in progress no
line says. A paid sale that more than `GGSEL_SALES_POLL_TOP` newer ones push off
the list within `GGSEL_SALES_MAX_AGE_HOURS` is never launched by the poller
(`app/services/sales_poller.py:57`). And a message that Telegram delivers without
acknowledging it is sent again by the next route or cycle, where
`app/api/v1/routes/status.py:85` speaks of at most one; and
`tests/test_orders_digiseller.py:218` expects that an invoice whose supplier named
no order can be repeated, for which the lock is released, while the ERROR row
written at the same time turns the next visit away.

## 6. Not modelled, and the plan

Not modelled for good: HTML pages, the wording of messages, link parsing, the
choice of a service by its days, settings, logging, migrations and charts; they
keep no state, and the models have their outcomes as inputs. Also left out:

- the end of a web process: it cancels nothing and closes its clients while
  delayed checks may still run; no line of it promises more, and the order
  poller looks after these orders;
- a login of Digiseller that succeeds without a token: the empty token is
  refused and never found in the cache, so the task logs in again (GGSEL treats
  such an answer as a failed login, which is modelled);
- several chats, sales or orders in one cycle: each is looked after in turn, and
  an exception of one is logged and leaves the others alone. Where they compete
  for something, it is a state of the environment: the batch of pending orders
  (`crowded`) and the list of the newest sales (`age = "unlisted"`);
- the limit on the pages of the chat list: a chat that the poller does not get
  to in a cycle is one it has not come to yet, and `Forwarded` takes for granted
  that it does in the end;
- the database session that all chats of a page share: a statement that fails
  for one chat may fail those of the chats after it in the same cycle. Such a
  chat fails at the read of its mark, before anything is sent, and is looked
  at again in a later cycle.

To come, in this order:

1. several orders and the limit of `get_pending_orders` instead of `crowded`;
2. `next_delay` and `_service_for_days` as functions, against a reference
   definition;
3. theorems for the parts of liveness that are invariants: what is pending has
   somebody who will take it up.
