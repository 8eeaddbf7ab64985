# Restock (multi-tenant): a TLA+ model

Restock is an inventory-planning application: a Next.js web app
(`src/apps/web`), a background worker (`src/apps/worker`, BullMQ on Redis), a
websocket gateway (`src/apps/ws-gateway`) and shared packages
(`src/packages/*`), all over one Postgres database partitioned by tenant
("workspace"). It pulls a catalogue, stock levels and sales from Shopify (and
from points of sale and QuickBooks), forecasts demand, lets people queue what to
reorder, turns the queue into purchase orders, emails these to suppliers and
books in what arrives.

This directory holds TLA+ modules for the parts of it that are hard to get right
and hard to test, TLC runs that check them on small instances, and TLAPS proofs
of the properties that matter most for instances of every size. A module names
the code it is translated from; `PROJECT.json` maps every definition to its lines.

Contents

1. Components of the system
2. Modules, and how they correspond to the code
3. The runs, their bounds, and what they show
4. Fairness
5. What is proved
6. Where the code does not do what it says
7. What is not modelled, and the plan

## 1. Components of the system

**Purchase orders** (`apps/web/lib/po/*`). State: `PurchaseOrder`,
`PurchaseOrderLine`, the queue rows (`Order`) linked to them, and the
`InventoryLevel` rows a receipt moves. Operations: create from the queue, create
by hand, send, cancel, receive, reverse a receipt, set a draft line's quantity,
remove a draft line. Each is one web request; requests run concurrently against
a READ COMMITTED database, coordinate by two transaction-scoped advisory locks
(`po-receive:<poId>`, `po-number:<tenantId>`) and by `updateMany` statements
whose WHERE repeats the precondition (a "claim"), and send an email between two
of their writes. Hard: what a request read is stale when it writes; two requests
both past a check; dying between the claim and the email. Correct when: a
queue row held back as "on the way" is on a live order that asks for its
product; no number is issued twice; no order is delivered twice; received
quantities, order status, queue rows and shelves agree; the lines of a sent order
do not change; what a receipt was allowed to book in is still open when it is booked.

**Order queue** (`lib/data/orders.ts`, `lib/data/plan.ts`). State: `Order` rows.
Operations: add predictions (find or create the pending row), remove a queued
row. Interacts with purchase orders, which claim rows and give them back.

**Shopify sync** (`apps/worker/src/shopify-sync.ts`, `packages/shopify/src`).
State: `Product`, `SalesHistory`, `IngestCursor` (data cursors and two markers).
One operation, the run: pull products changed since the products cursor, upsert
them one by one, stamp the unseen ones missing after a full pull, advance the
cursor; pull changed orders, complete the affected days, delete those days, insert
them again, advance the cursor; set the markers. Hard: the store changes all the
while, a run can die anywhere, and other code writes the same cursors. Correct
when: no product of the connected store is left behind or hidden in silence; no
sale is lost or counted twice; every change arrives in the end.

**Store connection and webhooks** (`settings/connections/actions.ts`, the OAuth
callback, `lib/shopify/store-switch.ts`, `compliance.ts`, the webhook route).
State: `ShopifyConnection`. Operations: connect, disconnect, remove; webhooks
uninstalled, products/delete, shop/redact. They delete cursors a run relies on.

**Sync schedule** (`sync-schedule-cron.ts`). Queues a run per connected workspace
every fifteen minutes, drops the products cursor once a night so the next run pulls
everything, reaps and prunes run rows.

**Sync queue and run rows** (`packages/queue`, `worker.ts`, `sync-run.ts`, the end of
`shopify-sync.ts`). State: one BullMQ job per workspace, its lock, `SyncRun` rows,
the rejection count and the pause on `ShopifyConnection`. Operations: ask for a sync
(tick, Sync now, reconnection), take, retry, stall, hand over, open and close the
row, count a rejection, clear the count, reap and prune. Hard: two callers that
both see no job; a lock that expires under a live worker; a process that dies
with its row open; a count read and written back while a success clears it. Correct
when: one writer per workspace, requests are served, rows end, and a store is
paused by rejections in a row only.

**Incident alerts** (`incident.ts`). State: a latch per incident. One mail per
incident to each recipient, written one after the other; the latch is released when a
send throws, cleared by the next success.

**Realtime gateway** (`ws-gateway`) and **realtime client**
(`packages/realtime/src/client.ts`, `lib/realtime/use-realtime.ts`,
`realtime-connection.tsx`). State: sockets, their authorization and workspace
binding, heartbeats; reconnect timers; a registry that shares one connection among
components, with a deferred teardown. Hard: late events of abandoned sockets,
authorizations that end after the socket, networks that die in silence, switching
workspace. Correct when: a component gets the events of its own workspace, in order,
through one socket; dead sockets leave; whoever stays is connected.

**Sync progress on screen** (`sync-progress.tsx`, `shopify-connection-card.tsx`).
State: the run shown, and whether one was asked for. Fed by events, by polling while
there is no open connection, and by page refreshes, whose answers come in any order.
Correct when: it never calls a running run over, and always learns of the end.

**Sellable stock** (`sellable-rollup.ts`, `setLocationRole`, the stock phase of the
sync). State: `Location` roles (guessed or confirmed), `InventoryLevel`,
`Product.currentStock` and `onOrder`. Two writers compute the figures separately and
without a transaction. Correct when: they agree, confirmations stick, and what
overlapped comes right by itself.

**Transfer plans** (`lib/data/transfers.ts`, `transfer-edit.ts`). State: a plan and its
lines. Create, resize, edit a line (in a transaction that locks the plan row),
finalise, discard. Correct when: a final plan stays as it was decided, and the
branches are not promised more than the source had.

**Point-of-sale ingest** (`packages/pos`, `pos-sync.ts`, `lib/pos/match.ts`). State:
receipts and their lines, sales rows derived from them. Ingest and repair rebuild whole
days under an advisory lock; the owner's match rebuilds one product's rows without it.
Correct when: the sales of a day are what its stored receipts add up to, however
often and late they are sent.

**QuickBooks** (`packages/quickbooks/src/connection.ts`). A refresh token that
rotates at every use, refreshed by concurrent callers.

**Forecast engine, forecast runs and scheduled jobs, database isolation, web
application, observability, audit engine**: see section 7.

How they interact: the worker's sync writes the catalogue and the sales that
forecasts read; predictions feed the queue; the queue feeds purchase orders;
receipts feed levels, and levels the sellable stock that plans and transfers read;
the worker writes run rows and publishes events, which the gateway carries to the
screen that shows them. Between the
processes there is nothing but the database, the Redis queue and pub/sub.

## 2. Modules, and how they correspond to the code

| module | models | used by |
|---|---|---|
| `PurchaseOrders` | purchase orders and the order queue of one workspace | `MCPurchaseOrders`, `PurchaseOrdersProofs` |
| `SalesWindow` | the date arithmetic of the sales pull | `ShopifySync` |
| `ShopifySync` | sync runs, the store, webhooks, connection, schedule | `MCShopifySync`, `ShopifySyncProofs` |
| `SyncQueue` | asking for syncs, the job and its workers, run rows, the auth-failure pause, the incident latch | `MCSyncQueue`, `SyncQueueProofs` |
| `Stock` | the sellable figures, their two writers, location roles | `Transfers` |
| `Transfers` | a transfer plan, over `Stock` | `MCTransfers`, `TransfersProofs` |
| `PosIngest` | till receipts, the sales derived from them, matching | `MCPosIngest`, `PosIngestProofs` |
| `LiveChannel` | abstract: what a component may rely on of its live connection | `Realtime` (refines it), `SyncCard` (built on it) |
| `Realtime` | registry, client and gateway, end to end | `MCRealtime`, `RealtimeProofs` |
| `SyncCard` | the screen that follows a run, over `LiveChannel` | `MCSyncCard`, `SyncCardProofs` |
| `MC*` | constants of small instances, nothing else | the runs |
| `*Proofs` | the theorems about a module | |
| `Sums` | facts about the sum of a function over a finite set | `PurchaseOrdersProofs`, `TransfersProofs` |

A definition whose name has an underscore (`StillDraft_NotInWhere`,
`CursorValue_WhenDone`) is a faulty variant of the definition after it, that of a
plausible bug. It is used in no behaviour: substituting it for the correct one
makes a property fail, which shows what the property is sensitive to.

### PurchaseOrders

| state | code |
|---|---|
| `orders` | `Order` rows: status, product, `purchaseOrderId`, quantity, whether `predictionId` is set |
| `pos` | `PurchaseOrder` and its lines: status, number, per product `quantity` and `receivedQty`, and `subtotalKes` as the quantities it was summed over |
| `level` | `InventoryLevel` per location and product; `Null` where there is no row |
| `job` | for each request, where it is and what it has read |
| `mail` | the supplier's side: deliveries accepted, and the last document |

The concurrency model. A request is split where another can get in between. Its
READ step evaluates the early returns on the tables as they are and keeps what it
read; its COMMIT step writes. A write guarded by a WHERE looks at the row as it is
at commit (READ COMMITTED re-evaluates the WHERE on the latest version of a row);
a write by id does not look. A transaction that throws leaves nothing, which is
`Abort`, or the `ELSE UNCHANGED` branch of the commit when the code itself
throws. An advisory lock is taken in the transaction's first statement and kept
until commit, so "the lock is free" is a derived fact, that no request is between
those steps (`ReceiveLockFree`, `NumberLockFree`).

A receipt or a reversal is a list of entries, and nothing keeps it from naming a line
twice. Each entry is checked against the line as first read (receive-po.ts:96-102,
unreceive-po.ts:84-91); the writes then go through the list and add up (108-117, 96-108). What
they leave depends on the total per line alone, so `entry` is that total
(`Totals`), and the guard lets a total be as much as `MaxNamed` entries, each within what the line
allows, come to (`EachReceiptFits`, `EachReversalFits`). So `receivedQty` may exceed the
quantity, and be negative: its type is `Int`.

| actions | code |
|---|---|
| `QueueRead`, `QueueCommit` | `createOrdersForPredictions`, one prediction |
| `RemoveQueuedOrder` | `removeQueuedOrder`: its guarded `deleteMany` decides |
| `CreateRead`, `CreateLock`, `CreateCommit` | `createPoFromOrders`: rows read outside the transaction; lock and max+1; insert and claim, rolled back when a row was claimed by another |
| `ManualStart`, `ManualLock`, `ManualCommit` | `createManualPo` |
| `SendRead`, `SendClaim`, `EmailAccepted`, `EmailThrows`, `SendRollback` | `sendPoToSupplier` |
| `CancelRead`, `CancelCommit` | `cancelPo` |
| `ReceiveRead`, `ReceiveCommit` | `receivePo` under its lock |
| `UnreceiveRead`, `UnreceiveCommit` | `unreceivePo` under the same lock |
| `EditRead`, `EditCommit`, `RemoveRead`, `RemoveCommit` | `setPoLineQuantity`, `removePoLine`, `rewriteSubtotal` |
| `Abort` | a process killed, a transaction timed out, a statement failed |

`CreateCommit` and `ManualCommit` are single steps because nothing else can see
inside them. Manual orders read nothing they later depend on but their suppliers.
Left out: money, currency, timestamps, the ETA, names, audit events and
`Product.currentStock`, which is derived from the levels by the function that `Stock`
models.

### ShopifySync and SalesWindow

| state | code |
|---|---|
| `clock`, `item`, `order` | the store itself: external. The version of a product or order is the instant it last changed, which is what the store's `updated_at` filter looks at |
| `conn` | `ShopifyConnection`: which store, installed or not |
| `cursor` | `IngestCursor` by resource: the two data cursors and the two markers, which the code deletes together |
| `held` | `Product` rows: version, `missingFromShopifyAt`, `syncError` |
| `sales` | `SalesHistory` rows of the Shopify channel, one per order they count |
| `run` | for each worker execution, its phase and what it has read |

`Refusable` are the products whose record may be impossible to write. A run is split at its awaits: `StartRun` (reads the connection), `PlanRun`
(`runStart`, markers, products cursor), `FetchProducts`, `WriteProduct` or
`WriteProductFails` per record, `ProductsWritten`, `Sweep`, `AdvanceProducts`,
`FetchOrders`, `DeleteDays`, `CreateRows` (a chunk at a time), `RowsCreated`,
`AdvanceOrders`, `SetMarkers`; `NothingWritten` is the phase that throws because
every record failed, and `RunFails` may strike between any two. Besides runs:
`ChangeProduct`, `DeleteProduct`, `PlaceOrder`, `ChangeOrder` and `Tick` (the
store), `DeleteWebhook`, `MarkFull`, `Connect`, `Disconnect`, `RemoveStore`,
`RedactShop`.

Abstractions, and why they lose nothing the properties look at:

* A pull is a snapshot of the store. Paging is left out: a change between two
  pages is a change after the run's start, which the next window covers.
* `SalesHistory` holds one row per product and day. Rows here are per order, and
  `CreateRows` inserts whole product-day buckets, so a bucket is the set of its
  rows; the unique key compares buckets. An order whose product is not in the
  catalogue is not counted, as in `bucketSalesByProductDay`.
* `dayKeyRanges` merges days to fetch into ranges; the padded windows of the
  merged ranges and of the single days have the same union, in `SoldAround`.
* `SetMarkers` is two writes in the code. A run that dies between them has set the
  reconcile marker only; the rebuild marker decides first when the next run
  plans, so that run does what it would have done with neither.
* Removing a store and redacting a shop are one step each.
* The queue is its rule only: `NoRunQueued` is one job per workspace, which
  `OneWriter` of `SyncQueue` justifies, and which the constant `"stall"` lifts (a job
  whose lock expires is handed to another worker while the first goes on). Connections change between runs (`QuietConnection`)
  unless `"switchDuringRun"` lifts that too. Section 6 says what the two
  exceptions do.
* Left out: the inventory phase (module `Stock`; no window depends on it), run rows
  and tokens (`SyncQueue`), cost deltas, currency, notices, scopes and signatures.

### SyncQueue

| state | code |
|---|---|
| `job` | the BullMQ job `shopify:<tenant>`: state, attempts made, stalls counted, the worker holding its lock, and whether it stalled too often |
| `worker` | each worker execution: its place in `createShopifySyncProcessor`, its row, the token it read, how it failed |
| `row` | `SyncRun` rows: free (absent), running, closed, stranded (running, over an hour old, nobody on it) |
| `conn` | `ShopifyConnection`: there, installed, its token good, `authFailureCount`, `syncPausedAt` |
| `hook`, `incident` | `handleSyncFailure` of each worker, and the Redis latch |
| `adding` | callers of `enqueueSyncOnce` between `getJob` and `add` |
| `past` | history: is a sync owed, how often a live worker's job was handed over, rejections since the token last proved itself, mails of the open incident to each recipient, and how often its latch was released when somebody may have been written to |

`Tick`, `SyncNow` and `Reconnect` look for a job; `Add` adds one, which does nothing
when the id exists. `Take` is inside `Begin`, `BeginRefused` and `TakeStalled`.
`RunOk`, `ClearLatch`, `ClearFailures` are the tail of a success in the code's order;
`FailAuth` and `FailOther` close the row and `Report` gives the error to the queue,
which counts it for the lock holder only and schedules a retry or ends the job.
`HookRead`, `HookWrite`, `HookLatch`, `HookMailed`, `HookUnsent` are the awaits of the
failure hook: `HookMailed` writes to the next of the `Recipients`, and a send may throw at any
of them (`HookUnsent`), which releases the latch whoever was written to before. `Crash` is a killed process, `Recover` the stalled sweep finding its
job, `HandOver` the same sweep finding a live worker's. `Ages`, `Nightly` are an hour and
a night. BullMQ's own state machine is external, taken from the options the code gives
it. `enqueueSyncOnce`'s branch that removes a finished job (index.ts:97) is not
reached: both removal options remove jobs as they end. `RemoveStore` is one step.

### Stock and Transfers

| state | code |
|---|---|
| `store` | external: the units the store reports |
| `place` | `Location`: role, and assumed or confirmed |
| `level`, `figure` | `InventoryLevel`; `Product.currentStock` and `onOrder` |
| `sync`, `ask` | what the stock phase and each `setLocationRole` hold between awaits |
| `plan`, `lines` | one `DistributionPlan` and its lines |
| `lock`, `edit`, `resize` | the transaction holding the plan row; requests in flight |
| `answer`, `overlap`, `gone`, `doubled` | history |

Nothing in `Stock` runs in a transaction, so each read and write is a step:
`SyncFetches`, then per location `SyncReadsStatus`, `SyncUpserts`, `SyncWritesLevel` per
level, then `SyncReadsFigures` and `SyncWritesFigure` per product; `Confirms`,
`FindsAffected`, `SumsLevels`, `WritesStock` for a member's answer. `Sized` is any
allocation within what the source holds; which one the code picks (by cover and run
rate) is left out. `EditStarts` takes the row lock with its guarded update,
`EditReads` checks, `EditWrites` commits. A resize reads, deletes and writes in
statements of their own, and does not look at the status again. Incoming units,
costs and names are left out.

### PosIngest

| state | code |
|---|---|
| `till` | external: the till's receipts |
| `lines` | `PosSale` with its one line: day, code, product |
| `sales` | `SalesHistory` rows of channel "pos", each the set of receipts it adds up |
| `catalog`, `ignored` | what a code resolves to in the catalogue; ignore rules |
| `tx` | what each transaction has read and will write |
| `dirty` | history: days written by overlapping writers, or on which a match took over a receipt counted under another product |

`Receive` captures a batch, which may be old when it commits. `Lock` waits for the
advisory lock and reads the maps; `Derive`, `Delete`, `Commit` are the rest; a pull goes
on to the repair (`healPosRollup`), a transaction of its own. `MatchRead` to
`MatchCommit` are `matchPosSku`, which takes no lock. A transaction sees others' rows
as they are at each of its statements and waits for line locks; it publishes at its
commit; the unique key may abort it (`Clash`).

### LiveChannel, Realtime and SyncCard

`LiveChannel` is the abstract connection of one component: a workspace, the status a
badge shows, whether an event published now is on its way, and the events on their
way. `Realtime` has both ends of it: `holds`, `registry`, `reap` (use-realtime.ts),
`client` (client.ts), `sock` with the page's end (`by`, `there`, `wire`), the path
(`up`) and the gateway's end (`open`, `ask`, `room`, `alive`: the maps of gateway.ts).
`Messages` are the events that may be published, `TenantOf` the workspace of each; two of one
workspace tell a reordered, doubled or lost one from the others.
`ImplementsChannel` is the refinement, for the component `Me`.

| actions | code |
|---|---|
| `Acquire`, `Release`, `Reap` | the registry, and the timer that tears down what nobody holds |
| `SwitchWorkspace`, `TokenArrives` | `RealtimeConnection`: no token until that of the new workspace |
| `Frame`, `RetryFires`, `Online` | the listeners of a client's socket, its timer, the browser's online event |
| `Accept`, `Admit`, `Refuse` | upgrade; authorization that ends well, or badly, or not in time |
| `Heartbeat`, `Pong`, `PeerClosed`, `PeerReset`, `Publish` | the rest of the gateway |
| `DialFails`, `Cut`, `Notice`, `Restart` | faults |

A socket has a name as long as either end knows it; one that stays in the gateway's
maps after it closed may be forgotten when the name is needed.

`SyncCard` has the worker's side reduced to one job and its rows (`rows`: how each run is
going or went, `latest`), the card's own state, and requests and answers in flight. `MayEnd`
bounds how a run may end, ok or failed; a failed attempt with attempts left is retried. `OthersEnqueue` to `EndAnnounced` are the
worker; `Press`, `PressAnswered`, `GiveUp`, `Poll`, `Answered`, `EventShown` the card;
`Connection` is the channel. Left out: a run so quiet for ten minutes that it is
shown as stalled (the card then stops following it though its row still runs), and
the reaper, which may close the row of a run that is still going on and whose writer
later closes it again, with another outcome (sync-run.ts:162).

## 3. The runs, their bounds, and what they show

Deadlock is checked in `transfers`, whose syncs go on for ever. It is not in the other
runs, because those systems may stop: users and the store may do nothing more, and the
ids, numbers and clock of an instance run out. That nobody waits for ever is a liveness
property instead (`EveryChangeArrives`, `EveryRequestServed`, `Connects`,
`PollingSuffices`). For purchase orders there is none: no request waits for one of the
two advisory locks while it holds the other, so that they cannot deadlock is plain.

`Enabled` (purchase orders and sync) selects what can happen in an instance; what is not in it stays out of
that run only. In every run of purchase orders requests may die at any point (`Abort`); in the
sync runs that is `"fail"`, and `"recordFails"` is a record that cannot be written.

### Runs that pass

| run | instance | shows |
|---|---|---|
| `po_receive` | 2 requests, 1 order of up to 2 lines, minimum order 2, quantities to 2, a list names a line at most twice, 1 location | in every interleaving of create, send, remove, cancel, receive, reverse and removals from the queue: `TypeOK`, `OnTheWayIsReal`, `EntriesStillFit`, `StatusReflectsReceipts`, `QueueFollowsReceipts`, `ShelfMatchesReceipts`, `SentLinesFrozen` |
| `po_queue` | 2 requests, 2 orders, 1 queue row and an id for another, 1 product, numbers to 3 | with email that can fail, delivered or not, and edits: `NumbersNeverCollide`, `DeliveredOnce`, `SentLinesFrozen` |
| `sync_catalogue` | 2 stores of 1 product, clock to 3, 1 run at a time | with failures, the nightly mark, webhooks, and any sequence of connect, disconnect, remove and redact between runs: `NothingFallsBehind` |
| `sync_sales` | 1 store, 2 orders of 1 product, clock to 5, look-backs of 3, days of 2 instants, tenant 1 instant east, pad 1 | orders placed, back-dated and edited while runs fail anywhere: `RecentSalesComplete`, `NoDoubleCount` |
| `sync_failures` | 1 store of 2 products, one of them `Refusable`, clock to 1, `FairSpec` | runs that die anywhere and records that cannot be written, with the mark and the webhook: `TypeOK`, `NeverHiddenInSilence`; once runs get through, `EveryChangeArrives` for every product whose own record can be written, wherever marks fall, and `GoneIsNoticed` from when a full pull is due |
| `sync_queue` | 2 workers, 2 callers, 1 row, 2 attempts, 1 stall, a pause after 2 rejections, 2 recipients, 1 trouble, `FairSpec` | `TypeOK`, `OneWriter`, `PauseIsEarned`, `OneMailPerIncident`, `EveryRequestServed`, `EveryRunCloses`, `AlarmEnds` |
| `transfers` | 3 locations of 1 product, 0 to 2 units, 2 members, 2 edits and 2 resizes in flight, ten budgets, `FairSpec` | `TypeOK`, `AnswerSticks`, `FiguresFollowRoles`, `FiguresRecover`, `NeverOverPromised`, `FinalStays` |
| `pos_ingest` | 2 receipts, 2 codes, 2 products, 2 days of which 1 is repaired, a POST, a pull and a match, 3 changes, 3 requests | `TypeOK`, `SalesFollowReceipts`, `LinksSurvive` |
| `realtime` | 2 components, 2 clients, 2 sockets, 2 workspaces, 1 switch, 2 events of one workspace and 1 of the other, up to 2 in a socket, 1 fault, `FairSpec` | `TypeOK`, `OneConnection`, `ImplementsChannel`, `EverySocketLeaves`, `Connects` |
| `sync_card` | 2 runs of which the first may fail, 1 event and 2 answers on their way, 1 fault, `FairSpec` | `ShownOverIsOver`, `PollingSuffices` |

### The runs that do not

`po_repeated_line`, one request at a time over one order for one piece, finds `NoOverReceipt`
violated, and `card_no_gateway`, with the constants of `sync_card` but no gateway and no fault,
`EndIsShown`: section 6.

Why the bounds are enough. The hazards of purchase orders are races of two requests
on one order, one row or one number: two requests and one order exhibit each
pair of operations at each point, two lines are what "the other line" needs (partial
receipts, the last-line guard, subtotals), quantity 2 is what a partial receipt
needs, and two orders are what "another order" needs. A queue row and a free id for
another, of one product, let rows be added, merged into one line and made up for a
manual order; `MaxNumber` 3 exceeds the number of orders, so the bound
on numbers never cuts a create short. `Moq` is 2, so a queue row for 1 becomes a line for 2 that can
be received in parts without any edit. `MaxNamed` 2 is a line named twice, which is what tells
the code's check of each entry from a check of the list; named more often, the figures only
get further apart. `po_receive` has one location, owned by no store: for a store-owned one the code
moves no stock, and with two `ShelfMatchesReceipts` promises less than the header of
unreceive-po.ts does (section 6); and email does not fail
in it, because failing email breaks `EntriesStillFit` (section 6). Edits are in `po_queue`, whose
`SentLinesFrozen` is about them; with them in `po_receive` too the instance is too large.

For the sync, a change matters by when it falls relative to a run: before its start,
between its start and a phase, or after. Three instants give a change before, one
inside and one after; five let an order be sold on one day, changed on another,
meet an order of the same day that did not change, and grow older than the look-backs of 3. Zone 1 and days of two
instants make a tenant's day begin before the UTC day, the case in which a
window starts in the middle of a day and the day has to be completed by sale
date. That the look-backs are finite (a year for a first run, 35 days for a reconcile) is a
choice of the product: `RecentSalesComplete` is about the orders within both, and
for all orders (`SalesComplete`) TLC refutes it on the same constants; section 6 says
what it costs a reconcile that failed. In the other runs the look-backs, of 9, are beyond the start of
the clock. Products do not change in `sync_sales`; with `"change"` as well, the
clock to 4 and a reconcile that looks back 2, TLC checked the invariant `SalesInv` of section 5
over 2.9 million states. In
`sync_failures` one change after the first instant is enough for a record that fails
in the same run that moves the cursor past it (another product has to have
changed later), which only a nightly pull repairs. With
`Attributed = FALSE` rows have no location, so that the unique key does not mask a
double insert.

For the queue, the races are of two: two callers that see no job, a worker and the one
its job was handed to, a success and the failure hook it races. One trouble (a crash, a
hand-over, a revocation, a reconnection, a removal, another error) is spent at any point; so that a
second one is not needed to reach a retry's end, the initial states include
jobs that failed and stalled before, and connections whose token is bad already, which then
reject every attempt without costing a trouble. Two recipients are the one who was
written to before a send throws and the one who was not. Two rejections pause, so one is "not
yet" and a write beside another is seen; a second row or a second trouble makes the
instance too large for a routine run.

A budget of `transfers` is a scenario: how often the store changes, members answer,
something dies, plans, edits and resizes happen. Together they cover each pair of
writers; the product of all of them is out of reach. Syncs are not bounded. Three
locations are a warehouse and two branches, which "the other branch's units" needs;
two units are what a partial allocation needs.

For the till, two receipts are what sharing a day and a row needs, and two products what
a code needs to be counted under one and matched to another; one
of two days is beyond the repair's reach; three changes let a receipt be entered, moved
and moved again, or its code arrive in the catalogue, and three requests are one of each
kind at once, or a receipt sent three times (with four, TLC takes three minutes and
finds nothing more). `Attributed` is
FALSE, which keeps the unique key from masking a double row: with it TRUE
fewer transactions commit.

For the live connection, two clients and two sockets are the old and the new one, at
every handover (teardown, retry, switch). The fault may be a refusal, a dial that
fails, a network that dies or a restart, at any point. Two events of a workspace, and room for both in a socket, are what
an order needs; one of the other workspace is what delivering to the wrong one needs. `sync_card` has an earlier run or
none, and up to two more, so that an answer about one can meet the card showing another; the first may fail, so that an
end can be shown with the wrong outcome.

Symmetry: `po_receive` permutes requests, `po_queue` requests and order ids; `pos_ingest` receipts, codes and products; these
occur only as interchangeable model values and in safety properties. The other runs
use none.

Every property of a passing run has at least one faulty variant of a definition that
breaks it in that run's own instance (section `mutants` of `PROJECT.json`).

## 4. Fairness

`PurchaseOrders`: none. Its properties are safety properties.

`ShopifySync!Fairness`: weak fairness of `StartRun`, because the schedule ticks every
fifteen minutes and queues a run for every connected workspace that is not paused (a paused
store gets neither tick nor mark, sync-schedule-cron.ts:83; the pause is in `SyncQueue`), and weak fairness of
`RunStep`. Nothing is assumed of the nightly mark: it is a cron of 03:00, the instant of
a tick as well, so it may fall inside a run every single night and be undone at that run's end
(`MarkHolds`, `GoneByTomorrow`, section 6). What is promised without it: once runs get through
(`FailuresEnd`: from some instant on none ends before its last step and every record can
be written), every change of a product whose record was never refused arrives
(`EveryChangeArrives`), whatever failed before; and once a full pull is due, the
cursor gone and no run about to write it (`FullPullDue`), a product that vanished is noticed (`GoneIsNoticed`).

`SyncQueue!FairSpec`: weak fairness of the workers' and hooks' own steps, of the
delays and the stalled sweep of the queue, of the tick of each caller, and of time and
the nightly sweep over rows. Nothing is assumed of people, of the store, or that a run
fails or succeeds, except that one with a good token is not for ever kept from
ending: errors other than rejections are bounded.

`Transfers!Fairness`: weak fairness of the stock phase as a whole, which the schedule
starts again every fifteen minutes, and of a member's request. Faults are bounded, and
`FiguresRecover` speaks of what happens when the store and the members are quiet.

`Realtime!Fairness`: weak fairness of timers, of frames that are on their way, of the
gateway's accepting, admitting and closing, and of heartbeats and their answers. None of
a browser noticing a dead network (`Notice`), of publishing, or of the user.

`SyncCard!Fairness`: jobs are taken and runs end (what `sync_queue` and the workers'
deadlines give), requests are answered, events that are on their way arrive, a socket
being dialled opens. None of pressing, reloading, or of there being a connection.

## 5. What is proved

For every value of the constants that satisfies the named assumptions
(`ConstantsAssumption`, `CalendarAssumption`, `SyncAssumption`, `QueueAssumption`,
`StockAssumption`, `NullAssumption`, `EditorAssumption`, `PosAssumption`,
`RealtimeAssumption`, `CardAssumption`, `KindsAssumption`, which TLC evaluates in each run
of their modules), and for what a theorem assumes besides, named below. Every safety
invariant and every action property that a run checks is stated by a theorem. Where a theorem assumes that
something is not in `Enabled`, section 6 has the behaviour that refutes the property
without the assumption. Finite sets of locations, receipts, orders or workers are
what a database holds; they are needed where a property counts or adds up.

**PurchaseOrdersProofs**

* `TypesHold`: `Spec => []TypeOK`.
* `QueueInvariant`: `Spec => []QueueInv`, the inductive invariant
  `TypeOK /\ JobShape /\ RowShape /\ OnTheWayIsReal`.
* `NothingLostOnTheWay`: `Spec => []OnTheWayIsReal`, a queue row that holds its
  product back is on an order that is not cancelled and has a line for it.

`OnTheWayIsReal` is not inductive alone. `JobShape` says what a request remembers
stays meaningful (its order exists; the rows it is about to claim exist, and it has
a positive quantity for each one's product), or else `CreateCommit` could link a row
to an order without its line. `RowShape` says the rows linked to an order are exactly
the ordered and completed ones, or else cancelling could miss one. The argument per
action: a step changes the status or the lines of an order only together with its
rows (cancel and remove return them, claim adds the line first), or moves it among
open statuses (send, hand back, receive, reverse), or touches rows only. The lemmas
`PoEffects`, `RowsKept` and `ShapeKept` state this once for all actions; `RowNext`
has a case per action.

The two locks and the claim, over the invariant above:

* `NumbersAreUnique`: `Spec => []NumbersNeverCollide`. It is inductive with the types:
  whoever takes the tenant's lock finds nobody else holding a number, and computes one
  above all that are issued (`NumberUnderLock`); orders that only change keep theirs.
* `LinesFreeze`: `Spec => SentLinesFrozen`. The two edits look at the draft again when they
  write, and creates write to a free order.
* `SentOnce`: `Spec => []DeliveredOnce`, by `SenderInv`: a request past the claim is alone on
  its order, and the order has left draft; once the provider accepted, nobody is past the claim and
  the order never is a draft again, so nobody can claim it.
* `EntriesFit`, `StatusIsReceipts`, `QueueIsReceipts`:
  `ASSUME "emailFails" \notin Enabled PROVE Spec => []P` for `EntriesStillFit`,
  `StatusReflectsReceipts`, `QueueFollowsReceipts`. Without the assumption the first is
  false (section 6): a failing email can hand back an order that is being received.
* `NeverOverReceived`: when moreover no list names a line twice (`MaxNamed = 1`),
  `Spec => [](NoOverReceipt /\ NeverNegative /\ PartlyMeansSome)`: what comments of the code say of
  the quantities holds then, and section 6 refutes each of the three when a list may. It
  bounds what a repeated line costs: nothing but these.

The first three are parts of one invariant, `ReceiptInv`: no request hands an order back;
what a request read under the lock of an order still is what the order says and no other
holds that lock (`LockedReadIsCurrent`); and for each order, and each row of each order,
the figures, the status and the row agree, a completed row standing for units that
really were ordered. Neither part is inductive alone: an order's figures are right after a receipt
because the read was current, and the read stays current because every other writer of
an open order (cancelling) leaves the figures alone and only drafts are edited. The
lemmas `ReceiptWritten` and `ReversalWritten` say what the two writes do; the rest is a case per action.

* `ShelvesMatch`: `Spec => []ShelfMatchesReceipts`, when no email fails, no location is
  store-owned, and locations and orders are finitely many. The property is about two
  sums, units on shelves and units booked in on lines, and is inductive over `QueueInv /\ ReceiptInv`
  with one fact more (`ShelfInv`), that a receipt under way has a location. A receipt
  changes one term of either sum, by the same amount, and so does a reversal
  where there is a row for it to decrement; where there is none, the reversal lowers what is booked in
  and leaves the shelves (hence `>=` with several locations); every other step leaves
  both sums alone.

**ShopifySyncProofs**

* `RebuiltDayIsWhole`, about `SalesWindow`: an order sold on a tenant day on which
  a changed order falls is among the orders from which the day is rebuilt, for
  every set of orders, window, day length, zone and pad at least as wide as the
  zone. The proof is that a tenant day lies inside the padded UTC day
  (`DayInsidePad`), and that a day the filter does not refetch lies inside the
  pulled window.
* `TypesHold`: `Spec => []TypeOK`.
* `NothingIsLeftBehind`: `Spec => []NothingFallsBehind`, assuming `Quiet` and
  `"recordFails" \notin Enabled`. `Quiet` says that jobs do not stall and connections
  change between runs only; runs may fail anywhere, and the mark, webhooks and owners act at
  any point. It is not true without: a switch of stores during a run breaks it, and a
  record that fails is left behind until the night (`FailureIsShown`, section 6).
* `NothingIsHidden`: `ASSUME Quiet PROVE Spec => []NeverHiddenInSilence`. Records may fail:
  the flag a failure leaves, or the next pull, is enough for this one.

Both follow from one inductive invariant, `SyncInv(due)`, in which `due` says what a product
is owed, to be held exactly as the store has it or not to be hidden in silence. It adds
to the property that the cursor is not ahead
of the clock and that a removed store leaves no cursors (`DatesAndLink`), that there
is one run (`OneRun`), and `RunInv`: the run's store is the connected one, its window
starts before it did, and for each product of the store on sale `OwedTo`, that it is
paid, or the run still has it to write, or it changed since the run started.
The last is what the cursor value `runStart` turns into coverage by the next window
(`CursorCovers`); with the time the run ended instead it would not hold.

* `NoSaleIsCountedTwice`: `ASSUME "stall" \notin Enabled PROVE Spec => []NoDoubleCount`, by
  `CountInv`: what a run is about to insert has each order once and lies within the days it
  rebuilds, and once these are cleared no order in it has a row (`RowsInv`). An order
  keeps the day it was sold on (`SoldStays`), so a row outside the rebuilt days cannot
  be of an order inside (`RowsOfDays`). Switches of stores under a run are allowed.
* `NoSaleIsLost`: `Spec => []RecentSalesComplete`, assuming `Quiet` and
  `"recordFails" \notin Enabled`, for look-backs of any length: it is about the orders that
  changed within both (`Recent`).
  `SalesInv` adds `NoSaleLost` (a recent order of the store that counts is recorded as it is, or the
  next run rebuilds its day) and `SalesRun`: while a run rebuilds days, its rows, and after the
  delete the table, have every recent order from before its start; the days it deletes from
  are, as long as they have a recent order, days that the next run would rebuild as well (so failing
  between delete and insert loses nothing); and what is on other days is recorded already, unless a
  reconcile came due since. Why look-backs that move on do no harm: a day to be rebuilt because
  of the cursor stays in the cursor's window until the cursor moves; and when the next run looks back
  (`LooksBack`), whatever the reason, it reaches the recent order itself (`RecentIsPulled`), even if
  the order that put the day into the failed run has aged out. `CursorPulls` is the other half:
  moving the cursor to the run's start forgets only orders the run has pulled. The
  assumptions are needed: a product whose record failed has no row that its sales could go to. And
  `Recent` is: a reconcile that fails half-way is repeated with a window that has
  moved on (`FailedRunIsRepeated`, section 6), so the days it deleted at the far end stay
  empty.
* `NoSaleIsEverLost`: `Spec => []SalesComplete`, when moreover a first run and a reconcile look
  back on every order there is (`Reaches`): all orders are recent.

**SyncQueueProofs**

* `QueueTypes`: `Spec => []TypeOK`.
* `WritersAreCounted`: `ASSUME IsFiniteSet(Workers) PROVE Spec => []OneWriter`, at most
  one execution beyond the hand-overs so far.

`OneWriter` is not inductive: a worker may start when it says nothing of whether another
still runs. The invariant `WriterInv` counts `Extra`, the workers busy with a job they
no longer hold: there are at most as many as hand-overs. A hand-over adds one to both
sides (`HandOverAddsOne`); a worker that takes the job becomes the holder and adds to
neither; every other step only removes executions (`NoStepAddsExtras`). The lemmas on cardinality come from `FiniteSetTheorems`.

What a failure for good leads to, over the types above:

* `OneMail`: `Spec => []OneMailPerIncident`, for any number of recipients: nobody is written to
  more often than once and once for each time the latch was released after somebody may have been
  (`past.rearmed`), and an armed latch means that all were, or are about to be. By `MailInv`:
  for each recipient, the mails that went out and the hooks whose mail
  is still to come (`Waiting`) are at most the releases, and one more while the latch is armed (`Armed`);
  and an armed latch without the last mail has such a hook or lost it to a crash.
* `PausesAreEarned`: `ASSUME IsFiniteSet(Workers) PROVE Spec => []PauseIsEarned`. The
  property says nothing of what hooks are about to write. `StrikeInv` adds that the
  stored count, and each count a hook has read, leave room for all hooks that have a
  rejection to record (`Room`): each wrote its own down as a strike when it began, so a
  stale read only writes less. The model counts strikes up to `PauseAfter` and no further; at
  that bound the count needs no room.

**TransfersProofs**

* `AnswersStick`: `Spec => []AnswerSticks`. With the domains of `place` and `answer`
  (`PlaceShape`) it is inductive: the upsert is the only step that writes a role without
  an answer, and it either keeps the row it read as confirmed or forgets the answer it
  did not see (`UpsertKeepsAnswers`).
* `FinalPlansStay`: `Spec => FinalStays`, from `LockInv`: an edit in progress holds the
  plan row, and holds it as a draft, so that finalising waits for it.
* `TransferTypes`: `ASSUME IsFiniteSet(Locations) PROVE Spec => []TypeOK`, by `PlanTypes`.
* `NoOverPromise`: `Spec => []NeverOverPromised` for finite sets of products and
  locations, by `PromiseInv` with `LockInv`. A resize that has deleted the lines finds none when it
  writes its own, if it is the only one; and an edit in progress keeps the room it
  computed, since every other writer of lines waits for its lock or deletes the line it
  is about to write (the update then matches no row).
* `FiguresAgree`: `Spec => []FiguresFollowRoles` for a finite set of locations, by
  `FigInv == StockInv /\ LevelInv /\ WalkInv /\ TallyInv /\ RightInv`. The property speaks of rest; the
  invariant says what holds on the way. A running sync's tally is what sells of the levels it has
  been through (`TallyInv`), a member's request still has to correct whatever product is not
  right (`RightInv`), and a row is only written from what the store reported, so a product that
  no location lost has rows exactly where the store reports it (`LevelInv`, `WalkInv`).
  With overlaps, and for products a location lost (`gone`), it claims nothing, like the code.

**PosIngestProofs**

* `PosTypes`: `ASSUME IsFiniteSet(Receipts) PROVE Spec => []TypeOK`.
* `MatchesSurvive`: under the same assumption `Spec => LinksSurvive`. The step that could
  lose a match is the commit of an ingest, which stores lines again with the map it read
  under the lock. `MapsCurrent` says what such a map knows: until somebody else commits,
  it has a product for every code some line is matched to, unless the code is ambiguous. It is
  true when the map is read (`MapReadIsCurrent`: the learned products of a code are a
  finite set, empty, one or several), and lines change by commits alone, which mark
  every other transaction as overlapped. `CodesKnown` is what types do not say: what is being
  ingested and matched has a code, even when an ingest deletes lines a match had picked.
* `SalesAddUp`: under the same assumption `Spec => []SalesFollowReceipts`, by
  `SalesInv == PosInv /\ DaysKnown /\ OneLock /\ HeldInv /\ Plain`. `Plain` is the property row by row:
  a receipt in a row is of its day and product, is in no other row, and is in one when
  it is linked. `HeldInv` says what a transaction holds between its statements: its days cover
  every day that a receipt of its batch is taken from or put on, even when it is overlapped,
  and what it derived is what is stored until somebody else commits. `OneLock` makes that
  "somebody" a match, which takes no lock.

**RealtimeProofs**

* `OneConnectionEach`: `Spec => []OneConnection`.
* `EventsOfOwnWorkspace`: `Spec => []OwnEventsOnly`: whatever is on its way to a client is
  a control frame or an event of the workspace the client was opened for, though sockets
  are reused, clients are handed over and the gateway restarts.

Both follow from `RealtimeInv`: a socket the page has open is the one of the client
that dialled it, for its workspace (`Wired`), clients that can still be reached by name are in
use (`Reachable`), and a socket is in the room of its workspace or of none and carries
its frames only (`SocketOk`). A socket that both ends are done with keeps its room (a
leak, section 6), which is why `SocketOk` speaks of sockets at work.

* `RealtimeTypes`: `Spec => []TypeOK`, by `RealtimeInv /\ WireInv /\ Counted`. That a wire stays
  within its bound is not a matter of types: the bound counts the frames between the open
  and the end, so the proof has to know where these two stand.
* `ImplementsLiveChannel`: `Spec => ImplementsChannel`, the refinement of `LiveChannel`, a safety
  specification. A component's channel has the status of the client it holds and the events
  on their way to it, and each action maps to one of the channel or to a stutter. What the simulation needs is `WireInv`: nothing comes before an open or
  after an end (`WireOk`), and a client that has not heard the open yet still has it before
  it (`PhaseOk`). The mapping drops those two frames (`Between`); what taking the head and
  appending at the end do to it is stated in lemmas on sequences by index, without induction. Since
  a wire keeps which event each frame is, the refinement says that what the component gets is what was
  published in its own workspace, each event once and in that order, until the socket ends.

**SyncCardProofs**

* `CardTypes`, `CardUsesChannel`: types, and that all the card does to its channel is a step of
  `LiveChannel`: its specification is implied, so what `ImplementsLiveChannel` promises is
  all the card relies on.
* `OverMeansOver`: `Spec => []ShownOverIsOver`: a run shown as over is over, and its row says what is
  shown, ok or failed. By `CardInv /\ Remembered`: a row read as over, in
  the card, in its page's properties or in an answer on its way, is `StillSo`: it has that very
  outcome. Rows change by a run starting (a later number) and ending (for
  good, and in one way), so what was read stays true however late it arrives.

**Sums**. The properties about sums need what a fold of addition over a finite set comes
to when one term changes (`SumUpdate`), an element is taken out (`SumRemove`), the terms outside
a subset are 0 (`SumSupport`), or all terms stay (`SumSame`). The
definition chooses an element at a time; that the order does not matter is proved by a
minimal counterexample among the subsets of the set, for which the library has the
well-founded order. So no induction theorem with an operator parameter is needed.

**Only model-checked.** The liveness properties: `EveryChangeArrives`,
`GoneIsNoticed`, `EveryRequestServed`, `EveryRunCloses`, `AlarmEnds`, `FiguresRecover`,
`EverySocketLeaves`, `Connects`, `PollingSuffices`. Fairness and ENABLED are out of the
prover's reach. (`EndIsShown` is violated, and `NoOverReceipt` where lists repeat a line.)

## 6. Where the code does not do what it says

`po_repeated_line`. The guard of a receipt checks every entry of its list against the line as
it was first read (receive-po.ts:96-102), and the loop after it adds them up (108-117).
`receivePoAction` passes the list through unchanged (orders/actions.ts:92-98). A list that names a line twice, for
what is outstanding each time, books in twice what was ordered: "No
over-receipt: an extra carton is a data problem to surface, not absorb" (receive-po.ts:100).

`card_no_gateway`. With no gateway configured, a store that has synced before, and
"Sync now": the card waits for its run (`queued`), the first poll comes before the worker
has opened a row and answers the previous run, which is over, and a finished run in an
answer releases `queued` whichever run it is of (sync-progress.tsx:91). Nothing is active or
queued any more, polling stops (line 158), and neither the run nor its end is shown until
the page is reloaded. Lines 155-156 call polling load-bearing for exactly this setting.

The following are refuted by TLC too, when a configuration of the module names the
property as its only INVARIANT or PROPERTY, with the constants of the run named and `Enabled` as given
(where nothing is given it is the run's). For purchase orders `MaxNamed` is 1 unless the row gives 2.
Each is a comment of the code, a property that states it, and what the code does.

| property | constants of | `Enabled` | what happens, and what the code says |
|---|---|---|---|
| `StockStaysOnBooks` | `po_receive`, 1 product | create, send, receive, cancel | cancelling checks the status and then writes by id, with neither lock nor guard (cancel-po.ts:34-37): a receipt in between is cancelled with its goods booked in. "Anything with stock already checked in stays on the books" (cancel-po.ts:25) |
| `SentWasSeen` | `po_receive`, 1 product | create, send | dying between the claim and the mail provider leaves an order "sent" that nobody was told of; send-po.ts:10-11 says never |
| `SupplierHoldsOurLines` | `po_receive`, 1 product | create, send, edit | an edit between a send's read and its claim: the supplier's document and our lines differ (edit-po-lines.ts:12-14) |
| `NeverNegative` | `po_receive`, 1 product, `MaxNamed` 2 | create, send, receive, unreceive | a reversal that names a line twice passes the check of each entry (unreceive-po.ts:84-91) and takes off more than was received (96-108): "a negative received quantity, which no screen can mean anything by" (88-89) is what the check was to prevent |
| `PartlyMeansSome` | `po_receive`, 1 product, `MaxNamed` 2 | create, send, receive, unreceive | such a reversal leaves the order partially received with nothing in: nothing in is `=== 0`, and a negative quantity is neither that nor full (unreceive-po.ts:145-147) |
| `NoOverReceipt`, `EntriesStillFit` | `po_receive`, 1 product, 3 requests | create, send, emailFails, receive, edit | a failing email hands back an order that is being received; it is edited down, and then more is booked in than ordered (receive-po.ts:100) |
| `ShelvesHoldReceipts` | `po_receive`, 1 product, Locations {shelf, shop} | create, send, receive, unreceive | a reversal that names a location where the product has no row takes the units off the order (unreceive-po.ts:99-105) and off no shelf: its `updateMany` (112-115) matches nothing. "this reverses exactly that" (unreceive-po.ts:16). Nothing checks that the location is the one received at, so with `shop` in `StoreLocations` units received there can also be taken off `shelf` |
| `NothingFallsBehind` | `sync_catalogue`, clock to 2 | change, switch, switchDuringRun | a run of the old store writes the cursor of the new one, whose products are then never pulled (actions.ts:108-110) |
| `NoDoubleCount` | `sync_sales`, 2 runners, 1 order, clock to 2, days of 1, zone and pad 0 | order, stall | a stalled job's two executions insert a day twice when rows have no location (shopify-sync.ts:609-611) |
| `GoneByTomorrow` | `sync_failures`, with its fairness | | marks go on for ever, each inside a run that undoes it, and nothing but a full pull notices a deletion whose webhook was lost: "shows up as gone by tomorrow" (sync-schedule-cron.ts:118-119) |
| `OneMailEach` | `sync_queue` | | the second send of an alert throws, the latch is released (incident.ts:119), and the next failure of the same incident writes to the first person again (86-88: one mail per incident) |

Smaller disagreements of the same kind have a property in the modules and no run of
their own. TLC refutes each when a configuration of the module names it as its only
INVARIANT or PROPERTY, with the operations given:

| property | `Enabled` | what happens |
|---|---|---|
| `DraftHasLines` | create, remove (2 products) | two removals of different lines leave a draft with no line |
| `SubtotalMatchesLines` | create, edit (2 products) | two edits of different lines: the later subtotal misses the other's |
| `OnePendingRowPerPrediction` | queue (empty queue) | two additions of one prediction create two pending rows |
| `MarkHolds` | change, mark | the nightly mark inside a run is undone at the run's end |
| `FailedRunIsRepeated` | order, tick, fail (`sync_sales` with `FirstLookback` 9, `ReconcileSpan` 1, `MaxClock` 4) | a reconcile that failed is repeated on the next day with a window one day later: a day it had deleted is not rebuilt |
| `ClearedOnReturn` | change, delete | a product deleted after it was pulled is unstamped when it is written |
| `FailureIsShown` | change, recordFails (2 products) | a new product whose record fails has no row to pin the failure to, and the cursor moves on |

What the newer modules except by a history variable, because the code lets it happen:

| module | what happens |
|---|---|
| `SyncQueue` | `past.raced`: a reconnection or a success between the failure hook's read of the count and its write is undone, and a store that has just proved its token may be paused (shopify-sync.ts:1095, against the comment at 1066); the next success repairs it |
| `SyncQueue` | `past.hookLost`: a process that dies between arming the latch and mailing leaves an incident nobody hears of until the next success |
| `SyncQueue` | a row written ok is written failed when one of the two clearing calls after it throws (`FailOther` after `RunOk`) |
| `Stock` | an answer given between a sync's read of a location and its upsert is overwritten with the guess (shopify-sync.ts:474 says "never touch a confirmed one") |
| `Stock` | `gone`: a level the store no longer reports is never deleted; the recomputation after a confirmation counts it, the sync does not |
| `Stock` | confirming a role rewrites `currentStock` but leaves `onOrder` to the next sync |
| `Transfers` | a resize that read a draft changes a plan finalised meanwhile (transfers.ts:779-780: "only a draft can be re-sized"); one that dies after its delete leaves a plan without lines; two at once leave both their lines |
| `PosIngest` | `dirty`: a match and an ingest at once can leave a row too many or too few, until the days are rebuilt; the repair reaches back 35 days only, and rows without a location collide with nothing |
| `PosIngest` | `dirty` too: a receipt whose code was unknown when it was ingested keeps a line without a product; when the catalogue brings product y with that code, the repair counts it under y ("recover receipts whose product did not exist at their original ingest", ingest.ts:223-224), but the fix queue still offers the code (pos-queues.ts:48 lists lines without a product), and matching it to x counts the receipt under x as well (match.ts:93-98 takes every such line, match.ts:50 clears x's rows only): it is counted twice until the day is rebuilt, beyond 35 days for ever |
| `PosIngest` | matching another code to y adds y up from the lines linked to it (match.ts:29-30) and so drops the receipts the repair had recovered, until the next rebuild of their days |
| `PosIngest` | a match made while its receipts are being sent again is lost; matching adds up lines of ignored codes too, unlike the rebuild |
| `Realtime` | a socket that closes while it is being authorised is bound afterwards and stays in the gateway's maps for ever (gateway.ts:254 relies on a close event that has already happened) |
| `Realtime` | an authorizer that fails or is slow closes with 4401, which the client takes for a refusal and never retries; components mounted before it keep the dead client |
| `Realtime` | the status reads "open" before the socket is admitted, so polling stops too early: a run that ends in between is shown running until the next event; the client has no heartbeat of its own, so a network that dies in silence keeps it "open" |

## 7. What is not modelled, and the plan

Not worth a model: the forecast engine (floating-point statistics), database isolation
(row-level security from one setting per transaction: there is no protocol, and one
workspace is modelled throughout), the screens, forms and read models of the web
application but for the card above, logging, and the audit engine (an offline report).
Forecast runs and scheduled jobs deduplicate by job id as the sync queue does. QuickBooks is
one function over one row: a refresh token that the provider rotates, two callers that
refresh at once, and a process that dies before the new token is stored (connection.ts:122);
its outcome depends on how long the provider keeps accepting the old token,
which is not part of the code.

The share of the source that is modelled is small because most of it is screens, queries
and computations without a state of their own; what is modelled is the code that
writes shared state from more than one place.

What would come next:

1. `QuickBooksToken`, with the provider's grace period as a constant.
2. Pure algorithms as operators against reference definitions: `applyMoq` and order
   quantities, the allocation of a transfer, the merging of days into ranges.
3. An abstract mirror (a catalogue in which each product is current or pending) that
   `ShopifySync` implements by a refinement mapping, as `Realtime` does `LiveChannel`.
4. Receipts (`PurchaseOrders`) as a third writer of `Stock`.

Proofs: the refinement of the abstract mirror (3). `ShelvesMatch` does not extend to
store-owned locations: a receipt that names one moves no stock, so a later reversal that names
another location takes off it what never came in (and the other way round), and neither
sum bounds the other.
