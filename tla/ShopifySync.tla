---------------------------- MODULE ShopifySync ----------------------------
(***************************************************************************)
(* The Shopify sync of one workspace: apps/worker/src/shopify-sync.ts,     *)
(* with everything else that writes what it relies on: the nightly full    *)
(* mark (sync-schedule-cron.ts), connecting, disconnecting, removing and   *)
(* redacting a store (settings/connections/actions.ts, the OAuth callback, *)
(* lib/shopify/compliance.ts) and the products/delete webhook.             *)
(*                                                                         *)
(* The store is the environment: products change and disappear, orders are *)
(* placed, back-dated and edited while a run is under way.  A version of a *)
(* product or an order is the instant it last changed, which is also what  *)
(* the store's updated_at filter looks at.  A run is split at its awaits.  *)
(*                                                                         *)
(* All rows of IngestCursor whose source starts with "shopify" are one     *)
(* function: the data cursors and the two markers are deleted together.    *)
(* Left out: the inventory phase (a full refresh that no window depends    *)
(* on), cost deltas, the run rows, notifications, tokens and the queue     *)
(* itself, whose one-job-per-workspace rule is the guard NoRunQueued.      *)
(* Each of removing and redacting a store is one step here.                *)
(***************************************************************************)
EXTENDS SalesWindow, FiniteSets

CONSTANTS
    Runners,        \* worker executions of the sync job
    Stores,
    Products,       \* products of all stores
    Orders,         \* orders of all stores
    StoreOf,        \* the store of a product
    ProductOf,      \* the product an order sells
    Refusable,      \* products whose record may be impossible to write
    Attributed,     \* do sales rows carry a location (else it is NULL)?
    Overlap,        \* OVERLAP_HOURS
    FirstLookback,  \* FIRST_RUN_ORDER_LOOKBACK_DAYS, in instants
    ReconcileSpan,  \* RECONCILE_DAYS, in instants
    ReconcileEvery, \* RECONCILE_EVERY_MS
    MaxClock,       \* bound: the last instant at which the store changes
    Enabled,        \* what happens besides runs
    Null

Happenings == {"change", "tick", "delete", "order", "mark", "switch",
               "switchDuringRun", "fail", "recordFails", "stall"}

Times == 0..MaxClock
Resources == {"products", "orders", "logic", "reconcile"}

ASSUME SyncAssumption ==
    /\ StoreOf \in [Products -> Stores]
    /\ ProductOf \in [Orders -> Products]
    /\ Refusable \subseteq Products
    /\ Attributed \in BOOLEAN
    /\ Overlap \in Nat
    /\ FirstLookback \in Nat
    /\ ReconcileSpan \in Nat
    /\ ReconcileEvery \in Nat
    /\ MaxClock \in Nat
    /\ Enabled \subseteq Happenings
    /\ Null \notin Int \cup Stores \cup Products

VARIABLES
    clock,
    item,    \* the stores' products: last change (Null: not yet), deleted?
    order,   \* the stores' orders: when sold, when last changed
    conn,    \* ShopifyConnection: the store, and whether it is installed
    cursor,  \* IngestCursor
    held,    \* our Product rows: version, missingFromShopifyAt, syncError
    sales,   \* our SalesHistory rows of the shopify channel
    run      \* what each runner is doing, and what it has read

vars == <<clock, item, order, conn, cursor, held, sales, run>>
storeSide == <<clock, item, order>>

Row == [order : Orders, version : Times, by : Runners]

Phases == {"idle", "begin", "fetchProducts", "products", "sweep",
           "advanceProducts", "fetchOrders", "delete", "create",
           "advanceOrders", "markers"}

Run == [pc        : Phases,
        store     : Stores \cup {Null},
        start     : Times,                        \* runStart
        rebuild   : BOOLEAN,
        reconcile : BOOLEAN,
        since     : Int \cup {Null},              \* productsSince
        seen      : [Products -> Times \cup {Null}],  \* versions pulled
        todo      : SUBSET Products,              \* pulled, not yet written
        written   : BOOLEAN,                      \* has a record been written?
        days      : SUBSET Int,                   \* days being rebuilt
        rows      : SUBSET Row]                   \* rows still to be inserted

Nothing == [x \in Products |-> Null]
Idle == [pc |-> "idle", store |-> Null, start |-> 0, rebuild |-> FALSE,
         reconcile |-> FALSE, since |-> Null, seen |-> Nothing, todo |-> {},
         written |-> FALSE, days |-> {}, rows |-> {}]
NoCursors == [c \in Resources |-> Null]
NotPlaced == [sold |-> Null, changed |-> Null]
NotHeld == [version |-> Null, missing |-> FALSE, error |-> FALSE]

Init ==
    /\ clock = 0
    /\ item \in [Products -> [changed : {Null, 0}, gone : {FALSE}]]
    /\ order = [o \in Orders |-> NotPlaced]
    /\ conn \in [store : Stores, live : {TRUE}]
    /\ cursor = NoCursors
    /\ held = [x \in Products |-> NotHeld]
    /\ sales = {}
    /\ run = [r \in Runners |-> Idle]

-----------------------------------------------------------------------------
(* Helpers.  A name with an underscore is a faulty variant of the          *)
(* definition that follows it.                                             *)

Active == {r \in Runners : run[r].pc # "idle"}

\* enqueueSyncOnce and the queue: one job per workspace, until its lock
\* expires and the stalled sweep gives it to another worker.
NoRunQueued == Active = {} \/ "stall" \in Enabled

\* Connections change while no run is under way, unless a run says otherwise.
QuietConnection == Active = {} \/ "switchDuringRun" \in Enabled

Placed == {o \in Orders : order[o].sold # Null}
OrdersOf(s) == {o \in Placed : StoreOf[ProductOf[o]] = s}
SoldAt == [o \in Placed |-> order[o].sold]

OnSale(x) == item[x].changed # Null /\ ~item[x].gone

\* What a pull of products updated since an instant returns (Null: all).
InWindow(x, since) == since = Null \/ item[x].changed >= since
Pulled(s, since) ==
    {x \in Products : /\ StoreOf[x] = s
                      /\ OnSale(x)
                      /\ InWindow(x, since)}

Rebuild == cursor["logic"] = Null
ReconcileDue ==
    /\ ~Rebuild
    /\ \/ cursor["reconcile"] = Null
       \/ clock - cursor["reconcile"] >= ReconcileEvery

ProductsSince(rebuild) ==
    IF rebuild \/ cursor["products"] = Null THEN Null
    ELSE WindowFromCursor(cursor["products"], Overlap)

\* The orders window: a year, the cursor less the overlap, or further back
\* when the recent days are being reconciled.
OrdersSince(start, rebuild, reconcile) ==
    LET base == IF rebuild \/ cursor["orders"] = Null
                THEN WindowFromNow(start, FirstLookback)
                ELSE WindowFromCursor(cursor["orders"], Overlap)
        far == WindowFromNow(start, ReconcileSpan)
    IN IF reconcile /\ far < base THEN far ELSE base

Changed(s, since) == {o \in OrdersOf(s) : order[o].changed >= since}

\* What the day sets hold once rebuilt: the collected orders, less those whose
\* product is not in the catalogue.
RowsFor(r, s, since) ==
    {[order |-> o, version |-> order[o].changed, by |-> r] :
        o \in {p \in CollectedOrders(Changed(s, since), OrdersOf(s), SoldAt, since) :
                 held[ProductOf[p]].version # Null}}

DayOfRow(row) == TenantDay(order[row.order].sold)

\* The sales of a product on a day are one row (bucketSalesByProductDay).
SameBucket(a, b) ==
    ProductOf[a.order] = ProductOf[b.order] /\ DayOfRow(a) = DayOfRow(b)

\* The unique key of SalesHistory, in which a NULL location equals nothing.
Insertable(rows) ==
    ~Attributed \/ \A a \in rows, b \in sales : ~SameBucket(a, b)

To(r, pc) == run' = [run EXCEPT ![r].pc = pc]

-----------------------------------------------------------------------------
(* The store.                                                              *)

\* Created, or changed.
ChangeProduct(x) ==
    /\ "change" \in Enabled
    /\ clock < MaxClock
    /\ ~item[x].gone
    /\ clock' = clock + 1
    /\ item' = [item EXCEPT ![x].changed = clock + 1]
    /\ UNCHANGED <<order, conn, cursor, held, sales, run>>

DeleteProduct(x) ==
    /\ "delete" \in Enabled
    /\ OnSale(x)
    /\ item' = [item EXCEPT ![x].gone = TRUE]
    /\ UNCHANGED <<clock, order, conn, cursor, held, sales, run>>

\* An order carries its own sale date: it may be back-dated or imported.
PlaceOrder(o, sold) ==
    /\ "order" \in Enabled
    /\ clock < MaxClock
    /\ order[o].sold = Null
    /\ OnSale(ProductOf[o])
    /\ sold <= clock + 1
    /\ clock' = clock + 1
    /\ order' = [order EXCEPT ![o] = [sold |-> sold, changed |-> clock + 1]]
    /\ UNCHANGED <<item, conn, cursor, held, sales, run>>

\* Fulfilled, refunded, edited: its sale date stays, its units may not.
ChangeOrder(o) ==
    /\ "order" \in Enabled
    /\ clock < MaxClock
    /\ order[o].sold # Null
    /\ clock' = clock + 1
    /\ order' = [order EXCEPT ![o].changed = clock + 1]
    /\ UNCHANGED <<item, conn, cursor, held, sales, run>>

Tick ==
    /\ "tick" \in Enabled
    /\ clock < MaxClock
    /\ clock' = clock + 1
    /\ UNCHANGED <<item, order, conn, cursor, held, sales, run>>

-----------------------------------------------------------------------------
(* A run.                                                                  *)

\* The job is picked up and reads the connection it will pull from.
StartRun(r) ==
    /\ run[r].pc = "idle"
    /\ NoRunQueued
    /\ conn.live
    /\ run' = [run EXCEPT ![r] = [Idle EXCEPT !.pc = "begin", !.store = conn.store]]
    /\ UNCHANGED <<storeSide, conn, cursor, held, sales>>

\* runStart is taken before anything is pulled; then markers and cursor.
PlanRun(r) ==
    /\ run[r].pc = "begin"
    /\ run' = [run EXCEPT ![r].pc = "fetchProducts",
                          ![r].start = clock,
                          ![r].rebuild = Rebuild,
                          ![r].reconcile = ReconcileDue,
                          ![r].since = ProductsSince(Rebuild)]
    /\ UNCHANGED <<storeSide, conn, cursor, held, sales>>

\* An empty pull writes and sweeps nothing.
FetchProducts(r) ==
    /\ run[r].pc = "fetchProducts"
    /\ LET pulled == Pulled(run[r].store, run[r].since)
       IN run' = [run EXCEPT
                    ![r].pc = IF pulled = {} THEN "advanceProducts" ELSE "products",
                    ![r].todo = pulled,
                    ![r].seen = [x \in Products |->
                                   IF x \in pulled THEN item[x].changed ELSE Null]]
    /\ UNCHANGED <<storeSide, conn, cursor, held, sales>>

Upserted_NewOnly(r, x) ==
    [version |-> IF held[x].version = Null THEN run[r].seen[x] ELSE held[x].version,
     missing |-> FALSE, error |-> FALSE]
Upserted(r, x) == [version |-> run[r].seen[x], missing |-> FALSE, error |-> FALSE]

WriteProduct(r, x) ==
    /\ run[r].pc = "products"
    /\ x \in run[r].todo
    /\ held' = [held EXCEPT ![x] = Upserted(r, x)]
    /\ run' = [run EXCEPT ![r].todo = @ \ {x}, ![r].written = TRUE]
    /\ UNCHANGED <<storeSide, conn, cursor, sales>>

\* A record that cannot be written is pinned to its row, if it has one.
WriteProductFails(r, x) ==
    /\ "recordFails" \in Enabled
    /\ x \in Refusable
    /\ run[r].pc = "products"
    /\ x \in run[r].todo
    /\ held' = [held EXCEPT ![x].error = held[x].version # Null]
    /\ run' = [run EXCEPT ![r].todo = @ \ {x}]
    /\ UNCHANGED <<storeSide, conn, cursor, sales>>

FullPull_Always(r) == TRUE
FullPull(r) == run[r].since = Null

ProductsWritten(r) ==
    /\ run[r].pc = "products"
    /\ run[r].todo = {}
    /\ run[r].written
    /\ To(r, IF FullPull(r) THEN "sweep" ELSE "advanceProducts")
    /\ UNCHANGED <<storeSide, conn, cursor, held, sales>>

\* Records, and none of them written: the phase throws, and with it the job.
NothingWritten(r) ==
    /\ run[r].pc = "products"
    /\ run[r].todo = {}
    /\ ~run[r].written
    /\ run' = [run EXCEPT ![r] = Idle]
    /\ UNCHANGED <<storeSide, conn, cursor, held, sales>>

Swept_Never(r) == held
\* A full pull stamps what it has not seen.
Swept(r) ==
    [x \in Products |->
       IF held[x].version # Null /\ run[r].seen[x] = Null
       THEN [held[x] EXCEPT !.missing = TRUE] ELSE held[x]]

Sweep(r) ==
    /\ run[r].pc = "sweep"
    /\ held' = Swept(r)
    /\ To(r, "advanceProducts")
    /\ UNCHANGED <<storeSide, conn, cursor, sales>>

CursorValue_WhenDone(r) == clock
CursorValue_DayBack(r) == run[r].start - DayLength
CursorValue(r) == run[r].start

AdvanceProducts(r) ==
    /\ run[r].pc = "advanceProducts"
    /\ cursor' = [cursor EXCEPT !["products"] = CursorValue(r)]
    /\ To(r, "fetchOrders")
    /\ UNCHANGED <<storeSide, conn, held, sales>>

\* The orders cursor is only read now; no changed order, no day to rebuild.
FetchOrders(r) ==
    /\ run[r].pc = "fetchOrders"
    /\ LET j == run[r]
           since == OrdersSince(j.start, j.rebuild, j.reconcile)
           days == AffectedDays(Changed(j.store, since), SoldAt)
       IN run' = [run EXCEPT
                    ![r].pc = IF days = {} THEN "advanceOrders" ELSE "delete",
                    ![r].days = days,
                    ![r].rows = RowsFor(r, j.store, since)]
    /\ UNCHANGED <<storeSide, conn, cursor, held, sales>>

RowsOutside_WholeTable(days) == sales
RowsOutside(days) == {row \in sales : DayOfRow(row) \notin days}

DeleteDays(r) ==
    /\ run[r].pc = "delete"
    /\ sales' = RowsOutside(run[r].days)
    /\ To(r, "create")
    /\ UNCHANGED <<storeSide, conn, cursor, held>>

\* One chunk at a time; a row that breaks the unique key throws (RunFails).
CreateRows(r, chunk) ==
    /\ run[r].pc = "create"
    /\ chunk \subseteq run[r].rows
    /\ chunk # {}
    /\ \A a \in chunk, b \in run[r].rows : SameBucket(a, b) => b \in chunk
    /\ Insertable(chunk)
    /\ sales' = sales \cup chunk
    /\ run' = [run EXCEPT ![r].rows = @ \ chunk]
    /\ UNCHANGED <<storeSide, conn, cursor, held>>

RowsCreated(r) ==
    /\ run[r].pc = "create"
    /\ run[r].rows = {}
    /\ To(r, "advanceOrders")
    /\ UNCHANGED <<storeSide, conn, cursor, held, sales>>

AdvanceOrders(r) ==
    /\ run[r].pc = "advanceOrders"
    /\ cursor' = [cursor EXCEPT !["orders"] = CursorValue(r)]
    /\ To(r, "markers")
    /\ UNCHANGED <<storeSide, conn, held, sales>>

\* Markers last, once every phase has written.  They are two writes, but dying
\* between them is dying before both: a rebuild does not look at the other one.
SetMarkers(r) ==
    /\ run[r].pc = "markers"
    /\ LET j == run[r]
       IN cursor' = [cursor EXCEPT
            !["reconcile"] = IF j.rebuild \/ j.reconcile THEN j.start ELSE @,
            !["logic"] = IF j.rebuild THEN j.start ELSE @]
    /\ run' = [run EXCEPT ![r] = Idle]
    /\ UNCHANGED <<storeSide, conn, held, sales>>

\* A call fails or the process dies: what was written stays written.
RunFails(r) ==
    /\ "fail" \in Enabled
    /\ run[r].pc # "idle"
    /\ run' = [run EXCEPT ![r] = Idle]
    /\ UNCHANGED <<storeSide, conn, cursor, held, sales>>

-----------------------------------------------------------------------------
(* What else writes the catalogue, the cursors and the connection.         *)

\* products/delete, late, repeated or never, while the store is connected.
DeleteWebhook(x) ==
    /\ item[x].gone
    /\ conn.live
    /\ conn.store = StoreOf[x]
    /\ held[x].version # Null
    /\ held' = [held EXCEPT ![x].missing = TRUE]
    /\ UNCHANGED <<storeSide, conn, cursor, sales, run>>

MarkedCursor == [cursor EXCEPT !["products"] = Null]

\* markTenantsForFullSync, once a night.
MarkFull ==
    /\ "mark" \in Enabled
    /\ conn.live
    /\ cursor' = MarkedCursor
    /\ UNCHANGED <<storeSide, conn, held, sales, run>>

CursorsAfterConnect_Kept(s) == cursor
\* resetCursorsOnStoreChange, in the transaction of the upsert.
CursorsAfterConnect(s) ==
    IF conn.store = Null \/ conn.store = s THEN cursor ELSE NoCursors

Connect(s) ==
    /\ "switch" \in Enabled
    /\ QuietConnection
    /\ cursor' = CursorsAfterConnect(s)
    /\ conn' = [store |-> s, live |-> TRUE]
    /\ UNCHANGED <<storeSide, held, sales, run>>

\* Disconnect in the app, or app/uninstalled: a pause, the row stays.
Disconnect ==
    /\ "switch" \in Enabled
    /\ QuietConnection
    /\ conn.live
    /\ conn' = [conn EXCEPT !.live = FALSE]
    /\ UNCHANGED <<storeSide, cursor, held, sales, run>>

\* removeShopifyStore: the link and the cursors go, the data stays.
RemoveStore ==
    /\ "switch" \in Enabled
    /\ QuietConnection
    /\ conn.store # Null
    /\ cursor' = NoCursors
    /\ conn' = [store |-> Null, live |-> FALSE]
    /\ UNCHANGED <<storeSide, held, sales, run>>

\* shop/redact, only once uninstalled: sales go, products are unlinked.
RedactShop ==
    /\ "switch" \in Enabled
    /\ QuietConnection
    /\ conn.store # Null
    /\ ~conn.live
    /\ cursor' = NoCursors
    /\ conn' = [store |-> Null, live |-> FALSE]
    /\ sales' = {}
    /\ held' = [x \in Products |-> NotHeld]
    /\ UNCHANGED <<storeSide, run>>

-----------------------------------------------------------------------------
RunStep(r) ==
    \/ PlanRun(r)
    \/ FetchProducts(r)
    \/ \E x \in Products : WriteProduct(r, x)
    \/ ProductsWritten(r) \/ NothingWritten(r) \/ Sweep(r) \/ AdvanceProducts(r)
    \/ FetchOrders(r) \/ DeleteDays(r)
    \/ \E chunk \in SUBSET run[r].rows : CreateRows(r, chunk)
    \/ RowsCreated(r) \/ AdvanceOrders(r) \/ SetMarkers(r)

StoreStep ==
    \/ \E x \in Products : ChangeProduct(x) \/ DeleteProduct(x)
    \/ \E o \in Orders :
         ChangeOrder(o) \/ \E sold \in Times : PlaceOrder(o, sold)
    \/ Tick

OwnerStep ==
    \/ \E s \in Stores : Connect(s)
    \/ Disconnect \/ RemoveStore \/ RedactShop

Next ==
    \/ \E r \in Runners :
         \/ StartRun(r) \/ RunStep(r) \/ RunFails(r)
         \/ \E x \in Products : WriteProductFails(r, x)
    \/ StoreStep
    \/ \E x \in Products : DeleteWebhook(x)
    \/ MarkFull
    \/ OwnerStep

Spec == Init /\ [][Next]_vars

\* The scheduler ticks every fifteen minutes for a store that is not paused, and
\* a run keeps running.  Nothing is assumed of the nightly mark: its instant is
\* also a tick's, so it may well fall inside a run every single night.
Fairness == \A r \in Runners : WF_vars(StartRun(r)) /\ WF_vars(RunStep(r))

FairSpec == Spec /\ Fairness

-----------------------------------------------------------------------------
(* Properties.                                                             *)

\* The types of both sides and of what a run remembers.
TypeOK ==
    /\ clock \in Times
    /\ item \in [Products -> [changed : Times \cup {Null}, gone : BOOLEAN]]
    /\ order \in [Orders -> [sold : Times, changed : Times] \cup {NotPlaced}]
    /\ conn \in [store : Stores \cup {Null}, live : BOOLEAN]
    /\ cursor \in [Resources -> Times \cup {Null}]
    /\ held \in [Products -> [version : Times \cup {Null}, missing : BOOLEAN,
                              error : BOOLEAN]]
    /\ sales \subseteq Row
    /\ run \in [Runners -> Run]

\* The next run would pull this product again.
ProductCovered(x) == InWindow(x, ProductsSince(Rebuild))

UpToDate(x) == held[x].version = item[x].changed /\ ~held[x].missing

\* No product of the connected store is ever left behind: it is held as the
\* store has it and not stamped missing, or the next run's window still covers
\* its change (the cursor is runStart, and moves only once all is written).
NothingFallsBehind ==
    \A x \in Products : StoreOf[x] = conn.store /\ OnSale(x) =>
        UpToDate(x) \/ ProductCovered(x)

\* A product on sale is never taken for gone in silence, even when records fail
\* to be written: it is flagged, or the next run pulls it again (the sweep only
\* follows a full pull, and counts what was seen, not what was written).
NeverHiddenInSilence ==
    \A x \in Products : StoreOf[x] = conn.store /\ OnSale(x) =>
        ~held[x].missing \/ held[x].error \/ ProductCovered(x)

\* The sales of an order are recorded as the order is now.
Recorded(o) ==
    /\ \E row \in sales : row.order = o
    /\ \A row \in sales : row.order = o => row.version = order[o].changed

\* The next run would rebuild the day of this order.
DayCovered(o) ==
    LET since == OrdersSince(clock, Rebuild, ReconcileDue)
    IN TenantDay(order[o].sold) \in
         AffectedDays(Changed(conn.store, since), SoldAt)

\* No sale of the connected store is lost: the order is in the sales history as
\* it is now, or its day is going to be rebuilt.  Sales of products that never
\* made it into the catalogue are not counted (bucketSalesByProductDay).
SalesComplete ==
    \A o \in Placed : /\ StoreOf[ProductOf[o]] = conn.store
                      /\ held[ProductOf[o]].version # Null
                      => Recorded(o) \/ DayCovered(o)

\* It changed no longer ago than both a first run and a reconcile look back.
Recent(o) == /\ order[o].changed >= clock - FirstLookback
             /\ order[o].changed >= clock - ReconcileSpan

\* No recent sale of the connected store is lost, however short the look-backs
\* are: a rebuild or a reconcile that dies half-way may leave days empty that the
\* repeated one no longer reaches, but not the day of a recent order.
RecentSalesComplete ==
    \A o \in Placed : /\ StoreOf[ProductOf[o]] = conn.store
                      /\ held[ProductOf[o]].version # Null
                      /\ Recent(o)
                      => Recorded(o) \/ DayCovered(o)

\* "So overlap windows never double-count": an order is in one row at most.
NoDoubleCount ==
    \A a, b \in sales : a.order = b.order => a = b

\* From some instant on every record can be written and no run ends before its
\* last step (to die there is to leave the markers as they were).
FailuresEnd ==
    <>[][\A r \in Runners :
           /\ run[r].pc \notin {"idle", "markers"} => run'[r].pc # "idle"
           /\ \A x \in Products : ~WriteProductFails(r, x)]_vars

Connected(x) == conn.live /\ conn.store = StoreOf[x]

\* Once runs get through, every change of a product on sale reaches the
\* catalogue, wherever marks fall and whatever other records are refused, as long
\* as its own record can be written.
EveryChangeArrives ==
    FailuresEnd =>
        \A x \in Products \ Refusable :
            OnSale(x) /\ Connected(x) ~> UpToDate(x) \/ ~OnSale(x) \/ ~Connected(x)

\* The cursor is dropped and no run that read it before is about to write it.
FullPullDue ==
    /\ cursor["products"] = Null
    /\ \A r \in Runners :
          run[r].pc \notin {"fetchProducts", "products", "sweep", "advanceProducts"}

\* Once runs get through, a product that vanished from the store shows up as
\* gone, without any webhook, by the full pull after a mark that no run undid
\* (unless the store is empty: an empty pull is never evidence of that).
GoneIsNoticed ==
    FailuresEnd =>
        \A x \in Products :
            item[x].gone /\ held[x].version # Null /\ Connected(x) /\ FullPullDue ~>
                \/ held[x].missing
                \/ \A y \in Products : StoreOf[y] = StoreOf[x] => ~OnSale(y)
                \/ ~Connected(x)

-----------------------------------------------------------------------------
(* What comments of the code say, and what it does not guarantee.          *)

\* sync-schedule-cron.ts: the cursor is dropped "so the next tick pulls the
\* whole catalogue": only a full pull puts it back.
MarkHolds ==
    [][cursor["products"] = Null /\ cursor'["products"] # Null =>
         \E r \in Runners : run[r].pc = "advanceProducts" /\ FullPull(r)]_vars

\* sync-schedule-cron.ts: "a product that vanished this morning shows up as gone
\* by tomorrow", for marks that go on for ever and fall wherever they fall.
GoneByTomorrow ==
    FailuresEnd /\ []<><<MarkFull>>_vars =>
        \A x \in Products :
            item[x].gone /\ held[x].version # Null ~>
                \/ held[x].missing
                \/ \A y \in Products : StoreOf[y] = StoreOf[x] => ~OnSale(y)

\* schema.prisma, of missingFromShopifyAt: "cleared the moment it reappears": a
\* product deleted in the store stays stamped.
ClearedOnReturn ==
    [][\A x \in Products :
         item[x].gone /\ held[x].missing /\ held'[x].version # Null =>
            held'[x].missing]_vars

\* shopify-sync.ts: a run that fails part-way leaves the markers unset, "so the
\* next run repeats the rebuild or reconcile": what it had deleted comes back.
FailedRunIsRepeated == Active = {} => SalesComplete

\* shopify-sync.ts: "Pin the failure to the row instead - the catalogue shows
\* it": a product a run could not write is flagged, unless it is pulled again.
FailureIsShown ==
    \A x \in Products : StoreOf[x] = conn.store /\ OnSale(x) =>
        UpToDate(x) \/ ProductCovered(x) \/ held[x].error

-----------------------------------------------------------------------------
(* What makes NothingFallsBehind and NeverHiddenInSilence inductive, when  *)
(* jobs do not stall and connections do not change under a run.            *)

Quiet == {"stall", "switchDuringRun"} \cap Enabled = {}

AtMost(since, t) == since # Null => since <= t

\* The cursor is not ahead of time; a removed store leaves no cursors; only a
\* product we hold is stamped.
DatesAndLink ==
    /\ AtMost(cursor["products"], clock)
    /\ conn.store = Null => cursor = NoCursors
    /\ conn.live => conn.store # Null
    /\ \A x \in Products : held[x].missing => held[x].version # Null

OneRun == \A r, s \in Active : r = s

\* Where a run is once it has its window, and once it has pulled products.
Planned == Phases \ {"idle", "begin"}
Fetched == Planned \ {"fetchProducts"}

\* Since the run started this product changed, and the next run will see it.
ChangedSince(r, x) == item[x].changed >= run[r].start

\* What a product is owed: to be held as the store has it, or (records may fail
\* to be written) not to be hidden in silence.
Dues == {"exact", "shown"}
Paid(x, due) == IF due = "exact" THEN UpToDate(x)
                ELSE ~held[x].missing \/ held[x].error
AllPaid(due) ==
    \A x \in Products : StoreOf[x] = conn.store /\ OnSale(x) =>
        Paid(x, due) \/ ProductCovered(x)

\* What a run owes a product of the connected store.
OwedTo(r, x, due) ==
    /\ run[r].pc = "fetchProducts" => Paid(x, due) \/ InWindow(x, run[r].since)
    /\ run[r].pc \in Fetched =>
         Paid(x, due) \/ x \in run[r].todo \/ ChangedSince(r, x)
    /\ run[r].pc = "products" /\ x \in run[r].todo =>
         run[r].seen[x] = item[x].changed \/ ChangedSince(r, x)
    /\ run[r].pc \in {"products", "sweep"} /\ FullPull(r) =>
         run[r].seen[x] # Null \/ ChangedSince(r, x)

RunInv(r, due) ==
    /\ run[r].start <= clock
    /\ run[r].store = conn.store /\ conn.store # Null
    /\ run[r].pc # "products" => run[r].todo = {}
    /\ run[r].pc = "sweep" => FullPull(r)
    /\ run[r].pc \in Planned => /\ AtMost(run[r].since, run[r].start)
                               /\ AtMost(cursor["products"], run[r].start)
    /\ \A x \in Products :
         StoreOf[x] = conn.store /\ OnSale(x) => OwedTo(r, x, due)

SyncInv(due) == /\ TypeOK
                /\ DatesAndLink
                /\ OneRun
                /\ \A r \in Active : RunInv(r, due)
                /\ AllPaid(due)

-----------------------------------------------------------------------------
(* What makes NoDoubleCount inductive, when jobs do not stall.             *)

\* What a run is about to insert: an order once, of the days it rebuilds, and
\* once these are cleared no order that has a row.
RowsInv(r) ==
    run[r].pc \in {"delete", "create"} =>
        /\ \A row \in run[r].rows : row.order \in Placed /\ DayOfRow(row) \in run[r].days
        /\ \A row, other \in run[r].rows : row.order = other.order => row = other
        /\ run[r].pc = "create" =>
             \A row \in run[r].rows, other \in sales : row.order # other.order

CountInv == TypeOK /\ OneRun /\ NoDoubleCount /\ \A r \in Active : RowsInv(r)

-----------------------------------------------------------------------------
(* What makes RecentSalesComplete inductive, when moreover connections do  *)
(* not change under a run and every record can be written.                 *)

\* A first run and a reconcile look back on every order there is: all are recent.
Reaches == FirstLookback >= MaxClock /\ ReconcileSpan >= MaxClock

Mine(o) == StoreOf[ProductOf[o]] = conn.store
Known(o) == held[ProductOf[o]].version # Null
DayOf(o) == TenantDay(order[o].sold)

\* The next run looks back; it pulls this order; it pulls one of this day.
LooksBack == Rebuild \/ ReconcileDue \/ cursor["orders"] = Null
PulledAgain(o) ==
    \/ LooksBack /\ Recent(o)
    \/ /\ ~Rebuild /\ cursor["orders"] # Null
       /\ order[o].changed >= WindowFromCursor(cursor["orders"], Overlap)
RebuiltAgain(d) == \E o \in Placed : Mine(o) /\ DayOf(o) = d /\ PulledAgain(o)

OrderDates ==
    /\ \A o \in Placed : /\ order[o].sold <= order[o].changed
                         /\ order[o].changed <= clock
                         /\ item[ProductOf[o]].changed # Null
    /\ AtMost(cursor["orders"], clock)

\* Its product is in the catalogue, or may yet get there.
Counts(o) ==
    /\ Mine(o) /\ Recent(o)
    /\ Known(o) \/ OnSale(ProductOf[o]) \/ \E r \in Active : ProductOf[o] \in run[r].todo

NoSaleLost == \A o \in Placed : Counts(o) => Recorded(o) \/ RebuiltAgain(DayOf(o))

\* A reconcile came due after the run was planned: the next run looks back.
DueSince(r) == ReconcileDue /\ ~run[r].rebuild /\ ~run[r].reconcile

\* An order this run has to get right, and the rows its days are made of.
Before(r, o) == Mine(o) /\ Recent(o) /\ Known(o) /\ order[o].changed < run[r].start
RowsOf(r) == run[r].rows \cup (IF run[r].pc = "create" THEN sales ELSE {})

SalesRun(r) ==
    /\ run[r].pc \in Planned =>
         /\ run[r].rebuild <=> Rebuild
         /\ run[r].reconcile => ReconcileDue
         /\ AtMost(cursor["orders"], run[r].start)
    /\ run[r].pc \in Fetched =>
         /\ \A x \in run[r].todo : run[r].seen[x] # Null
         /\ \A o \in Placed : /\ Mine(o) /\ ~Known(o) /\ OnSale(ProductOf[o])
                              /\ ProductOf[o] \notin run[r].todo
                              => order[o].changed >= run[r].start
    /\ run[r].pc \in {"delete", "create"} =>
         /\ \A o \in Placed : Mine(o) /\ Recent(o) /\ DayOf(o) \in run[r].days =>
              RebuiltAgain(DayOf(o))
         /\ \A o \in Placed : Before(r, o) /\ DayOf(o) \in run[r].days =>
              /\ \E row \in RowsOf(r) : row.order = o
              /\ \A row \in RowsOf(r) : row.order = o => row.version = order[o].changed
         /\ \A o \in Placed : Before(r, o) /\ DayOf(o) \notin run[r].days =>
              Recorded(o) \/ DueSince(r)
    /\ run[r].pc \in {"advanceOrders", "markers"} =>
         \A o \in Placed : Before(r, o) => Recorded(o) \/ DueSince(r)

SalesInv ==
    /\ SyncInv("exact") /\ CountInv
    /\ OrderDates /\ NoSaleLost
    /\ \A r \in Active : SalesRun(r)
=============================================================================
