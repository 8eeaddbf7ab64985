------------------------- MODULE ShopifySyncProofs -------------------------
(***************************************************************************)
(* Proofs about SalesWindow and ShopifySync, for all values of the         *)
(* constants.                                                              *)
(***************************************************************************)
EXTENDS ShopifySync, TLAPS

-----------------------------------------------------------------------------
(* The date arithmetic.                                                    *)

\* Euclidean division: what \div returns brackets the dividend.
LEMMA Division ==
    ASSUME NEW n \in Int, NEW d \in Nat \ {0}
    PROVE  n \div d \in Int /\ d * (n \div d) <= n /\ n < d * ((n \div d) + 1)
  OBVIOUS

\* computeWindowStart only ever enlarges a window.
LEMMA MidnightIsBefore ==
    ASSUME NEW t \in Int
    PROVE  UtcMidnight(t) \in Int /\ UtcMidnight(t) <= t
  BY Division, CalendarAssumption DEF UtcMidnight

\* A tenant's day lies inside the UTC day of the same name, padded.
LEMMA DayInsidePad ==
    ASSUME NEW t \in Int
    PROVE  /\ TenantDay(t) \in Int
           /\ DayLength * TenantDay(t) - Pad <= t
           /\ t < DayLength * (TenantDay(t) + 1) + Pad
<1>1. TenantDay(t) \in Int /\ DayLength * TenantDay(t) <= t + Zone
                           /\ t + Zone < DayLength * (TenantDay(t) + 1)
  <2>1. t + Zone \in Int
    BY CalendarAssumption
  <2> QED BY <2>1, Division, CalendarAssumption DEF TenantDay
<1>2. /\ DayLength * TenantDay(t) \in Int
      /\ DayLength * (TenantDay(t) + 1) \in Int
  BY <1>1, CalendarAssumption
<1> QED BY <1>1, <1>2, CalendarAssumption

\* A rebuilt day is rebuilt from EVERY order sold on it, whatever the window,
\* the time zone and the sale dates: an order that falls on a day some changed
\* order falls on is collected (collectDayOrders; the delete takes whole days).
THEOREM RebuiltDayIsWhole ==
    ASSUME NEW placed, NEW since \in Int,
           NEW soldAt \in [placed -> Int], NEW changedAt \in [placed -> Int],
           \A o \in placed : soldAt[o] <= changedAt[o]
    PROVE  LET changed == {o \in placed : changedAt[o] >= since}
           IN \A o \in placed :
                TenantDay(soldAt[o]) \in AffectedDays(changed, soldAt) =>
                  o \in CollectedOrders(changed, placed, soldAt, since)
<1> DEFINE changed == {o \in placed : changedAt[o] >= since}
<1> SUFFICES ASSUME NEW o \in placed,
                    TenantDay(soldAt[o]) \in AffectedDays(changed, soldAt)
             PROVE  o \in CollectedOrders(changed, placed, soldAt, since)
  OBVIOUS
<1> DEFINE day == TenantDay(soldAt[o])
<1>1. /\ day \in Int
      /\ DayLength * day - Pad <= soldAt[o]
      /\ soldAt[o] < DayLength * (day + 1) + Pad
  BY DayInsidePad
<1>2. DayLength * day - Pad \in Int
  BY <1>1, CalendarAssumption
<1>3. CASE DayNeedsRefetch(day, since)
  <2>1. SoldAround(soldAt[o], day)
    BY <1>1 DEF SoldAround
  <2> QED BY <1>3, <2>1 DEF CollectedOrders
<1>4. CASE ~DayNeedsRefetch(day, since)
  <2>1. since <= DayLength * day - Pad
    BY <1>2, <1>4 DEF DayNeedsRefetch
  <2>2. since <= changedAt[o]
    BY <1>1, <1>2, <2>1
  <2> QED BY <2>2 DEF CollectedOrders
<1> QED BY <1>3, <1>4

-----------------------------------------------------------------------------
(* Types.                                                                  *)

LEMMA IdleIsRun == Idle \in Run
  BY SyncAssumption DEF Idle, Run, Phases, Times, Nothing

LEMMA TypeInit == Init => TypeOK
<1> SUFFICES ASSUME Init PROVE TypeOK
  OBVIOUS
<1>1. item \in [Products -> [changed : Times \cup {Null}, gone : BOOLEAN]]
  <2>1. /\ {Null, 0} \subseteq Times \cup {Null}
        /\ {FALSE} \subseteq BOOLEAN
    BY SyncAssumption DEF Times
  <2>2. ASSUME NEW x \in Products
        PROVE  item[x] \in [changed : Times \cup {Null}, gone : BOOLEAN]
    <3>1. item[x] \in [changed : {Null, 0}, gone : {FALSE}]
      BY DEF Init
    <3> QED BY <2>1, <3>1
  <2> QED BY <2>2 DEF Init
<1>2. run \in [Runners -> Run]
  BY IdleIsRun DEF Init
<1>3. held \in [Products -> [version : Times \cup {Null}, missing : BOOLEAN, error : BOOLEAN]]
  BY DEF Init, NotHeld
<1>4. cursor \in [Resources -> Times \cup {Null}]
  BY DEF Init, NoCursors
<1>5. conn \in [store : Stores \cup {Null}, live : BOOLEAN]
  BY DEF Init
<1> QED BY <1>1, <1>2, <1>3, <1>4, <1>5, SyncAssumption DEF Init, TypeOK, Row, Times

\* The windows are instants.
LEMMA ProductsWindow ==
    ASSUME TypeOK, NEW rebuild \in BOOLEAN
    PROVE  ProductsSince(rebuild) \in Int \cup {Null}
<1>1. ASSUME cursor["products"] # Null
      PROVE  WindowFromCursor(cursor["products"], Overlap) \in Int
  <2>1. cursor["products"] - Overlap \in Int
    BY <1>1, SyncAssumption DEF TypeOK, Resources, Times
  <2> QED BY <2>1, MidnightIsBefore DEF WindowFromCursor
<1> QED BY <1>1 DEF ProductsSince

LEMMA OrdersWindow ==
    ASSUME TypeOK, NEW start \in Times, NEW rebuild \in BOOLEAN, NEW reconcile \in BOOLEAN
    PROVE  OrdersSince(start, rebuild, reconcile) \in Int
<1>1. ASSUME NEW span \in Nat PROVE WindowFromNow(start, span) \in Int
  <2>1. start - span \in Int
    BY SyncAssumption DEF Times
  <2> QED BY <2>1, MidnightIsBefore DEF WindowFromNow
<1>2. ASSUME cursor["orders"] # Null
      PROVE  WindowFromCursor(cursor["orders"], Overlap) \in Int
  <2>1. cursor["orders"] - Overlap \in Int
    BY <1>2, SyncAssumption DEF TypeOK, Resources, Times
  <2> QED BY <2>1, MidnightIsBefore DEF WindowFromCursor
<1>3. WindowFromNow(start, FirstLookback) \in Int /\ WindowFromNow(start, ReconcileSpan) \in Int
  BY <1>1, SyncAssumption
<1> QED BY <1>2, <1>3 DEF OrdersSince

ItemType == [changed : Times \cup {Null}, gone : BOOLEAN]
OrderType == [sold : Times, changed : Times]
HeldType == [version : Times \cup {Null}, missing : BOOLEAN, error : BOOLEAN]

\* The types, with the records named.
LEMMA TypeParts ==
    TypeOK <=> /\ clock \in Times
               /\ item \in [Products -> ItemType]
               /\ order \in [Orders -> OrderType \cup {NotPlaced}]
               /\ conn \in [store : Stores \cup {Null}, live : BOOLEAN]
               /\ cursor \in [Resources -> Times \cup {Null}]
               /\ held \in [Products -> HeldType]
               /\ sales \subseteq Row
               /\ run \in [Runners -> Run]
  BY DEF TypeOK, ItemType, OrderType, HeldType

\* A step of the store keeps the types.
LEMMA TypeStore == ASSUME TypeOK, StoreStep PROVE TypeOK'
<1>1. /\ clock \in Times /\ item \in [Products -> ItemType]
      /\ order \in [Orders -> OrderType \cup {NotPlaced}]
  BY TypeParts
<1>2. clock < MaxClock => clock + 1 \in Times
  BY <1>1, SyncAssumption DEF Times
<1>3. ASSUME clock' \in Times, item' \in [Products -> ItemType],
             order' \in [Orders -> OrderType \cup {NotPlaced}],
             UNCHANGED <<conn, cursor, held, sales, run>>
      PROVE  TypeOK'
  BY <1>3 DEF TypeOK, ItemType, OrderType
<1>4. ASSUME NEW x \in Products, ChangeProduct(x) PROVE TypeOK'
  <2>1. [item[x] EXCEPT !.changed = clock + 1] \in ItemType
    BY <1>1, <1>2, <1>4 DEF ChangeProduct, ItemType
  <2>2. item' = [item EXCEPT ![x] = [item[x] EXCEPT !.changed = clock + 1]]
    BY <1>4 DEF ChangeProduct
  <2>3. item' \in [Products -> ItemType]
    BY <1>1, <2>1, <2>2
  <2> QED BY <1>1, <1>2, <1>3, <1>4, <2>3 DEF ChangeProduct
<1>5. ASSUME NEW x \in Products, DeleteProduct(x) PROVE TypeOK'
  <2>1. [item[x] EXCEPT !.gone = TRUE] \in ItemType
    BY <1>1 DEF ItemType
  <2>2. item' = [item EXCEPT ![x] = [item[x] EXCEPT !.gone = TRUE]]
    BY <1>5 DEF DeleteProduct
  <2>3. item' \in [Products -> ItemType]
    BY <1>1, <2>1, <2>2
  <2> QED BY <1>1, <1>3, <1>5, <2>3 DEF DeleteProduct
<1>6. ASSUME NEW o \in Orders, ChangeOrder(o) PROVE TypeOK'
  <2>1. order[o] \in OrderType
    BY <1>1, <1>6 DEF ChangeOrder, NotPlaced
  <2>2. [order[o] EXCEPT !.changed = clock + 1] \in OrderType
    BY <1>2, <1>6, <2>1 DEF ChangeOrder, OrderType
  <2>3. order' = [order EXCEPT ![o] = [order[o] EXCEPT !.changed = clock + 1]]
    BY <1>6 DEF ChangeOrder
  <2>4. order' \in [Orders -> OrderType \cup {NotPlaced}]
    BY <1>1, <2>2, <2>3
  <2> QED BY <1>1, <1>2, <1>3, <1>6, <2>4 DEF ChangeOrder
<1>7. ASSUME NEW o \in Orders, NEW sold \in Times, PlaceOrder(o, sold) PROVE TypeOK'
  <2>1. [sold |-> sold, changed |-> clock + 1] \in OrderType
    BY <1>2, <1>7 DEF PlaceOrder, OrderType
  <2>2. order' \in [Orders -> OrderType \cup {NotPlaced}]
    BY <1>1, <1>7, <2>1 DEF PlaceOrder
  <2> QED BY <1>1, <1>2, <1>3, <1>7, <2>2 DEF PlaceOrder
<1>8. CASE Tick
  BY <1>1, <1>2, <1>3, <1>8 DEF Tick
<1> QED BY <1>4, <1>5, <1>6, <1>7, <1>8 DEF StoreStep

\* A step of the owner, or of what else writes the catalogue, keeps the types.
LEMMA TypeOwner ==
    ASSUME TypeOK, OwnerStep \/ MarkFull \/ \E x \in Products : DeleteWebhook(x)
    PROVE  TypeOK'
<1>1. /\ held \in [Products -> HeldType] /\ cursor \in [Resources -> Times \cup {Null}]
      /\ conn \in [store : Stores \cup {Null}, live : BOOLEAN] /\ sales \subseteq Row
  BY TypeParts
<1>2. ASSUME held' \in [Products -> HeldType], cursor' \in [Resources -> Times \cup {Null}],
             conn' \in [store : Stores \cup {Null}, live : BOOLEAN], sales' \subseteq Row,
             UNCHANGED <<storeSide, run>>
      PROVE  TypeOK'
  BY <1>2 DEF TypeOK, HeldType, storeSide
<1>3. NoCursors \in [Resources -> Times \cup {Null}] /\ NotHeld \in HeldType
  BY DEF NoCursors, NotHeld, HeldType
<1>4. [store |-> Null, live |-> FALSE] \in [store : Stores \cup {Null}, live : BOOLEAN]
  OBVIOUS
<1>5. ASSUME NEW s \in Stores, Connect(s) PROVE TypeOK'
  <2>1. conn' \in [store : Stores \cup {Null}, live : BOOLEAN]
    BY <1>5 DEF Connect
  <2> QED BY <1>1, <1>2, <1>3, <1>5, <2>1 DEF Connect, CursorsAfterConnect
<1>6. CASE Disconnect
  <2>1. conn' \in [store : Stores \cup {Null}, live : BOOLEAN]
    BY <1>1, <1>6 DEF Disconnect
  <2> QED BY <1>1, <1>2, <1>6, <2>1 DEF Disconnect
<1>7. CASE RemoveStore
  BY <1>1, <1>2, <1>3, <1>4, <1>7 DEF RemoveStore
<1>8. CASE RedactShop
  <2>1. held' \in [Products -> HeldType]
    BY <1>3, <1>8 DEF RedactShop
  <2> QED BY <1>2, <1>3, <1>4, <1>8, <2>1 DEF RedactShop
<1>9. CASE MarkFull
  <2>1. cursor' \in [Resources -> Times \cup {Null}]
    BY <1>1, <1>9 DEF MarkFull, MarkedCursor
  <2> QED BY <1>1, <1>2, <1>9, <2>1 DEF MarkFull
<1>10. ASSUME NEW x \in Products, DeleteWebhook(x) PROVE TypeOK'
  <2>1. [held[x] EXCEPT !.missing = TRUE] \in HeldType
    BY <1>1 DEF HeldType
  <2>2. held' = [held EXCEPT ![x] = [held[x] EXCEPT !.missing = TRUE]]
    BY <1>10 DEF DeleteWebhook
  <2>3. held' \in [Products -> HeldType]
    BY <1>1, <2>1, <2>2
  <2> QED BY <1>1, <1>2, <1>10, <2>3 DEF DeleteWebhook
<1> QED BY <1>5, <1>6, <1>7, <1>8, <1>9, <1>10 DEF OwnerStep

LEMMA TypeStoreOwner ==
    ASSUME TypeOK, StoreStep \/ OwnerStep \/ MarkFull \/ \E x \in Products : DeleteWebhook(x)
    PROVE  TypeOK'
  BY TypeStore, TypeOwner

\* The rows a run collects are rows.
LEMMA CollectedRows ==
    ASSUME TypeOK, NEW r \in Runners, NEW s, NEW since \in Int
    PROVE  RowsFor(r, s, since) \subseteq Row
<1>1. OrdersOf(s) \subseteq Orders /\ Changed(s, since) \subseteq OrdersOf(s)
  BY DEF OrdersOf, Placed, Changed
<1>2. CollectedOrders(Changed(s, since), OrdersOf(s), SoldAt, since) \subseteq OrdersOf(s)
  BY <1>1 DEF CollectedOrders
<1>3. \A o \in OrdersOf(s) : order[o].changed \in Times
  <2> SUFFICES ASSUME NEW o \in OrdersOf(s) PROVE order[o].changed \in Times
    OBVIOUS
  <2> QED BY DEF OrdersOf, Placed, TypeOK, NotPlaced
<1> QED BY <1>1, <1>2, <1>3 DEF RowsFor, Row

LEMMA PcOfRun ==
    ASSUME NEW j \in Run, NEW pc \in Phases
    PROVE  [j EXCEPT !.pc = pc] \in Run
  BY DEF Run

\* Moving on to another phase keeps a run's type.
LEMMA TypeTo ==
    ASSUME TypeOK, NEW r \in Runners, NEW pc \in Phases, To(r, pc)
    PROVE  run' \in [Runners -> Run]
<1>1. run \in [Runners -> Run]
  BY DEF TypeOK
<1>2. run' = [run EXCEPT ![r] = [run[r] EXCEPT !.pc = pc]]
  BY <1>1 DEF To
<1>3. [run[r] EXCEPT !.pc = pc] \in Run
  BY <1>1, PcOfRun
<1> QED BY <1>1, <1>2, <1>3

\* A step of a run is about that run only, and leaves the store and the
\* connection alone.
LEMMA RunSteps ==
    ASSUME TypeOK, NEW r \in Runners, StartRun(r) \/ RunStep(r) \/ RunFails(r)
    PROVE  /\ UNCHANGED <<clock, item, order, conn>>
           /\ \A s \in Runners \ {r} : run'[s] = run[s]
           /\ ~StartRun(r) => run[r].pc # "idle"
           /\ StartRun(r) => run[r].pc = "idle"
<1> DEFINE Shape == /\ UNCHANGED <<clock, item, order, conn>>
                    /\ \A s \in Runners \ {r} : run'[s] = run[s]
           Work == Shape /\ run[r].pc # "idle"
<1>1. run \in [Runners -> Run]
  BY DEF TypeOK
<1>2. StartRun(r) => run[r].pc = "idle" /\ Shape
  BY <1>1 DEF StartRun, storeSide
<1>3. RunFails(r) => Work
  BY <1>1 DEF RunFails, storeSide
<1>4. PlanRun(r) => Work
  BY <1>1 DEF PlanRun, storeSide
<1>5. FetchProducts(r) => Work
  BY <1>1 DEF FetchProducts, storeSide
<1>6. ASSUME NEW x \in Products, WriteProduct(r, x) PROVE Work
  BY <1>1, <1>6 DEF WriteProduct, storeSide
<1>7. ASSUME NEW pc, To(r, pc) PROVE \A s \in Runners \ {r} : run'[s] = run[s]
  BY <1>1, <1>7 DEF To
<1>8. ProductsWritten(r) \/ Sweep(r) \/ AdvanceProducts(r) => Work
  BY <1>7 DEF ProductsWritten, Sweep, AdvanceProducts, storeSide
<1>9. NothingWritten(r) => Work
  BY <1>1 DEF NothingWritten, storeSide
<1>10. FetchOrders(r) => Work
  BY <1>1 DEF FetchOrders, storeSide
<1>11. DeleteDays(r) \/ RowsCreated(r) \/ AdvanceOrders(r) => Work
  BY <1>7 DEF DeleteDays, RowsCreated, AdvanceOrders, storeSide
<1>12. ASSUME NEW chunk, CreateRows(r, chunk) PROVE Work
  BY <1>1, <1>12 DEF CreateRows, storeSide
<1>13. SetMarkers(r) => Work
  BY <1>1 DEF SetMarkers, storeSide
<1> HIDE DEF Shape, Work
<1>14. StartRun(r) \/ Work
  BY <1>3, <1>4, <1>5, <1>6, <1>8, <1>9, <1>10, <1>11, <1>12, <1>13 DEF RunStep
<1> QED BY <1>2, <1>14 DEF Shape, Work

\* A step of a run keeps the types.
LEMMA TypeRun ==
    ASSUME TypeOK, NEW r \in Runners,
           StartRun(r) \/ RunStep(r) \/ RunFails(r)
             \/ \E x \in Products : WriteProductFails(r, x)
    PROVE  TypeOK'
<1> DEFINE Held == [version : Times \cup {Null}, missing : BOOLEAN, error : BOOLEAN]
<1>1. run[r] \in Run
  BY DEF TypeOK
<1>2. ASSUME NEW j \in Run, run' = [run EXCEPT ![r] = j] PROVE run' \in [Runners -> Run]
  BY <1>2 DEF TypeOK
<1>3. \A pc \in Phases : To(r, pc) => run' \in [Runners -> Run]
  BY TypeTo
<1>4. ASSUME run' \in [Runners -> Run], UNCHANGED <<storeSide, conn, cursor, held, sales>>
      PROVE  TypeOK'
  BY <1>4 DEF TypeOK, storeSide
<1>5. ASSUME run' \in [Runners -> Run], held' \in [Products -> Held],
             UNCHANGED <<storeSide, conn, cursor, sales>>
      PROVE  TypeOK'
  BY <1>5 DEF TypeOK, storeSide
<1>6. ASSUME run' \in [Runners -> Run], cursor' \in [Resources -> Times \cup {Null}],
             UNCHANGED <<storeSide, conn, held, sales>>
      PROVE  TypeOK'
  BY <1>6 DEF TypeOK, storeSide
<1>7. ASSUME run' \in [Runners -> Run], sales' \subseteq Row,
             UNCHANGED <<storeSide, conn, cursor, held>>
      PROVE  TypeOK'
  BY <1>7 DEF TypeOK, storeSide
<1>8. CASE StartRun(r)
  <2>1. [Idle EXCEPT !.pc = "begin", !.store = conn.store] \in Run
    BY IdleIsRun DEF Run, Phases, Idle, TypeOK
  <2> QED BY <1>2, <1>4, <1>8, <2>1 DEF StartRun
<1>9. CASE PlanRun(r)
  <2> DEFINE j == [run[r] EXCEPT !.pc = "fetchProducts", !.start = clock,
                                 !.rebuild = Rebuild, !.reconcile = ReconcileDue,
                                 !.since = ProductsSince(Rebuild)]
  <2>1. Rebuild \in BOOLEAN /\ ReconcileDue \in BOOLEAN
    BY DEF Rebuild, ReconcileDue
  <2>2. ProductsSince(Rebuild) \in Int \cup {Null}
    BY <2>1, ProductsWindow
  <2>3. j \in Run
    BY <1>1, <2>1, <2>2 DEF Run, Phases, TypeOK
  <2>4. run' = [run EXCEPT ![r] = j]
    BY <1>9 DEF PlanRun, TypeOK
  <2> QED BY <1>2, <1>4, <1>9, <2>3, <2>4 DEF PlanRun
<1>10. CASE FetchProducts(r)
  <2> DEFINE pulled == Pulled(run[r].store, run[r].since)
             seen == [x \in Products |-> IF x \in pulled THEN item[x].changed ELSE Null]
             pc == IF pulled = {} THEN "advanceProducts" ELSE "products"
             j == [run[r] EXCEPT !.pc = pc, !.todo = pulled, !.seen = seen]
  <2>1. pulled \subseteq Products
    BY DEF Pulled
  <2>2. seen \in [Products -> Times \cup {Null}]
    BY DEF TypeOK
  <2>3. pc \in Phases
    BY DEF Phases
  <2>4. run' = [run EXCEPT ![r] = j]
    BY <1>10 DEF FetchProducts, TypeOK
  <2> HIDE DEF pulled, seen, pc
  <2>5. j \in Run
    BY <1>1, <2>1, <2>2, <2>3 DEF Run
  <2> QED BY <1>2, <1>4, <1>10, <2>4, <2>5 DEF FetchProducts
<1>11. ASSUME NEW x \in Products, WriteProduct(r, x) PROVE TypeOK'
  <2>1. Upserted(r, x) \in Held
    BY <1>1 DEF Upserted, Run
  <2>2. [run[r] EXCEPT !.todo = @ \ {x}, !.written = TRUE] \in Run
    BY <1>1 DEF Run
  <2>3. run' \in [Runners -> Run]
    BY <1>2, <1>11, <2>2 DEF WriteProduct, TypeOK
  <2> QED BY <1>5, <1>11, <2>1, <2>3 DEF WriteProduct, TypeOK
<1>12. ASSUME NEW x \in Products, WriteProductFails(r, x) PROVE TypeOK'
  <2>1. [run[r] EXCEPT !.todo = @ \ {x}] \in Run
    BY <1>1 DEF Run
  <2>2. run' \in [Runners -> Run]
    BY <1>2, <1>12, <2>1 DEF WriteProductFails, TypeOK
  <2>3. held' \in [Products -> Held]
    <3>1. [held[x] EXCEPT !.error = held[x].version # Null] \in Held
      BY TypeParts DEF HeldType
    <3>2. held' = [held EXCEPT ![x] = [held[x] EXCEPT !.error = held[x].version # Null]]
      BY <1>12 DEF WriteProductFails, TypeOK
    <3> HIDE DEF Held
    <3> QED BY <3>1, <3>2 DEF TypeOK, Held
  <2> QED BY <1>5, <1>12, <2>2, <2>3 DEF WriteProductFails
<1>13. CASE ProductsWritten(r)
  BY <1>3, <1>4, <1>13 DEF ProductsWritten, Phases
<1>14. CASE Sweep(r)
  <2>1. Swept(r) \in [Products -> Held]
    BY DEF Swept, TypeOK
  <2> QED BY <1>3, <1>5, <1>14, <2>1 DEF Sweep, Phases
<1>15. run[r].start \in Times
  BY <1>1 DEF Run
<1>16. CASE AdvanceProducts(r)
  <2>1. cursor' \in [Resources -> Times \cup {Null}]
    BY <1>15, <1>16 DEF AdvanceProducts, CursorValue, TypeOK
  <2> QED BY <1>3, <1>6, <1>16, <2>1 DEF AdvanceProducts, Phases
<1>17. CASE FetchOrders(r)
  <2> DEFINE since == OrdersSince(run[r].start, run[r].rebuild, run[r].reconcile)
             days == AffectedDays(Changed(run[r].store, since), SoldAt)
             rows == RowsFor(r, run[r].store, since)
             pc == IF days = {} THEN "advanceOrders" ELSE "delete"
             j == [run[r] EXCEPT !.pc = pc, !.days = days, !.rows = rows]
  <2>1. since \in Int
    BY <1>1, <1>15, OrdersWindow DEF Run
  <2>2. rows \subseteq Row
    BY <2>1, CollectedRows
  <2>3. days \subseteq Int
    <3>1. ASSUME NEW o \in Changed(run[r].store, since)
          PROVE  o \in Placed /\ order[o].sold \in Int
      BY <3>1, SyncAssumption DEF Changed, OrdersOf, Placed, NotPlaced, Times, TypeOK
    <3>2. ASSUME NEW o \in Changed(run[r].store, since) PROVE TenantDay(SoldAt[o]) \in Int
      BY <3>1, DayInsidePad DEF SoldAt
    <3> QED BY <3>2 DEF AffectedDays
  <2>4. pc \in Phases
    BY DEF Phases
  <2>5. run' = [run EXCEPT ![r] = j]
    BY <1>17 DEF FetchOrders, TypeOK
  <2> HIDE DEF since, days, rows, pc
  <2>6. j \in Run
    BY <1>1, <2>2, <2>3, <2>4 DEF Run
  <2> QED BY <1>2, <1>4, <1>17, <2>5, <2>6 DEF FetchOrders
<1>18. CASE DeleteDays(r)
  <2>1. sales' \subseteq Row
    BY <1>18 DEF DeleteDays, RowsOutside, TypeOK
  <2> QED BY <1>3, <1>7, <1>18, <2>1 DEF DeleteDays, Phases
<1>19. ASSUME NEW chunk \in SUBSET run[r].rows, CreateRows(r, chunk) PROVE TypeOK'
  <2>1. [run[r] EXCEPT !.rows = @ \ chunk] \in Run
    BY <1>1 DEF Run
  <2>2. run' \in [Runners -> Run]
    BY <1>2, <1>19, <2>1 DEF CreateRows, TypeOK
  <2>3. sales' \subseteq Row
    BY <1>1, <1>19 DEF CreateRows, TypeOK, Run
  <2> QED BY <1>7, <1>19, <2>2, <2>3 DEF CreateRows
<1>20. CASE RowsCreated(r)
  BY <1>3, <1>4, <1>20 DEF RowsCreated, Phases
<1>21. CASE AdvanceOrders(r)
  <2>1. cursor' \in [Resources -> Times \cup {Null}]
    BY <1>15, <1>21 DEF AdvanceOrders, CursorValue, TypeOK
  <2> QED BY <1>3, <1>6, <1>21, <2>1 DEF AdvanceOrders, Phases
<1>22. CASE SetMarkers(r)
  <2>1. run' \in [Runners -> Run]
    BY <1>2, <1>22, IdleIsRun DEF SetMarkers
  <2>2. cursor' \in [Resources -> Times \cup {Null}]
    BY <1>15, <1>22 DEF SetMarkers, TypeOK
  <2> QED BY <1>6, <1>22, <2>1, <2>2 DEF SetMarkers
<1>23. CASE RunFails(r) \/ NothingWritten(r)
  BY <1>2, <1>4, <1>23, IdleIsRun DEF RunFails, NothingWritten
<1> QED BY <1>8, <1>9, <1>10, <1>11, <1>12, <1>13, <1>14, <1>16, <1>17, <1>18,
           <1>19, <1>20, <1>21, <1>22, <1>23 DEF RunStep

\* Types hold in every behaviour: what runs pull, remember and write, and what
\* the cursors and markers can be, for all stores, runners, windows and zones.
THEOREM TypesHold == Spec => []TypeOK
<1>1. Init => TypeOK
  BY TypeInit
<1>2. TypeOK /\ [Next]_vars => TypeOK'
  <2> SUFFICES ASSUME TypeOK, [Next]_vars PROVE TypeOK'
    OBVIOUS
  <2>1. CASE Next
    BY <2>1, TypeRun, TypeStoreOwner DEF Next
  <2>2. CASE UNCHANGED vars
    BY <2>2 DEF vars, TypeOK
  <2> QED BY <2>1, <2>2
<1> QED BY <1>1, <1>2, PTL DEF Spec

-----------------------------------------------------------------------------
(* Nothing falls behind.                                                   *)

\* The window of a cursor is an instant, and not a later one.
LEMMA CursorWindow ==
    ASSUME NEW c \in Times
    PROVE  /\ WindowFromCursor(c, Overlap) \in Int
           /\ WindowFromCursor(c, Overlap) <= c
<1>1. c - Overlap \in Int /\ c - Overlap <= c /\ c \in Int
  BY SyncAssumption DEF Times
<1>2. /\ WindowFromCursor(c, Overlap) \in Int
      /\ WindowFromCursor(c, Overlap) <= c - Overlap
  BY <1>1, MidnightIsBefore DEF WindowFromCursor
<1> QED BY <1>1, <1>2

\* A change no older than the cursor is in the next window (the overlap and
\* the flooring to midnight only enlarge it).
CursorCoversAll ==
    TypeOK => \A x \in Products :
        /\ OnSale(x)
        /\ \/ cursor["logic"] = Null
           \/ cursor["products"] = Null
           \/ item[x].changed >= cursor["products"]
        => ProductCovered(x)

LEMMA CursorCovers == CursorCoversAll
<1> SUFFICES ASSUME TypeOK, NEW x \in Products, OnSale(x),
                    \/ cursor["logic"] = Null
                    \/ cursor["products"] = Null
                    \/ item[x].changed >= cursor["products"]
             PROVE  ProductCovered(x)
  BY DEF CursorCoversAll
<1>1. CASE cursor["logic"] = Null \/ cursor["products"] = Null
  BY <1>1 DEF ProductsSince, Rebuild, ProductCovered, InWindow
<1>2. CASE cursor["products"] # Null /\ item[x].changed >= cursor["products"]
  <2>1. /\ cursor["products"] \in Times
        /\ item[x].changed \in Times
    BY <1>2 DEF TypeOK, Resources, OnSale
  <2>2. /\ WindowFromCursor(cursor["products"], Overlap) \in Int
        /\ WindowFromCursor(cursor["products"], Overlap) <= cursor["products"]
    BY <2>1, CursorWindow
  <2>3. WindowFromCursor(cursor["products"], Overlap) <= item[x].changed
    BY <1>2, <2>1, <2>2, SyncAssumption DEF Times
  <2> QED BY <1>2, <2>3 DEF ProductsSince, ProductCovered, InWindow
<1> QED BY <1>1, <1>2

\* The window a run plans does not start later than the run.
LEMMA WindowIsPast ==
    ASSUME TypeOK, DatesAndLink, NEW rebuild \in BOOLEAN
    PROVE  AtMost(ProductsSince(rebuild), clock)
<1>1. ASSUME cursor["products"] # Null
      PROVE  WindowFromCursor(cursor["products"], Overlap) <= clock
  <2>1. cursor["products"] \in Times /\ clock \in Times /\ cursor["products"] <= clock
    BY <1>1 DEF TypeOK, Resources, DatesAndLink, AtMost
  <2> QED BY <2>1, CursorWindow, SyncAssumption DEF Times
<1> QED BY <1>1 DEF AtMost, ProductsSince

\* At the start every product is owed a full pull, and nobody is running.
LEMMA SyncInit == ASSUME NEW due \in Dues PROVE Init => SyncInv(due)
<1> SUFFICES ASSUME Init PROVE SyncInv(due)
  OBVIOUS
<1>1. TypeOK
  BY TypeInit
<1>2. cursor["logic"] = Null /\ cursor["products"] = Null
  BY DEF Init, NoCursors, Resources
<1>3. AllPaid(due)
  BY <1>1, <1>2, CursorCovers DEF CursorCoversAll, AllPaid
<1>4. Active = {}
  BY DEF Init, Active, Idle
<1>5. DatesAndLink
  BY <1>2, SyncAssumption DEF Init, DatesAndLink, AtMost, NotHeld
<1> QED BY <1>1, <1>3, <1>4, <1>5 DEF SyncInv, OneRun

\* A change in the store bears a later date than every window and every run,
\* and a product that went is no longer owed anything.
LEMMA SyncStore ==
    ASSUME NEW due \in Dues, SyncInv(due), StoreStep
    PROVE  SyncInv(due)'
<1>1. TypeOK /\ TypeOK'
  BY TypeStoreOwner DEF SyncInv
<1>2. /\ UNCHANGED <<conn, cursor, held, run>>
      /\ clock \in Times /\ clock' \in Times /\ clock <= clock'
  <2>1. clock \in Times /\ clock' \in Times
    BY <1>1 DEF TypeOK
  <2> QED BY <2>1, SyncAssumption DEF StoreStep, ChangeProduct, DeleteProduct, ChangeOrder,
                      PlaceOrder, Tick, Times
<1>3. ASSUME NEW x \in Products, OnSale(x)'
      PROVE  /\ item'[x].changed \in Times
             /\ (item'[x] = item[x] /\ OnSale(x)) \/ item'[x].changed > clock
  <2>1. item'[x].changed \in Times
    BY <1>1, <1>3 DEF TypeOK, OnSale
  <2>2. ASSUME NEW y \in Products, ChangeProduct(y)
        PROVE  item'[x] = item[x] \/ item'[x].changed > clock
    BY <1>1, <1>2, <2>2, SyncAssumption DEF ChangeProduct, TypeOK, Times
  <2>3. ASSUME NEW y \in Products, DeleteProduct(y) PROVE item'[x] = item[x]
    BY <1>1, <1>3, <2>3 DEF DeleteProduct, TypeOK, OnSale
  <2>4. item'[x] = item[x] \/ item'[x].changed > clock
    BY <2>2, <2>3 DEF StoreStep, ChangeOrder, PlaceOrder, Tick
  <2> QED BY <1>3, <2>1, <2>4 DEF OnSale
<1>4. DatesAndLink'
  <2>1. cursor["products"] # Null => cursor["products"] \in Times
    BY <1>1 DEF TypeOK, Resources
  <2> QED BY <1>2, <2>1, SyncAssumption DEF SyncInv, DatesAndLink, AtMost, Times
<1>5. AllPaid(due)'
  <2> SUFFICES ASSUME NEW x \in Products, (StoreOf[x] = conn.store /\ OnSale(x))'
               PROVE  (Paid(x, due) \/ ProductCovered(x))'
    BY DEF AllPaid
  <2>1. CASE item'[x] = item[x] /\ OnSale(x)
    BY <1>2, <2>1 DEF SyncInv, AllPaid, Paid, UpToDate, ProductCovered, InWindow,
                      ProductsSince, Rebuild
  <2>2. CASE item'[x].changed > clock
    <3>1. cursor' = cursor
      BY <1>2
    <3>2. cursor["products"] # Null =>
            cursor["products"] \in Times /\ cursor["products"] <= clock
      BY <1>1 DEF TypeOK, Resources, SyncInv, DatesAndLink, AtMost
    <3>3. cursor["products"] = Null \/ item'[x].changed >= cursor["products"]
      BY <1>2, <1>3, <2>2, <3>2, SyncAssumption DEF Times
    <3>4. CursorCoversAll'
      BY CursorCovers, PTL
    <3> QED BY <1>1, <3>1, <3>3, <3>4 DEF CursorCoversAll
  <2> QED BY <1>3, <2>1, <2>2
<1>6. Active' = Active /\ OneRun'
  BY <1>2 DEF Active, SyncInv, OneRun
<1>7. ASSUME NEW r \in Active PROVE RunInv(r, due)'
  <2>1. /\ RunInv(r, due) /\ r \in Runners
        /\ run' = run /\ conn' = conn /\ cursor' = cursor /\ held' = held
        /\ run[r].start \in Times /\ run[r].since \in Int \cup {Null}
    BY <1>1, <1>2, <1>7 DEF SyncInv, Active, TypeOK, Run
  <2>2. /\ run[r].start <= clock
        /\ run[r].pc = "fetchProducts" => AtMost(run[r].since, run[r].start)
    BY <2>1 DEF RunInv, Planned, Phases
  <2>3. ASSUME NEW x \in Products, (StoreOf[x] = conn.store /\ OnSale(x))'
        PROVE  OwedTo(r, x, due)'
    <3>1. CASE item'[x] = item[x] /\ OnSale(x)
      <4>1. OwedTo(r, x, due)
        BY <2>1, <2>3, <3>1 DEF RunInv
      <4> QED BY <2>1, <3>1, <4>1 DEF OwedTo, Paid, UpToDate, InWindow, ChangedSince, FullPull
    <3>2. CASE item'[x].changed > clock
      <4>1. item'[x].changed >= run[r].start
        BY <1>2, <1>3, <2>1, <2>2, <2>3, <3>2, SyncAssumption DEF Times
      <4>2. ChangedSince(r, x)'
        BY <2>1, <4>1 DEF ChangedSince
      <4>3. run[r].pc = "fetchProducts" /\ run[r].since # Null =>
              item'[x].changed >= run[r].since
        BY <1>3, <2>1, <2>2, <2>3, <4>1, SyncAssumption DEF AtMost, Times
      <4> QED BY <2>1, <4>2, <4>3 DEF OwedTo, InWindow
    <3> QED BY <1>3, <2>3, <3>1, <3>2
  <2>4. (run[r].start <= clock)'
    BY <1>2, <2>1, <2>2, SyncAssumption DEF Times
  <2> QED BY <2>1, <2>3, <2>4 DEF RunInv, FullPull
<1> QED BY <1>1, <1>4, <1>5, <1>6, <1>7 DEF SyncInv

\* Connections change only between runs, and another store starts without
\* cursors; the nightly mark only enlarges the next window; the webhook stamps
\* only what is gone.
LEMMA SyncOwner ==
    ASSUME Quiet, NEW due \in Dues, SyncInv(due),
           OwnerStep \/ MarkFull \/ \E x \in Products : DeleteWebhook(x)
    PROVE  SyncInv(due)'
<1>1. TypeOK /\ TypeOK'
  BY TypeStoreOwner DEF SyncInv
<1>2. UNCHANGED <<clock, item, run>>
  BY DEF OwnerStep, Connect, Disconnect, RemoveStore, RedactShop, MarkFull, MarkedCursor, DeleteWebhook,
         storeSide
<1>3. /\ cursor' = cursor \/ cursor' = NoCursors
         \/ cursor' = [cursor EXCEPT !["products"] = Null]
      /\ cursor'["products"] = Null \/ cursor' = cursor
  <2>1. NoCursors["products"] = Null /\ "products" \in Resources
    BY DEF NoCursors, Resources
  <2> QED BY <1>1, <2>1 DEF OwnerStep, Connect, CursorsAfterConnect, Disconnect, RemoveStore,
                            RedactShop, MarkFull, MarkedCursor, DeleteWebhook, TypeOK
<1>4. DatesAndLink'
  <2>1. AtMost(cursor["products"], clock)'
    BY <1>2, <1>3 DEF AtMost, SyncInv, DatesAndLink
  <2>2. conn'.store = Null => cursor' = NoCursors
    <3>1. Null \notin Stores /\ NoCursors = [NoCursors EXCEPT !["products"] = Null]
      BY SyncAssumption DEF NoCursors
    <3> QED BY <1>1, <3>1 DEF OwnerStep, Connect, Disconnect, RemoveStore, RedactShop, MarkFull,
                              DeleteWebhook, SyncInv, DatesAndLink, TypeOK
  <2>3. conn'.live => conn'.store # Null
    BY <1>1, SyncAssumption DEF OwnerStep, Connect, Disconnect, RemoveStore, RedactShop, MarkFull,
                              DeleteWebhook, SyncInv, DatesAndLink, TypeOK
  <2>4. ASSUME NEW x \in Products, held'[x].missing PROVE held'[x].version # Null
    <3>1. held[x].missing => held[x].version # Null
      BY DEF SyncInv, DatesAndLink
    <3>2. CASE UNCHANGED held
      BY <2>4, <3>1, <3>2
    <3>3. CASE RedactShop
      BY <2>4, <3>3 DEF RedactShop, NotHeld
    <3>4. ASSUME NEW y \in Products, DeleteWebhook(y) PROVE held'[x].version # Null
      BY <1>1, <2>4, <3>1, <3>4 DEF DeleteWebhook, TypeOK
    <3> QED BY <3>2, <3>3, <3>4 DEF OwnerStep, Connect, Disconnect, RemoveStore, MarkFull
  <2> QED BY <2>1, <2>2, <2>3, <2>4 DEF DatesAndLink
<1>5. Active' = Active /\ OneRun'
  BY <1>2 DEF Active, SyncInv, OneRun
<1>6. ASSUME NEW x \in Products, ~item[x].gone
      PROVE  \/ (conn' = conn \/ conn'.store = conn.store) /\ held'[x] = held[x]
             \/ cursor'["products"] = Null
             \/ conn'.store = Null
  <2>1. CASE OwnerStep
    <3>1. NoCursors["products"] = Null
      BY DEF NoCursors, Resources
    <3>2. cursor["products"] = Null \/ conn.store # Null
      BY <3>1 DEF SyncInv, DatesAndLink
    <3> QED BY <1>1, <2>1, <3>1, <3>2 DEF OwnerStep, Connect, CursorsAfterConnect, Disconnect,
                                 RemoveStore, RedactShop, TypeOK
  <2>2. CASE MarkFull
    BY <1>1, <2>2 DEF MarkFull, MarkedCursor, TypeOK, Resources
  <2>3. ASSUME NEW y \in Products, DeleteWebhook(y) PROVE held'[x] = held[x] /\ conn' = conn
    BY <1>1, <1>6, <2>3 DEF DeleteWebhook, TypeOK
  <2> QED BY <2>1, <2>2, <2>3
<1>7. AllPaid(due)'
  <2> SUFFICES ASSUME NEW x \in Products, (StoreOf[x] = conn.store /\ OnSale(x))'
               PROVE  (Paid(x, due) \/ ProductCovered(x))'
    BY DEF AllPaid
  <2>1. OnSale(x) /\ ~item[x].gone
    BY <1>2 DEF OnSale
  <2>2. StoreOf[x] \in Stores /\ conn'.store # Null
    BY SyncAssumption
  <2>3. CASE cursor'["products"] = Null
    BY <2>3 DEF ProductCovered, InWindow, ProductsSince
  <2>4. CASE cursor'["products"] # Null
    <3>1. cursor' = cursor /\ conn'.store = conn.store /\ held'[x] = held[x]
      BY <1>3, <1>6, <2>1, <2>2, <2>4
    <3> QED BY <1>2, <2>1, <3>1 DEF SyncInv, AllPaid, Paid, UpToDate, ProductCovered,
                                    InWindow, ProductsSince, Rebuild
  <2> QED BY <2>3, <2>4
<1>8. ASSUME NEW r \in Active PROVE RunInv(r, due)'
  <2>1. ~OwnerStep
    BY <1>8 DEF OwnerStep, Connect, Disconnect, RemoveStore, RedactShop, QuietConnection, Quiet
  <2>2. conn' = conn
    BY <2>1 DEF MarkFull, MarkedCursor, DeleteWebhook
  <2>3. ASSUME NEW x \in Products, ~item[x].gone PROVE held'[x] = held[x]
    BY <1>1, <2>1, <2>3 DEF MarkFull, MarkedCursor, DeleteWebhook, TypeOK
  <2>4. RunInv(r, due) /\ run' = run /\ clock' = clock /\ item' = item
    BY <1>2, <1>8 DEF SyncInv
  <2>5. AtMost(cursor["products"], run[r].start) => AtMost(cursor'["products"], run[r].start)
    BY <1>3 DEF AtMost
  <2>6. ASSUME NEW x \in Products, (StoreOf[x] = conn.store /\ OnSale(x))'
        PROVE  OwedTo(r, x, due)'
    BY <2>2, <2>3, <2>4, <2>6 DEF RunInv, OnSale, OwedTo, Paid, UpToDate, InWindow, ChangedSince,
                                  FullPull
  <2> QED BY <2>2, <2>4, <2>5, <2>6 DEF RunInv, FullPull
<1> QED BY <1>1, <1>4, <1>5, <1>7, <1>8 DEF SyncInv

\* A step of a run: it advances the cursor to its start only when whatever
\* changed before is held, and sweeps only what it would have seen.
LEMMA SyncRun ==
    ASSUME Quiet, NEW due \in Dues, SyncInv(due), NEW r \in Runners,
           StartRun(r) \/ RunStep(r) \/ RunFails(r)
    PROVE  SyncInv(due)'
<1>1. TypeOK /\ TypeOK'
  BY TypeRun DEF SyncInv
<1>2. UNCHANGED <<clock, item, order, conn>> /\ run[r] \in Run
  BY <1>1, RunSteps DEF TypeOK
<1>3. ~StartRun(r) => run[r].pc # "idle"
  BY <1>1, RunSteps
<1>4. \A s \in Runners \ {r} : run'[s] = run[s]
  BY <1>1, RunSteps DEF TypeOK
<1>5. Active \subseteq {r}
  <2>1. CASE StartRun(r)
    BY <2>1 DEF StartRun, NoRunQueued, Quiet
  <2>2. CASE ~StartRun(r)
    BY <1>3, <2>2 DEF Active, SyncInv, OneRun
  <2> QED BY <2>1, <2>2
<1>6. Active' \subseteq {r} /\ OneRun'
  BY <1>4, <1>5 DEF Active, OneRun
<1>7. ~StartRun(r) => r \in Active /\ RunInv(r, due)
  BY <1>3 DEF Active, SyncInv
<1>8. /\ cursor'["products"] \in {cursor["products"], run[r].start}
      /\ cursor'["products"] # cursor["products"] => AdvanceProducts(r)
      /\ StartRun(r) => cursor' = cursor
  <2>1. CASE AdvanceProducts(r)
    BY <1>1, <1>3, <2>1 DEF AdvanceProducts, CursorValue, StartRun, TypeOK, Resources
  <2>2. CASE AdvanceOrders(r)
    BY <1>1, <1>3, <2>2 DEF AdvanceOrders, StartRun, TypeOK, Resources
  <2>3. CASE SetMarkers(r)
    BY <1>1, <1>3, <2>3 DEF SetMarkers, StartRun, TypeOK, Resources
  <2>4. CASE UNCHANGED cursor
    BY <2>4
  <2> QED BY <2>1, <2>2, <2>3, <2>4 DEF StartRun, RunStep, PlanRun, FetchProducts, WriteProduct,
             ProductsWritten, Sweep, FetchOrders, DeleteDays, CreateRows, RowsCreated, RunFails,
             NothingWritten
<1>9. DatesAndLink'
  <2>1. ASSUME NEW x \in Products, held'[x].missing PROVE held'[x].version # Null
    <3>1. held[x].missing => held[x].version # Null
      BY DEF SyncInv, DatesAndLink
    <3>2. CASE UNCHANGED held
      BY <2>1, <3>1, <3>2
    <3>3. ASSUME NEW y \in Products, WriteProduct(r, y) PROVE held'[x].version # Null
      BY <1>1, <2>1, <3>1, <3>3 DEF WriteProduct, Upserted, TypeOK
    <3>4. CASE Sweep(r)
      BY <1>1, <2>1, <3>1, <3>4 DEF Sweep, Swept, TypeOK
    <3> QED BY <3>2, <3>3, <3>4 DEF StartRun, RunStep, PlanRun, FetchProducts, ProductsWritten,
           AdvanceProducts, FetchOrders, DeleteDays, CreateRows, RowsCreated, AdvanceOrders,
           SetMarkers, RunFails, NothingWritten
  <2>2. /\ AtMost(cursor["products"], clock)'
        /\ conn'.store = Null => cursor' = NoCursors
        /\ conn'.live => conn'.store # Null
    BY <1>2, <1>7, <1>8 DEF SyncInv, DatesAndLink, RunInv, AtMost
  <2> QED BY <2>1, <2>2 DEF DatesAndLink
\* What the run will not have seen, the next one will.
<1>10. ASSUME NEW x \in Products, StoreOf[x] = conn.store, OnSale(x), ~StartRun(r),
              run[r].pc \in Planned, ChangedSince(r, x)
       PROVE  ProductCovered(x) /\ ProductCovered(x)'
  <2>1. item[x].changed \in Times /\ run[r].start \in Times
    BY <1>1, <1>2, <1>10 DEF TypeOK, OnSale, Run
  <2>2. cursor["products"] = Null \/ cursor["products"] \in Times
    BY <1>1 DEF TypeOK, Resources
  <2>3. /\ cursor["products"] = Null \/ cursor["products"] <= run[r].start
        /\ cursor'["products"] = Null \/ cursor'["products"] <= run[r].start
    BY <1>7, <1>8, <1>10, <2>1, SyncAssumption DEF RunInv, AtMost, Times
  <2>4. /\ cursor["products"] = Null \/ item[x].changed >= cursor["products"]
        /\ cursor'["products"] = Null \/ item[x].changed >= cursor'["products"]
    BY <1>8, <1>10, <2>1, <2>2, <2>3, SyncAssumption DEF ChangedSince, Times
  <2>5. CursorCoversAll /\ CursorCoversAll'
    BY CursorCovers, PTL
  <2> QED BY <1>1, <1>2, <1>10, <2>4, <2>5 DEF CursorCoversAll, OnSale
\* What the run has already pulled and seen, or need not have seen.
<1>11. ASSUME NEW x \in Products, StoreOf[x] = conn.store, OnSale(x), ~StartRun(r),
              run[r].pc \in Fetched \ {"products"}
       PROVE  Paid(x, due) \/ ChangedSince(r, x)
  BY <1>7, <1>11 DEF RunInv, OwedTo
<1>12. AllPaid(due)'
  <2> SUFFICES ASSUME NEW x \in Products, StoreOf[x] = conn.store, OnSale(x)
               PROVE  (Paid(x, due) \/ ProductCovered(x))'
    BY <1>2 DEF AllPaid, OnSale
  <2>1. Paid(x, due) \/ ProductCovered(x)
    BY DEF SyncInv, AllPaid
  <2>2. CASE held'[x] = held[x] /\ cursor' = cursor
    BY <1>2, <2>1, <2>2 DEF Paid, UpToDate, ProductCovered, InWindow, ProductsSince, Rebuild
  <2>3. ASSUME NEW y \in Products, WriteProduct(r, y) PROVE (Paid(x, due) \/ ProductCovered(x))'
    <3>1. CASE y # x
      BY <1>1, <2>2, <2>3, <3>1 DEF WriteProduct, TypeOK
    <3>2. CASE y = x
      <4>1. run[r].seen[x] = item[x].changed \/ ChangedSince(r, x)
        BY <1>7, <2>3, <3>2 DEF RunInv, OwedTo, WriteProduct, StartRun
      <4>2. held'[x] = Upserted(r, x)
        BY <1>1, <2>3, <3>2 DEF WriteProduct, TypeOK
      <4> QED BY <1>2, <1>10, <2>3, <4>1, <4>2 DEF Upserted, Paid, UpToDate, WriteProduct, StartRun,
                                                Planned, Phases
    <3> QED BY <3>1, <3>2
  <2>4. CASE Sweep(r)
    <3>1. run[r].seen[x] # Null \/ ChangedSince(r, x)
      BY <1>7, <2>4 DEF RunInv, OwedTo, Sweep, StartRun
    <3>2. CASE run[r].seen[x] # Null
      BY <1>1, <2>2, <2>4, <3>2 DEF Sweep, Swept, TypeOK
    <3>3. CASE ChangedSince(r, x)
      BY <1>10, <2>4, <3>3 DEF Sweep, StartRun, Planned, Phases
    <3> QED BY <3>1, <3>2, <3>3
  <2>5. CASE AdvanceProducts(r) \/ SetMarkers(r)
    <3>1. run[r].pc \in Fetched \ {"products"} /\ ~StartRun(r) /\ held' = held
      BY <2>5 DEF AdvanceProducts, SetMarkers, StartRun, Fetched, Planned, Phases
    <3>2. CASE Paid(x, due)
      BY <1>2, <3>1, <3>2 DEF Paid, UpToDate
    <3>3. CASE ChangedSince(r, x)
      BY <1>10, <3>1, <3>3 DEF Fetched
    <3> QED BY <1>11, <3>1, <3>2, <3>3
  <2>6. CASE AdvanceOrders(r)
    <3>1. /\ cursor'["products"] = cursor["products"]
          /\ cursor'["logic"] = cursor["logic"]
      BY <1>1, <2>6 DEF AdvanceOrders, TypeOK, Resources
    <3> QED BY <1>2, <2>1, <2>6, <3>1 DEF AdvanceOrders, Paid, UpToDate, ProductCovered, InWindow,
                                          ProductsSince, Rebuild
  <2> QED BY <2>2, <2>3, <2>4, <2>5, <2>6 DEF StartRun, RunStep, PlanRun, FetchProducts,
             ProductsWritten, FetchOrders, DeleteDays, CreateRows, RowsCreated, RunFails,
             NothingWritten
<1>13. ASSUME r \in Active' PROVE RunInv(r, due)'
  <2>1. SUFFICES /\ run'[r].start <= clock
                 /\ run'[r].store = conn.store /\ conn.store # Null
                 /\ run'[r].pc # "products" => run'[r].todo = {}
                 /\ run'[r].pc = "sweep" => FullPull(r)'
                 /\ run'[r].pc \in Planned =>
                      /\ AtMost(run'[r].since, run'[r].start)
                      /\ AtMost(cursor'["products"], run'[r].start)
                 /\ \A x \in Products : StoreOf[x] = conn.store /\ OnSale(x) => OwedTo(r, x, due)'
    BY <1>2 DEF RunInv, OnSale
  <2>2. CASE StartRun(r)
    <3>1. run'[r] = [Idle EXCEPT !.pc = "begin", !.store = conn.store] /\ conn.store # Null
      BY <1>1, <2>2 DEF StartRun, TypeOK, SyncInv, DatesAndLink
    <3>2. 0 <= clock
      BY <1>1, SyncAssumption DEF TypeOK, Times
    <3> QED BY <3>1, <3>2 DEF Idle, Planned, Fetched, Phases, OwedTo
  <2>3. CASE PlanRun(r)
    <3>1. /\ run'[r].pc = "fetchProducts" /\ run'[r].start = clock
          /\ run'[r].since = ProductsSince(Rebuild)
          /\ run'[r].store = run[r].store /\ run'[r].todo = run[r].todo
          /\ cursor' = cursor /\ held' = held
      BY <1>1, <1>2, <2>3 DEF PlanRun, TypeOK, Run
    <3>2. RunInv(r, due) /\ run[r].pc = "begin"
      BY <1>7, <2>3 DEF PlanRun, StartRun
    <3>3. AtMost(ProductsSince(Rebuild), clock) /\ AtMost(cursor["products"], clock)
      BY <1>1, WindowIsPast DEF SyncInv, DatesAndLink, Rebuild
    <3>4. clock <= clock
      BY <1>1, SyncAssumption DEF TypeOK, Times
    <3>5. ASSUME NEW x \in Products, StoreOf[x] = conn.store, OnSale(x) PROVE OwedTo(r, x, due)'
      <4>1. Paid(x, due) \/ InWindow(x, run'[r].since)
        BY <3>1, <3>5 DEF SyncInv, AllPaid, ProductCovered
      <4> QED BY <1>2, <3>1, <4>1 DEF OwedTo, Fetched, Paid, UpToDate, InWindow
    <3> QED BY <3>1, <3>2, <3>3, <3>4, <3>5 DEF RunInv
  <2>4. CASE FetchProducts(r)
    <3> DEFINE pulled == Pulled(run[r].store, run[r].since)
    <3>1. /\ run'[r].pc = IF pulled = {} THEN "advanceProducts" ELSE "products"
          /\ run'[r].todo = pulled
          /\ run'[r].seen = [x \in Products |-> IF x \in pulled THEN item[x].changed ELSE Null]
          /\ run'[r].since = run[r].since /\ run'[r].start = run[r].start
          /\ run'[r].store = run[r].store
          /\ cursor' = cursor /\ held' = held
      BY <1>1, <1>2, <2>4 DEF FetchProducts, TypeOK, Run
    <3>2. RunInv(r, due) /\ run[r].pc = "fetchProducts"
      BY <1>7, <2>4 DEF FetchProducts, StartRun
    <3>3. ASSUME NEW x \in Products, StoreOf[x] = conn.store, OnSale(x) PROVE OwedTo(r, x, due)'
      <4>1. InWindow(x, run[r].since) => x \in pulled
        BY <3>2, <3>3 DEF Pulled, RunInv
      <4>2. Paid(x, due) \/ InWindow(x, run[r].since)
        BY <3>2, <3>3 DEF RunInv, OwedTo
      <4>3. item[x].changed # Null
        BY <3>3 DEF OnSale
      <4> HIDE DEF pulled
      <4> QED BY <1>2, <3>1, <4>1, <4>2, <4>3 DEF OwedTo, Paid, UpToDate, InWindow, FullPull
    <3> QED BY <3>1, <3>2, <3>3 DEF RunInv, Planned, Phases
  <2>5. CASE \E y \in Products : WriteProduct(r, y)
    <3>0. PICK y \in Products : WriteProduct(r, y)
      BY <2>5
    <3>1. /\ run'[r].pc = "products" /\ run'[r].todo = run[r].todo \ {y}
          /\ run'[r].seen = run[r].seen /\ run'[r].since = run[r].since
          /\ run'[r].start = run[r].start /\ run'[r].store = run[r].store
          /\ cursor' = cursor
          /\ held'[y] = Upserted(r, y) /\ \A x \in Products \ {y} : held'[x] = held[x]
      BY <1>1, <1>2, <3>0 DEF WriteProduct, TypeOK, Run
    <3>2. RunInv(r, due) /\ run[r].pc = "products" /\ y \in run[r].todo
      BY <1>7, <3>0 DEF WriteProduct, StartRun
    <3>3. ASSUME NEW x \in Products, StoreOf[x] = conn.store, OnSale(x) PROVE OwedTo(r, x, due)'
      <4>1. OwedTo(r, x, due)
        BY <3>2, <3>3 DEF RunInv
      <4>2. CASE x = y
        BY <1>2, <3>1, <3>2, <4>1, <4>2 DEF OwedTo, Fetched, Planned, Phases, Paid, UpToDate,
                                            Upserted, ChangedSince, FullPull
      <4>3. CASE x # y
        BY <1>2, <3>1, <3>2, <4>1, <4>3 DEF OwedTo, Fetched, Planned, Phases, Paid, UpToDate,
                                            ChangedSince, FullPull
      <4> QED BY <4>2, <4>3
    <3> QED BY <1>2, <3>1, <3>2, <3>3 DEF RunInv, OnSale
  <2>6. CASE ProductsWritten(r)
    <3>1. /\ run'[r].pc = IF FullPull(r) THEN "sweep" ELSE "advanceProducts"
          /\ run'[r].todo = run[r].todo /\ run'[r].seen = run[r].seen
          /\ run'[r].since = run[r].since /\ run'[r].start = run[r].start
          /\ run'[r].store = run[r].store
          /\ cursor' = cursor /\ held' = held
      BY <1>1, <1>2, <2>6 DEF ProductsWritten, To, TypeOK, Run
    <3>2. RunInv(r, due) /\ run[r].pc = "products" /\ run[r].todo = {}
      BY <1>7, <2>6 DEF ProductsWritten, StartRun
    <3>3. ASSUME NEW x \in Products, StoreOf[x] = conn.store, OnSale(x) PROVE OwedTo(r, x, due)'
      <4>1. OwedTo(r, x, due)
        BY <3>2, <3>3 DEF RunInv
      <4> QED BY <1>2, <3>1, <3>2, <4>1 DEF OwedTo, Fetched, Planned, Phases, Paid, UpToDate,
                                            ChangedSince, FullPull
    <3> QED BY <3>1, <3>2, <3>3 DEF RunInv, Planned, Phases, FullPull
  <2>7. CASE Sweep(r)
    <3>1. /\ run'[r].pc = "advanceProducts" /\ run'[r].todo = run[r].todo
          /\ run'[r].since = run[r].since /\ run'[r].start = run[r].start
          /\ run'[r].store = run[r].store
          /\ cursor' = cursor /\ held' = Swept(r)
      BY <1>1, <1>2, <2>7 DEF Sweep, To, TypeOK, Run
    <3>2. RunInv(r, due) /\ run[r].pc = "sweep" /\ FullPull(r)
      BY <1>7, <2>7 DEF Sweep, StartRun, RunInv
    <3>3. ASSUME NEW x \in Products, StoreOf[x] = conn.store, OnSale(x) PROVE OwedTo(r, x, due)'
      <4>1. OwedTo(r, x, due)
        BY <3>2, <3>3 DEF RunInv
      <4>2. Paid(x, due) \/ ChangedSince(r, x)
        BY <1>11, <2>7, <3>2, <3>3 DEF StartRun, Fetched, Planned, Phases
      <4>3. run[r].seen[x] # Null => held'[x] = held[x]
        BY <3>1 DEF Swept
      <4> QED BY <1>2, <3>1, <3>2, <4>1, <4>2, <4>3 DEF OwedTo, Paid, UpToDate, ChangedSince
    <3> QED BY <3>1, <3>2, <3>3 DEF RunInv, Planned, Phases
  \* From here on the run only moves on.
  <2>8. CASE \/ AdvanceProducts(r) \/ FetchOrders(r) \/ DeleteDays(r)
             \/ \E chunk \in SUBSET run[r].rows : CreateRows(r, chunk)
             \/ RowsCreated(r) \/ AdvanceOrders(r)
    <3>1. /\ run[r].pc \in Fetched \ {"products", "sweep"}
          /\ run'[r].pc \in Fetched \ {"products", "sweep", "fetchProducts"}
          /\ run'[r].todo = run[r].todo
          /\ run'[r].since = run[r].since /\ run'[r].start = run[r].start
          /\ run'[r].store = run[r].store
          /\ held' = held /\ ~StartRun(r)
      <4> DEFINE Later == {"advanceProducts", "fetchOrders", "delete", "create",
                           "advanceOrders", "markers"}
      <4>0. run \in [Runners -> Run]
        BY <1>1 DEF TypeOK
      <4>1. ~StartRun(r) /\ run[r].pc \in Later /\ held' = held
        BY <2>8 DEF AdvanceProducts, FetchOrders, DeleteDays, CreateRows, RowsCreated,
                    AdvanceOrders, StartRun
      <4> DEFINE Moved == /\ run'[r].pc \in Later /\ run'[r].todo = run[r].todo
                          /\ run'[r].since = run[r].since /\ run'[r].start = run[r].start
                          /\ run'[r].store = run[r].store
      <4>2. ASSUME NEW pc \in Later, To(r, pc) PROVE Moved
        BY <1>2, <4>0, <4>2 DEF To, Run
      <4>3. ASSUME FetchOrders(r) PROVE Moved
        <5> DEFINE since == OrdersSince(run[r].start, run[r].rebuild, run[r].reconcile)
                   days == AffectedDays(Changed(run[r].store, since), SoldAt)
                   rows == RowsFor(r, run[r].store, since)
                   pc == IF days = {} THEN "advanceOrders" ELSE "delete"
        <5>1. pc \in Later
          OBVIOUS
        <5>2. run' = [run EXCEPT ![r].pc = pc, ![r].days = days, ![r].rows = rows]
          BY <4>3 DEF FetchOrders
        <5> HIDE DEF pc, days, rows, Later
        <5> QED BY <1>2, <4>0, <5>1, <5>2 DEF Run
      <4>4. ASSUME NEW chunk, CreateRows(r, chunk) PROVE Moved
        <5>1. run' = [run EXCEPT ![r].rows = @ \ chunk] /\ run[r].pc = "create"
          BY <4>4 DEF CreateRows
        <5> QED BY <1>2, <4>0, <5>1 DEF Run
      <4>5. ASSUME AdvanceProducts(r) \/ DeleteDays(r) \/ RowsCreated(r) \/ AdvanceOrders(r)
            PROVE  Moved
        BY <4>2, <4>5 DEF AdvanceProducts, DeleteDays, RowsCreated, AdvanceOrders
      <4>6. Moved
        BY <2>8, <4>3, <4>4, <4>5
      <4> QED BY <4>1, <4>6 DEF Fetched, Planned, Phases
    <3>2. RunInv(r, due)
      BY <1>7, <3>1
    <3>3. run[r].start <= run[r].start
      BY <1>2, SyncAssumption DEF Run, Times
    <3>4. AtMost(cursor'["products"], run[r].start)
      BY <1>8, <3>1, <3>2, <3>3 DEF RunInv, AtMost, Fetched
    <3>5. ASSUME NEW x \in Products, StoreOf[x] = conn.store, OnSale(x) PROVE OwedTo(r, x, due)'
      <4>1. Paid(x, due) \/ ChangedSince(r, x)
        BY <1>11, <3>1, <3>5
      <4> QED BY <1>2, <3>1, <4>1 DEF OwedTo, Paid, UpToDate, ChangedSince
    <3> QED BY <3>1, <3>2, <3>4, <3>5 DEF RunInv, Fetched
  <2>9. ~SetMarkers(r) /\ ~RunFails(r) /\ ~NothingWritten(r)
    BY <1>1, <1>13 DEF SetMarkers, RunFails, NothingWritten, Active, Idle, TypeOK
  <2> QED BY <2>2, <2>3, <2>4, <2>5, <2>6, <2>7, <2>8, <2>9 DEF RunStep
<1> QED BY <1>1, <1>6, <1>9, <1>12, <1>13 DEF SyncInv

\* A record that cannot be written leaves the product flagged, if it is held.
LEMMA SyncRecordFails ==
    ASSUME SyncInv("shown"), NEW r \in Runners, NEW y \in Products, WriteProductFails(r, y)
    PROVE  SyncInv("shown")'
<1>1. TypeOK /\ TypeOK'
  BY TypeRun DEF SyncInv
<1>2. /\ UNCHANGED <<clock, item, order, conn, cursor>> /\ run[r] \in Run
      /\ run[r].pc = "products" /\ y \in run[r].todo
      /\ run' = [run EXCEPT ![r].todo = @ \ {y}]
  BY <1>1 DEF WriteProductFails, storeSide, TypeOK
<1>3. /\ run'[r].pc = "products" /\ run'[r].todo = run[r].todo \ {y}
      /\ run'[r].seen = run[r].seen /\ run'[r].since = run[r].since
      /\ run'[r].start = run[r].start /\ run'[r].store = run[r].store
      /\ \A s \in Runners \ {r} : run'[s] = run[s]
  BY <1>1, <1>2 DEF TypeOK, Run
<1>4. /\ held'[y].version = held[y].version /\ held'[y].missing = held[y].missing
      /\ held'[y].error = (held[y].version # Null)
      /\ \A x \in Products \ {y} : held'[x] = held[x]
  <2>1. held' = [held EXCEPT ![y] = [held[y] EXCEPT !.error = held[y].version # Null]]
    BY <1>1 DEF WriteProductFails, TypeOK
  <2>2. held'[y] = [held[y] EXCEPT !.error = held[y].version # Null]
    BY <1>1, <2>1 DEF TypeOK
  <2>3. \A x \in Products \ {y} : held'[x] = held[x]
    BY <1>1, <2>1 DEF TypeOK
  <2> QED BY <1>1, <2>2, <2>3 DEF TypeOK
<1>5. DatesAndLink'
  BY <1>2, <1>4 DEF SyncInv, DatesAndLink, AtMost
<1>6. Active' = Active /\ OneRun' /\ r \in Active /\ Active = {r}
  BY <1>2, <1>3 DEF Active, OneRun, SyncInv
<1>7. Paid(y, "shown")' /\ \A x \in Products \ {y} : Paid(x, "shown") => Paid(x, "shown")'
  BY <1>4 DEF SyncInv, DatesAndLink, Paid
<1>8. AllPaid("shown")'
  <2> SUFFICES ASSUME NEW x \in Products, StoreOf[x] = conn.store, OnSale(x)
               PROVE  (Paid(x, "shown") \/ ProductCovered(x))'
    BY <1>2 DEF AllPaid, OnSale
  <2>1. ProductCovered(x) => ProductCovered(x)'
    BY <1>2 DEF ProductCovered, InWindow, ProductsSince, Rebuild
  <2> QED BY <1>7, <2>1 DEF SyncInv, AllPaid
<1>9. RunInv(r, "shown")'
  <2>1. RunInv(r, "shown")
    BY <1>6 DEF SyncInv
  <2>2. ASSUME NEW x \in Products, StoreOf[x] = conn.store, OnSale(x)
        PROVE  OwedTo(r, x, "shown")'
    <3>1. OwedTo(r, x, "shown")
      BY <2>1, <2>2 DEF RunInv
    <3> QED BY <1>2, <1>3, <1>7, <3>1 DEF OwedTo, Fetched, Planned, Phases, ChangedSince, FullPull
  <2> QED BY <1>2, <1>3, <2>1, <2>2 DEF RunInv, OnSale
<1> QED BY <1>1, <1>5, <1>6, <1>8, <1>9 DEF SyncInv

\* Every step keeps what is owed; a failing record only lets a product be
\* "shown".
LEMMA SyncStep ==
    ASSUME Quiet, NEW due \in Dues, due = "shown" \/ "recordFails" \notin Enabled
    PROVE  SyncInv(due) /\ [Next]_vars => SyncInv(due)'
<1> SUFFICES ASSUME SyncInv(due), [Next]_vars PROVE SyncInv(due)'
  OBVIOUS
<1>1. CASE Next
  <2>1. ASSUME NEW r \in Runners, NEW x \in Products, WriteProductFails(r, x)
        PROVE  SyncInv(due)'
    <3>1. due = "shown"
      BY <2>1 DEF WriteProductFails
    <3> QED BY <2>1, <3>1, SyncRecordFails
  <2> QED BY <1>1, <2>1, SyncRun, SyncStore, SyncOwner DEF Next
<1>2. CASE UNCHANGED vars
  <2>1. SyncInv(due)' <=> SyncInv(due)
    BY <1>2 DEF vars, SyncInv, TypeOK, DatesAndLink, OneRun, Active, RunInv, OwedTo,
       AllPaid, Paid, UpToDate, ProductCovered, InWindow, ProductsSince, Rebuild,
       OnSale, ChangedSince, FullPull, AtMost
  <2> QED BY <2>1
<1> QED BY <1>1, <1>2

\* Nothing is ever left behind, for every store, catalogue, window and time
\* zone, whatever changes, fails or crashes - as long as one run works at a
\* time, connections change between runs and every record can be written.
THEOREM NothingIsLeftBehind ==
    ASSUME Quiet, "recordFails" \notin Enabled
    PROVE  Spec => []NothingFallsBehind
<1>1. Init => SyncInv("exact")
  BY SyncInit DEF Dues
<1>2. SyncInv("exact") /\ [Next]_vars => SyncInv("exact")'
  BY SyncStep DEF Dues
<1>3. SyncInv("exact") => NothingFallsBehind
  BY DEF SyncInv, AllPaid, Paid, NothingFallsBehind
<1> QED BY <1>1, <1>2, <1>3, PTL DEF Spec

\* And even when records fail to be written, a product on sale is not stamped
\* as gone in silence: a full pull stamps what it did not see, not what it did
\* not write, and what it stamps and what changed since comes with the next.
THEOREM NothingIsHidden ==
    ASSUME Quiet
    PROVE  Spec => []NeverHiddenInSilence
<1>1. Init => SyncInv("shown")
  BY SyncInit DEF Dues
<1>2. SyncInv("shown") /\ [Next]_vars => SyncInv("shown")'
  BY SyncStep DEF Dues
<1>3. SyncInv("shown") => NeverHiddenInSilence
  <2>1. \A x \in Products : Paid(x, "shown") => ~held[x].missing \/ held[x].error
    BY DEF Paid
  <2> QED BY <2>1 DEF SyncInv, AllPaid, NeverHiddenInSilence
<1> QED BY <1>1, <1>2, <1>3, PTL DEF Spec

-----------------------------------------------------------------------------
(* Nothing is counted twice.                                               *)

\* One worker at a time: what a step of it does to the others' state.
LEMMA OneWorker ==
    ASSUME TypeOK, OneRun, "stall" \notin Enabled, NEW r \in Runners,
           StartRun(r) \/ RunStep(r) \/ RunFails(r)
             \/ \E x \in Products : WriteProductFails(r, x)
    PROVE  /\ Active \subseteq {r} /\ Active' \subseteq {r} /\ OneRun'
           /\ ~StartRun(r) => r \in Active
           /\ \A s \in Runners \ {r} : run'[s] = run[s]
           /\ UNCHANGED storeSide /\ UNCHANGED conn
<1>1. /\ ~StartRun(r) => run[r].pc # "idle"
      /\ UNCHANGED storeSide /\ UNCHANGED conn
  BY DEF StartRun, RunStep, PlanRun, FetchProducts, WriteProduct, ProductsWritten, Sweep,
         AdvanceProducts, FetchOrders, DeleteDays, CreateRows, RowsCreated, AdvanceOrders,
         SetMarkers, RunFails, NothingWritten, WriteProductFails
<1>2. \A s \in Runners \ {r} : run'[s] = run[s]
  BY DEF StartRun, RunStep, PlanRun, FetchProducts, WriteProduct, ProductsWritten, Sweep,
         AdvanceProducts, FetchOrders, DeleteDays, CreateRows, RowsCreated, AdvanceOrders,
         SetMarkers, RunFails, NothingWritten, WriteProductFails, To, TypeOK
<1>3. StartRun(r) => Active = {}
  BY DEF StartRun, NoRunQueued
<1>4. Active \subseteq {r}
  BY <1>1, <1>3 DEF Active, OneRun
<1> QED BY <1>1, <1>2, <1>4 DEF Active, OneRun

\* The sale date of an order is there for good.
LEMMA SoldStays ==
    ASSUME TypeOK, StoreStep
    PROVE  \A o \in Placed : o \in Placed' /\ order'[o].sold = order[o].sold
<1> SUFFICES ASSUME NEW o \in Placed
             PROVE  o \in Placed' /\ order'[o].sold = order[o].sold
  OBVIOUS
<1>1. o \in Orders /\ order[o].sold # Null
  BY DEF Placed
<1>2. ASSUME NEW p \in Orders, NEW sold \in Times, PlaceOrder(p, sold)
      PROVE  order'[o].sold = order[o].sold
  BY <1>1, <1>2 DEF PlaceOrder, TypeOK
<1>3. ASSUME NEW p \in Orders, ChangeOrder(p) PROVE order'[o].sold = order[o].sold
  <2>1. order[o] \in [sold : Times, changed : Times]
    BY <1>1 DEF TypeOK, NotPlaced
  <2> QED BY <1>1, <1>3, <2>1 DEF ChangeOrder, TypeOK
<1>4. order'[o].sold = order[o].sold
  BY <1>2, <1>3 DEF StoreStep, ChangeProduct, DeleteProduct, Tick
<1> QED BY <1>1, <1>4 DEF Placed

\* The rows of a rebuild: one for each collected order, of an affected day.
LEMMA RowsOfDays ==
    ASSUME NEW r, NEW s, NEW since, NEW row \in RowsFor(r, s, since)
    PROVE  /\ row.order \in Placed
           /\ DayOfRow(row) \in AffectedDays(Changed(s, since), SoldAt)
           /\ \A other \in RowsFor(r, s, since) : row.order = other.order => row = other
<1> DEFINE collected == CollectedOrders(Changed(s, since), OrdersOf(s), SoldAt, since)
<1>1. ASSUME NEW one \in RowsFor(r, s, since)
      PROVE  /\ one.order \in collected
             /\ one = [order |-> one.order, version |-> order[one.order].changed, by |-> r]
  BY DEF RowsFor
<1>2. row.order \in collected
  BY <1>1
<1>3. /\ row.order \in Changed(s, since) \cup OrdersOf(s)
      /\ TenantDay(SoldAt[row.order]) \in AffectedDays(Changed(s, since), SoldAt)
  BY <1>2 DEF CollectedOrders
<1>4. row.order \in Placed
  BY <1>3 DEF Changed, OrdersOf
<1>5. SoldAt[row.order] = order[row.order].sold
  BY <1>4 DEF SoldAt
<1> HIDE DEF collected
<1> QED BY <1>1, <1>3, <1>4, <1>5 DEF DayOfRow

\* A step of a run: it clears the days it is about to insert, and inserts each
\* order once.
LEMMA CountRun ==
    ASSUME CountInv, "stall" \notin Enabled, NEW r \in Runners,
           StartRun(r) \/ RunStep(r) \/ RunFails(r)
             \/ \E x \in Products : WriteProductFails(r, x)
    PROVE  CountInv'
<1>1. TypeOK /\ TypeOK' /\ run[r] \in Run
  BY TypeRun DEF CountInv, TypeOK
<1>2. /\ Active \subseteq {r} /\ Active' \subseteq {r} /\ OneRun'
      /\ ~StartRun(r) => r \in Active
      /\ UNCHANGED order
  BY <1>1, OneWorker DEF CountInv, storeSide
<1>3. ~StartRun(r) => RowsInv(r)
  BY <1>2 DEF CountInv
<1>4. Placed' = Placed /\ \A row : DayOfRow(row)' = DayOfRow(row)
  BY <1>2 DEF Placed, DayOfRow
<1>5. SUFFICES NoDoubleCount' /\ RowsInv(r)'
  BY <1>1, <1>2 DEF CountInv
<1>6. CASE FetchOrders(r)
  <2> DEFINE since == OrdersSince(run[r].start, run[r].rebuild, run[r].reconcile)
  <2>1. /\ run'[r].rows = RowsFor(r, run[r].store, since)
        /\ run'[r].days = AffectedDays(Changed(run[r].store, since), SoldAt)
        /\ run'[r].pc \in {"advanceOrders", "delete"}
        /\ sales' = sales
    BY <1>1, <1>6 DEF FetchOrders, TypeOK, Run
  <2> HIDE DEF since
  <2>2. ASSUME NEW row \in run'[r].rows
        PROVE  /\ row.order \in Placed' /\ DayOfRow(row)' \in run'[r].days
               /\ \A other \in run'[r].rows : row.order = other.order => row = other
    BY <1>4, <2>1, <2>2, RowsOfDays
  <2> QED BY <2>1, <2>2 DEF RowsInv, NoDoubleCount, CountInv
<1>7. CASE DeleteDays(r)
  <2>1. /\ run'[r].rows = run[r].rows /\ run'[r].days = run[r].days
        /\ run[r].pc = "delete" /\ run'[r].pc = "create"
        /\ sales' = {row \in sales : DayOfRow(row) \notin run[r].days}
    BY <1>1, <1>7 DEF DeleteDays, RowsOutside, To, TypeOK, Run
  <2>2. RowsInv(r)
    BY <1>3, <2>1 DEF StartRun
  <2>3. ASSUME NEW row \in run[r].rows, NEW other \in sales' PROVE row.order # other.order
    BY <2>1, <2>2 DEF RowsInv, DayOfRow
  <2> QED BY <1>4, <2>1, <2>2, <2>3 DEF RowsInv, NoDoubleCount, CountInv
<1>8. ASSUME NEW chunk \in SUBSET run[r].rows, CreateRows(r, chunk)
      PROVE  NoDoubleCount' /\ RowsInv(r)'
  <2>1. /\ run'[r].rows = run[r].rows \ chunk /\ run'[r].days = run[r].days
        /\ run[r].pc = "create" /\ run'[r].pc = "create"
        /\ sales' = sales \cup chunk
    BY <1>1, <1>8 DEF CreateRows, TypeOK, Run
  <2>2. RowsInv(r)
    BY <1>3, <2>1 DEF StartRun
  <2>3. NoDoubleCount'
    BY <2>1, <2>2 DEF RowsInv, NoDoubleCount, CountInv
  <2>4. \A row \in run'[r].rows, other \in sales' : row.order # other.order
    BY <2>1, <2>2 DEF RowsInv
  <2> QED BY <1>4, <2>1, <2>2, <2>3, <2>4 DEF RowsInv
<1>9. CASE ~FetchOrders(r) /\ ~DeleteDays(r)
           /\ \A chunk \in SUBSET run[r].rows : ~CreateRows(r, chunk)
  <2>1. ASSUME sales' = sales, run'[r].pc \notin {"delete", "create"}
        PROVE  NoDoubleCount' /\ RowsInv(r)'
    BY <2>1 DEF RowsInv, NoDoubleCount, CountInv
  <2>2. ASSUME NEW j, run' = [run EXCEPT ![r] = j] PROVE run'[r] = j
    BY <1>1, <2>2 DEF TypeOK
  <2>3. CASE StartRun(r) \/ SetMarkers(r) \/ RunFails(r) \/ NothingWritten(r)
    <3>1. run' = [run EXCEPT ![r] = [Idle EXCEPT !.pc = "begin", !.store = conn.store]]
            \/ run' = [run EXCEPT ![r] = Idle]
      BY <2>3 DEF StartRun, SetMarkers, RunFails, NothingWritten
    <3>2. run'[r].pc \in {"begin", "idle"}
      <4>1. Idle.pc = "idle" /\ [Idle EXCEPT !.pc = "begin", !.store = conn.store].pc = "begin"
        BY DEF Idle
      <4> QED BY <2>2, <3>1, <4>1
    <3>3. sales' = sales
      BY <2>3 DEF StartRun, SetMarkers, RunFails, NothingWritten
    <3> QED BY <2>1, <3>2, <3>3
  <2>4. CASE PlanRun(r)
    BY <1>1, <2>1, <2>4 DEF PlanRun, TypeOK, Run
  <2>5. CASE FetchProducts(r)
    BY <1>1, <2>1, <2>5 DEF FetchProducts, TypeOK, Run
  <2>6. ASSUME NEW x \in Products, WriteProduct(r, x) \/ WriteProductFails(r, x)
        PROVE  NoDoubleCount' /\ RowsInv(r)'
    <3>1. /\ run[r].pc = "products" /\ sales' = sales
          /\ \/ run' = [run EXCEPT ![r].todo = @ \ {x}, ![r].written = TRUE]
             \/ run' = [run EXCEPT ![r].todo = @ \ {x}]
      BY <2>6 DEF WriteProduct, WriteProductFails
    <3>2. run'[r].pc = "products"
      BY <1>1, <3>1 DEF TypeOK, Run
    <3> QED BY <2>1, <3>1, <3>2
  <2>7. CASE \/ ProductsWritten(r) \/ Sweep(r) \/ AdvanceProducts(r) \/ RowsCreated(r)
             \/ AdvanceOrders(r)
    BY <1>1, <2>1, <2>7 DEF ProductsWritten, Sweep, AdvanceProducts, RowsCreated, AdvanceOrders,
                            To, TypeOK, Run
  <2> QED BY <1>9, <2>3, <2>4, <2>5, <2>6, <2>7 DEF RunStep
<1> QED BY <1>6, <1>7, <1>8, <1>9

\* Nobody else adds a row or moves a sale to another day.
LEMMA CountOthers ==
    ASSUME CountInv,
           StoreStep \/ OwnerStep \/ MarkFull \/ (\E x \in Products : DeleteWebhook(x))
             \/ UNCHANGED vars
    PROVE  CountInv'
<1>1. TypeOK /\ TypeOK'
  BY TypeStoreOwner DEF CountInv, TypeOK, vars
<1>2. run' = run /\ sales' \subseteq sales
  BY DEF StoreStep, ChangeProduct, DeleteProduct, ChangeOrder, PlaceOrder, Tick, OwnerStep,
         Connect, Disconnect, RemoveStore, RedactShop, MarkFull, DeleteWebhook, vars
<1>3. UNCHANGED order \/ StoreStep
  BY DEF OwnerStep, Connect, Disconnect, RemoveStore, RedactShop, MarkFull, DeleteWebhook, vars,
         storeSide
<1>4. \A o \in Placed : o \in Placed' /\ order'[o].sold = order[o].sold
  BY <1>1, <1>3, SoldStays DEF Placed
<1>5. Active' = Active /\ OneRun' /\ NoDoubleCount'
  BY <1>2 DEF Active, OneRun, NoDoubleCount, CountInv
<1>6. ASSUME NEW r \in Active PROVE RowsInv(r)'
  BY <1>2, <1>4, <1>6 DEF CountInv, RowsInv, DayOfRow
<1> QED BY <1>1, <1>5, <1>6 DEF CountInv

\* "So overlap windows never double-count", for all stores, windows and zones,
\* also when runs fail half-way and when connections change under them: days
\* are cleared whole before their orders are inserted, by one run at a time.
THEOREM NoSaleIsCountedTwice ==
    ASSUME "stall" \notin Enabled
    PROVE  Spec => []NoDoubleCount
<1>1. Init => CountInv
  <2>1. Init => Active = {} /\ sales = {}
    BY DEF Init, Active, Idle
  <2> QED BY <2>1, TypeInit DEF CountInv, OneRun, NoDoubleCount
<1>2. CountInv /\ [Next]_vars => CountInv'
  BY CountRun, CountOthers DEF Next
<1>3. CountInv => NoDoubleCount
  BY DEF CountInv
<1> QED BY <1>1, <1>2, <1>3, PTL DEF Spec

-----------------------------------------------------------------------------
(* No sale is lost.                                                        *)

LEMMA PlacedOrder ==
    ASSUME TypeOK, NEW o \in Placed
    PROVE  /\ o \in Orders /\ ProductOf[o] \in Products
           /\ order[o] \in [sold : Times, changed : Times]
           /\ order[o].sold \in Times /\ order[o].changed \in Times
  BY SyncAssumption DEF Placed, TypeOK, NotPlaced

\* A rebuild, a reconcile and a first run pull what is recent, however long ago
\* they were planned.
LEMMA RecentIsPulled ==
    ASSUME TypeOK, NEW t \in Times, t <= clock, NEW rebuild \in BOOLEAN, NEW reconcile \in BOOLEAN,
           NEW o \in Placed, Recent(o), rebuild \/ reconcile \/ cursor["orders"] = Null
    PROVE  order[o].changed >= OrdersSince(t, rebuild, reconcile)
<1>1. /\ order[o].changed \in Int /\ clock \in Int /\ t \in Int
      /\ FirstLookback \in Int /\ ReconcileSpan \in Int
  BY PlacedOrder, SyncAssumption DEF Times, TypeOK
<1>2. ASSUME NEW span \in Int, order[o].changed >= clock - span
      PROVE  WindowFromNow(t, span) \in Int /\ WindowFromNow(t, span) <= order[o].changed
  <2>1. t - span \in Int /\ t - span <= order[o].changed
    BY <1>1, <1>2
  <2>2. UtcMidnight(t - span) \in Int /\ UtcMidnight(t - span) <= t - span
    BY <2>1, MidnightIsBefore
  <2> QED BY <1>1, <2>1, <2>2 DEF WindowFromNow
<1>3. /\ WindowFromNow(t, FirstLookback) \in Int
      /\ WindowFromNow(t, FirstLookback) <= order[o].changed
      /\ WindowFromNow(t, ReconcileSpan) \in Int
      /\ WindowFromNow(t, ReconcileSpan) <= order[o].changed
  BY <1>1, <1>2 DEF Recent
<1>4. CASE rebuild \/ cursor["orders"] = Null
  <2>1. OrdersSince(t, rebuild, reconcile) \in
          {WindowFromNow(t, FirstLookback), WindowFromNow(t, ReconcileSpan)}
    BY <1>4 DEF OrdersSince
  <2> QED BY <1>1, <1>3, <2>1
<1>5. CASE ~rebuild /\ cursor["orders"] # Null /\ reconcile
  <2>1. WindowFromCursor(cursor["orders"], Overlap) \in Int
    BY <1>5, CursorWindow DEF TypeOK, Resources
  <2>2. /\ OrdersSince(t, rebuild, reconcile) \in Int
        /\ OrdersSince(t, rebuild, reconcile) <= WindowFromNow(t, ReconcileSpan)
    BY <1>3, <1>5, <2>1 DEF OrdersSince
  <2> QED BY <1>1, <1>3, <2>2
<1> QED BY <1>4, <1>5

\* Whoever does not rebuild pulls what the cursor's window covers, and nothing
\* else unless it reconciles.
LEMMA CursorIsPulled ==
    ASSUME TypeOK, NEW t \in Times, NEW reconcile \in BOOLEAN, NEW o \in Placed,
           cursor["orders"] # Null
    PROVE  LET window == WindowFromCursor(cursor["orders"], Overlap)
           IN /\ order[o].changed >= window =>
                   order[o].changed >= OrdersSince(t, FALSE, reconcile)
              /\ OrdersSince(t, FALSE, FALSE) = window
<1> DEFINE window == WindowFromCursor(cursor["orders"], Overlap)
<1>1. window \in Int /\ order[o].changed \in Int
  BY CursorWindow, PlacedOrder, SyncAssumption DEF TypeOK, Resources, Times
<1>2. OrdersSince(t, FALSE, reconcile) = window \/ OrdersSince(t, FALSE, reconcile) < window
  BY DEF OrdersSince
<1>3. OrdersSince(t, FALSE, reconcile) \in Int
  BY OrdersWindow
<1>4. OrdersSince(t, FALSE, FALSE) = window
  BY DEF OrdersSince
<1> HIDE DEF window
<1>5. order[o].changed >= window => order[o].changed >= OrdersSince(t, FALSE, reconcile)
  <2>1. \A c, w, n \in Int : c >= w /\ (n = w \/ n < w) => c >= n
    OBVIOUS
  <2> QED BY <1>1, <1>2, <1>3, <2>1
<1> QED BY <1>4, <1>5 DEF window

\* An order that changed no earlier than the cursor is pulled again.
LEMMA CursorPulls ==
    ASSUME NEW o, NEW c \in Times \cup {Null}, NEW changed \in Times, c # Null => c <= changed
    PROVE  c = Null \/ changed >= WindowFromCursor(c, Overlap)
<1>1. CASE c \in Times
  <2>1. /\ WindowFromCursor(c, Overlap) \in Int
        /\ WindowFromCursor(c, Overlap) <= c
    BY <1>1, CursorWindow
  <2>2. c <= changed
    BY <1>1, SyncAssumption DEF Times
  <2> QED BY <1>1, <2>1, <2>2, SyncAssumption DEF Times
<1> QED BY <1>1

\* The sums are done: what the invariant calls rebuilt again is what the next
\* run's window covers.
LEMMA SalesCompleteHolds ==
    ASSUME TypeOK, NoSaleLost
    PROVE  RecentSalesComplete
<1> DEFINE since == OrdersSince(clock, Rebuild, ReconcileDue)
<1>1. Rebuild \in BOOLEAN /\ ReconcileDue \in BOOLEAN /\ clock \in Times
  BY DEF Rebuild, ReconcileDue, TypeOK
<1>2. ASSUME NEW o \in Placed, RebuiltAgain(DayOf(o)) PROVE DayCovered(o)
  <2>1. PICK p \in Placed : Mine(p) /\ DayOf(p) = DayOf(o) /\ PulledAgain(p)
    BY <1>2 DEF RebuiltAgain
  <2>2. order[p].changed >= since
    <3>1. clock <= clock
      BY <1>1, SyncAssumption DEF Times
    <3>2. CASE LooksBack /\ Recent(p)
      BY <1>1, <3>1, <3>2, RecentIsPulled DEF LooksBack
    <3>3. CASE /\ ~Rebuild /\ cursor["orders"] # Null
               /\ order[p].changed >= WindowFromCursor(cursor["orders"], Overlap)
      <4>1. Rebuild = FALSE
        BY <1>1, <3>3
      <4> QED BY <1>1, <3>3, <4>1, CursorIsPulled
    <3> QED BY <2>1, <3>2, <3>3 DEF PulledAgain
  <2>3. p \in Changed(conn.store, since)
    BY <2>1, <2>2 DEF Changed, OrdersOf, Mine
  <2>4. SoldAt[p] = order[p].sold
    BY <2>1 DEF SoldAt
  <2> HIDE DEF since
  <2>5. TenantDay(order[o].sold) \in AffectedDays(Changed(conn.store, since), SoldAt)
    BY <2>1, <2>3, <2>4 DEF AffectedDays, DayOf
  <2> QED BY <2>5 DEF DayCovered, since
<1> QED BY <1>2 DEF RecentSalesComplete, NoSaleLost, Counts, Mine, Known

\* A step of the store: time only brings more to be pulled again, an order that
\* changes is pulled again, and the others stay as they are.
LEMMA SalesStore ==
    ASSUME SalesInv, SyncInv("exact")', CountInv', StoreStep
    PROVE  SalesInv'
<1>1. TypeOK /\ TypeOK'
  BY DEF SalesInv, SyncInv
<1>2. /\ UNCHANGED <<conn, cursor, held, sales, run>>
      /\ clock \in Times /\ clock' \in Times /\ clock <= clock'
  <2>1. clock \in Times /\ clock' \in Times
    BY <1>1 DEF TypeOK
  <2> QED BY <2>1, SyncAssumption DEF StoreStep, ChangeProduct, DeleteProduct, ChangeOrder,
                      PlaceOrder, Tick, Times
<1>3. ASSUME NEW o \in Placed'
      PROVE  \/ o \in Placed /\ order'[o] = order[o]
             \/ order'[o].changed > clock /\ order'[o].changed <= clock'
                /\ order'[o].sold <= order'[o].changed
                /\ (OnSale(ProductOf[o]) \/ o \in Placed)
  <2>1. o \in Orders
    BY <1>3 DEF Placed
  <2>2. ASSUME NEW p \in Orders, NEW sold \in Times, PlaceOrder(p, sold)
        PROVE  \/ order'[o] = order[o]
               \/ /\ order'[o].changed = clock + 1 /\ clock' = clock + 1
                  /\ order'[o].sold <= clock + 1 /\ OnSale(ProductOf[o])
    BY <1>1, <2>1, <2>2 DEF PlaceOrder, TypeOK
  <2>3. ASSUME NEW p \in Orders, ChangeOrder(p)
        PROVE  \/ order'[o] = order[o]
               \/ /\ order'[o].changed = clock + 1 /\ clock' = clock + 1
                  /\ order'[o].sold <= clock + 1 /\ o \in Placed
    <3>1. CASE p = o
      <4>1. o \in Placed
        BY <2>1, <2>3, <3>1 DEF ChangeOrder, Placed
      <4>2. order'[o] = [order[o] EXCEPT !.changed = clock + 1]
        BY <1>1, <2>1, <2>3, <3>1 DEF ChangeOrder, TypeOK
      <4>3. /\ order[o] \in [sold : Times, changed : Times]
            /\ order[o].sold <= order[o].changed /\ order[o].changed <= clock
        BY <1>1, <4>1, PlacedOrder DEF SalesInv, OrderDates
      <4>4. order[o].sold <= clock + 1
        BY <1>2, <4>3, SyncAssumption DEF Times
      <4> QED BY <2>3, <4>1, <4>2, <4>3, <4>4 DEF ChangeOrder
    <3>2. CASE p # o
      BY <1>1, <2>1, <2>3, <3>2 DEF ChangeOrder, TypeOK
    <3> QED BY <3>1, <3>2
  <2>4. \/ order'[o] = order[o]
        \/ /\ order'[o].changed = clock + 1 /\ clock' = clock + 1
           /\ order'[o].sold <= clock + 1 /\ (OnSale(ProductOf[o]) \/ o \in Placed)
    BY <2>2, <2>3 DEF StoreStep, ChangeProduct, DeleteProduct, Tick
  <2>5. order'[o] = order[o] => o \in Placed
    BY <1>3, <2>1 DEF Placed
  <2> QED BY <1>2, <2>4, <2>5, SyncAssumption DEF Times
<1>4. ASSUME NEW x \in Products
      PROVE  /\ item[x].changed # Null => item'[x].changed # Null
             /\ item[x].changed # Null /\ OnSale(x)' => OnSale(x)
  <2>1. ASSUME NEW y \in Products, ChangeProduct(y)
        PROVE  item'[x].changed \in {item[x].changed, clock + 1} /\ item'[x].gone = item[x].gone
    BY <1>1, <2>1 DEF ChangeProduct, TypeOK
  <2>2. ASSUME NEW y \in Products, DeleteProduct(y)
        PROVE  item'[x].changed = item[x].changed /\ (item[x].gone => item'[x].gone)
    BY <1>1, <2>2 DEF DeleteProduct, TypeOK
  <2>3. clock + 1 # Null
    BY <1>2, SyncAssumption DEF Times
  <2> QED BY <2>1, <2>2, <2>3 DEF StoreStep, ChangeOrder, PlaceOrder, Tick, OnSale
<1>5. OrderDates'
  <2>1. ASSUME NEW o \in Placed'
        PROVE  /\ order'[o].sold <= order'[o].changed
               /\ order'[o].changed <= clock'
               /\ item'[ProductOf[o]].changed # Null
    <3>1. o \in Orders /\ ProductOf[o] \in Products
      BY <1>1, SyncAssumption DEF Placed
    <3>2. CASE o \in Placed /\ order'[o] = order[o]
      BY <1>1, <1>2, <1>4, <3>1, <3>2, PlacedOrder, SyncAssumption
         DEF SalesInv, OrderDates, Times
    <3>3. item[ProductOf[o]].changed # Null
      BY <1>3 DEF SalesInv, OrderDates, OnSale
    <3> QED BY <1>3, <1>4, <3>1, <3>2, <3>3
  <2>2. AtMost(cursor["orders"], clock)'
    BY <1>1, <1>2, SyncAssumption DEF SalesInv, OrderDates, AtMost, TypeOK, Resources, Times
  <2> QED BY <2>1, <2>2 DEF OrderDates
<1>6. (ReconcileDue => ReconcileDue') /\ (Rebuild' <=> Rebuild) /\ (LooksBack => LooksBack')
  <2>1. cursor["reconcile"] # Null => cursor["reconcile"] \in Times
    BY <1>1 DEF TypeOK, Resources
  <2>2. Rebuild' <=> Rebuild
    BY <1>2 DEF Rebuild
  <2>3. ReconcileDue => ReconcileDue'
    BY <1>2, <2>1, <2>2, SyncAssumption DEF ReconcileDue, Times
  <2> QED BY <1>2, <2>2, <2>3 DEF LooksBack
\* What changes now, or was to be pulled again, will be.
<1>7. ASSUME NEW o \in Placed', order'[o].changed > clock
      PROVE  \/ cursor["orders"] = Null
             \/ order'[o].changed >= WindowFromCursor(cursor["orders"], Overlap)
  <2>1. order'[o].changed \in Times
    BY <1>1, <1>7 DEF TypeOK, Placed, NotPlaced
  <2>2. cursor["orders"] \in Times \cup {Null} /\ (cursor["orders"] # Null => cursor["orders"] <= clock)
    BY <1>1 DEF TypeOK, Resources, SalesInv, OrderDates, AtMost
  <2>3. cursor["orders"] # Null => cursor["orders"] <= order'[o].changed
    BY <1>2, <1>7, <2>1, <2>2, SyncAssumption DEF Times
  <2> QED BY <2>1, <2>2, <2>3, CursorPulls
<1>8. ASSUME NEW o \in Placed PROVE o \in Placed' /\ DayOf(o)' = DayOf(o)
  BY <1>1, SoldStays DEF DayOf
<1>9. ASSUME NEW o \in Placed', order'[o].changed > clock, Mine(o)', Recent(o)'
       PROVE  RebuiltAgain(DayOf(o))'
  <2>1. PulledAgain(o)'
    BY <1>2, <1>6, <1>7, <1>9 DEF PulledAgain, LooksBack
  <2> QED BY <1>9, <2>1 DEF RebuiltAgain
\* The window of the cursor stays; if the next run looks back, it pulls the
\* recent order itself.
<1>10. ASSUME NEW o \in Placed, Mine(o), Recent(o)', RebuiltAgain(DayOf(o))
      PROVE  RebuiltAgain(DayOf(o))'
  <2>0. Mine(o)' /\ o \in Placed' /\ DayOf(o)' = DayOf(o)
    BY <1>2, <1>8, <1>10 DEF Mine
  <2>1. CASE LooksBack
    BY <1>6, <1>10, <2>0, <2>1 DEF RebuiltAgain, PulledAgain
  <2>2. CASE ~LooksBack
    <3>1. PICK p \in Placed : Mine(p) /\ DayOf(p) = DayOf(o) /\ PulledAgain(p)
      BY <1>10 DEF RebuiltAgain
    <3>2. /\ ~Rebuild /\ cursor["orders"] # Null
          /\ order[p].changed >= WindowFromCursor(cursor["orders"], Overlap)
      BY <2>2, <3>1 DEF PulledAgain
    <3>3. /\ p \in Placed' /\ DayOf(p)' = DayOf(p) /\ Mine(p)'
      BY <1>2, <1>8, <3>1 DEF Mine
    <3>4. order'[p].changed >= WindowFromCursor(cursor["orders"], Overlap)
      BY <1>3, <1>7, <3>2, <3>3
    <3>5. PulledAgain(p)'
      BY <1>2, <1>6, <3>2, <3>4 DEF PulledAgain
    <3> QED BY <2>0, <3>1, <3>3, <3>5 DEF RebuiltAgain
  <2> QED BY <2>1, <2>2
\* Time only makes orders less recent.
<1>11. ASSUME NEW o \in Placed, order'[o] = order[o], Recent(o)' PROVE Recent(o)
  <2>1. order[o].changed \in Int /\ clock \in Int /\ clock' \in Int
    BY <1>1, <1>2, PlacedOrder, SyncAssumption DEF Times
  <2> QED BY <1>2, <1>11, <2>1, SyncAssumption DEF Recent
<1>12. ASSUME NEW o \in Placed, order'[o] = order[o], Recorded(o) PROVE Recorded(o)'
  BY <1>2, <1>12 DEF Recorded
<1>13. Active' = Active
  BY <1>2 DEF Active
<1>14. ASSUME NEW o \in Placed, OnSale(ProductOf[o])' PROVE OnSale(ProductOf[o])
  BY <1>1, <1>4, <1>14, PlacedOrder DEF SalesInv, OrderDates
<1>15. NoSaleLost'
  <2> SUFFICES ASSUME NEW o \in Placed', Counts(o)' PROVE (Recorded(o) \/ RebuiltAgain(DayOf(o)))'
    BY DEF NoSaleLost
  <2>1. CASE o \in Placed /\ order'[o] = order[o]
    <3>1. Counts(o)
      BY <1>2, <1>13, <1>14, <1>11, <2>1 DEF Counts, Mine, Known
    <3>2. Recorded(o) \/ RebuiltAgain(DayOf(o))
      BY <2>1, <3>1 DEF SalesInv, NoSaleLost
    <3> QED BY <1>10, <1>12, <2>1, <3>1, <3>2 DEF Counts
  <2>2. CASE order'[o].changed > clock
    BY <1>9, <2>2 DEF Counts
  <2> QED BY <1>3, <2>1, <2>2
<1>16. ASSUME NEW r \in Active PROVE SalesRun(r)'
  <2>1. /\ SalesRun(r) /\ run' = run /\ sales' = sales /\ cursor' = cursor /\ held' = held
        /\ conn' = conn /\ run[r].start \in Times /\ run[r].start <= clock
    BY <1>1, <1>2, <1>16 DEF SalesInv, SyncInv, RunInv, Active, TypeOK, Run
  <2>2. ASSUME NEW o \in Placed', ~(o \in Placed /\ order'[o] = order[o])
        PROVE  order'[o].changed >= run[r].start /\ ~(order'[o].changed < run[r].start)
    <3>1. order'[o].changed \in Times /\ order'[o].changed > clock
      BY <1>1, <1>3, <2>2 DEF TypeOK, Placed, NotPlaced
    <3> QED BY <1>2, <2>1, <3>1, SyncAssumption DEF Times
  <2>3. ASSUME NEW o \in Placed', Before(r, o)'
        PROVE  o \in Placed /\ order'[o] = order[o] /\ Before(r, o) /\ DayOf(o)' = DayOf(o)
    BY <1>11, <2>1, <2>2, <2>3 DEF Before, Mine, Known, DayOf
  <2>4. RowsOf(r)' = RowsOf(r) /\ (DueSince(r) => DueSince(r)')
    BY <1>6, <2>1 DEF RowsOf, DueSince
  <2>5. run[r].pc \in Planned =>
         /\ run[r].rebuild <=> Rebuild'
         /\ run[r].reconcile => ReconcileDue'
         /\ AtMost(cursor["orders"], run[r].start)
    BY <1>6, <2>1 DEF SalesRun
  <2>6. ASSUME run[r].pc \in Fetched, NEW o \in Placed', Mine(o)', ~Known(o)', OnSale(ProductOf[o])',
               ProductOf[o] \notin run[r].todo
        PROVE  order'[o].changed >= run[r].start
    BY <1>14, <2>1, <2>2, <2>6 DEF SalesRun, Mine, Known
  <2>7. ASSUME run[r].pc \in {"delete", "create"}, NEW o \in Placed', Mine(o)', Recent(o)',
               DayOf(o)' \in run[r].days
        PROVE  RebuiltAgain(DayOf(o))'
    <3>1. CASE o \in Placed /\ order'[o] = order[o]
      <4>1. Mine(o) /\ Recent(o) /\ DayOf(o) \in run[r].days
        BY <1>8, <1>11, <2>1, <2>7, <3>1 DEF Mine
      <4>2. RebuiltAgain(DayOf(o))
        BY <2>1, <2>7, <3>1, <4>1 DEF SalesRun
      <4> QED BY <1>10, <2>7, <3>1, <4>1, <4>2
    <3>2. CASE order'[o].changed > clock
      BY <1>9, <2>7, <3>2
    <3> QED BY <1>3, <3>1, <3>2
  <2>8. ASSUME run[r].pc \in {"delete", "create"}, NEW o \in Placed', Before(r, o)'
        PROVE  /\ DayOf(o)' \in run[r].days =>
                    /\ \E row \in RowsOf(r) : row.order = o
                    /\ \A row \in RowsOf(r) : row.order = o => row.version = order'[o].changed
               /\ DayOf(o)' \notin run[r].days => Recorded(o)' \/ DueSince(r)'
    BY <1>12, <2>1, <2>3, <2>4, <2>8 DEF SalesRun
  <2>9. ASSUME run[r].pc \in {"advanceOrders", "markers"}, NEW o \in Placed', Before(r, o)'
        PROVE  Recorded(o)' \/ DueSince(r)'
    BY <1>12, <2>1, <2>3, <2>4, <2>9 DEF SalesRun
  <2>10. run[r].pc \in Fetched => \A x \in run[r].todo : run[r].seen[x] # Null
    BY <2>1 DEF SalesRun
  <2> QED BY <2>1, <2>4, <2>5, <2>6, <2>7, <2>8, <2>9, <2>10 DEF SalesRun
<1> QED BY <1>5, <1>13, <1>15, <1>16 DEF SalesInv

\* The owner, the night and the webhook: another store is pulled from the
\* beginning, and nothing else touches what the sales rest on.
LEMMA SalesOwner ==
    ASSUME Quiet, SalesInv, SyncInv("exact")', CountInv',
           OwnerStep \/ MarkFull \/ \E x \in Products : DeleteWebhook(x)
    PROVE  SalesInv'
<1>1. TypeOK /\ TypeOK' /\ DatesAndLink
  BY DEF SalesInv, SyncInv
<1>2. UNCHANGED <<clock, item, order, run>>
  BY DEF OwnerStep, Connect, Disconnect, RemoveStore, RedactShop, MarkFull, DeleteWebhook, storeSide
<1>3. NoCursors["orders"] = Null /\ "orders" \in Resources
  BY DEF NoCursors, Resources
<1>4. \/ cursor'["orders"] = Null /\ Active = {}
      \/ /\ \A c \in Resources \ {"products"} : cursor'[c] = cursor[c]
         /\ conn'.store = conn.store /\ sales' = sales
         /\ \A x \in Products : held'[x].version = held[x].version
  <2>1. CASE MarkFull
    BY <1>1, <2>1 DEF MarkFull, MarkedCursor, TypeOK
  <2>2. ASSUME NEW y \in Products, DeleteWebhook(y)
        PROVE  /\ cursor' = cursor /\ conn' = conn /\ sales' = sales
               /\ \A x \in Products : held'[x].version = held[x].version
    BY <1>1, <2>2 DEF DeleteWebhook, TypeOK
  <2>3. ASSUME NEW s \in Stores, Connect(s)
        PROVE  \/ cursor'["orders"] = Null
               \/ cursor' = cursor /\ conn'.store = conn.store /\ sales' = sales /\ held' = held
    <3>1. conn'.store = s /\ sales' = sales /\ held' = held
      BY <2>3 DEF Connect
    <3>2. CASE conn.store = Null
      BY <1>1, <1>3, <2>3, <3>2 DEF Connect, CursorsAfterConnect, DatesAndLink
    <3>3. CASE conn.store = s
      BY <2>3, <3>1, <3>3 DEF Connect, CursorsAfterConnect
    <3>4. CASE conn.store # Null /\ conn.store # s
      BY <1>3, <2>3, <3>4 DEF Connect, CursorsAfterConnect
    <3> QED BY <3>2, <3>3, <3>4
  <2>4. CASE Disconnect
    BY <1>1, <2>4 DEF Disconnect, TypeOK
  <2>5. OwnerStep => Active = {}
    <3>1. "switchDuringRun" \notin Enabled
      BY DEF Quiet
    <3>2. OwnerStep => QuietConnection
      BY DEF OwnerStep, Connect, Disconnect, RemoveStore, RedactShop
    <3> QED BY <3>1, <3>2 DEF QuietConnection
  <2>6. CASE RemoveStore \/ RedactShop
    BY <1>3, <2>5, <2>6 DEF RemoveStore, RedactShop, OwnerStep
  <2>7. CASE OwnerStep
    <3>1. CASE \E s \in Stores : Connect(s)
      BY <2>3, <2>5, <2>7, <3>1
    <3> QED BY <2>4, <2>5, <2>6, <2>7, <3>1 DEF OwnerStep
  <2> QED BY <2>1, <2>2, <2>7
<1>5. Active' = Active /\ Placed' = Placed
  BY <1>2 DEF Active, Placed
<1>6. CASE cursor'["orders"] = Null /\ Active = {}
  <2>1. OrderDates'
    BY <1>2, <1>5, <1>6 DEF SalesInv, OrderDates, AtMost
  <2>2. NoSaleLost'
    BY <1>6 DEF NoSaleLost, RebuiltAgain, PulledAgain, LooksBack, Counts
  <2> QED BY <1>5, <1>6, <2>1, <2>2 DEF SalesInv
<1>7. CASE /\ \A c \in Resources \ {"products"} : cursor'[c] = cursor[c]
           /\ conn'.store = conn.store /\ sales' = sales
           /\ \A x \in Products : held'[x].version = held[x].version
  <2>1. /\ cursor'["orders"] = cursor["orders"] /\ cursor'["logic"] = cursor["logic"]
        /\ cursor'["reconcile"] = cursor["reconcile"]
    BY <1>7 DEF Resources
  <2>2. (Rebuild' <=> Rebuild) /\ (ReconcileDue' <=> ReconcileDue)
    BY <1>2, <2>1 DEF Rebuild, ReconcileDue
  <2>3. ASSUME NEW o \in Placed
        PROVE  /\ ProductOf[o] \in Products
               /\ Mine(o)' <=> Mine(o)
               /\ Known(o)' <=> Known(o)
               /\ Recent(o)' <=> Recent(o)
               /\ PulledAgain(o)' <=> PulledAgain(o)
               /\ Recorded(o)' <=> Recorded(o)
               /\ DayOf(o)' = DayOf(o)
               /\ OnSale(ProductOf[o])' <=> OnSale(ProductOf[o])
    <3>1. ProductOf[o] \in Products
      BY <1>1, PlacedOrder
    <3> QED BY <1>2, <1>7, <2>1, <2>2, <3>1
            DEF Mine, Known, Recent, PulledAgain, LooksBack, Recorded, DayOf, OnSale
  <2>4. ASSUME NEW d PROVE RebuiltAgain(d)' <=> RebuiltAgain(d)
    BY <1>5, <2>3 DEF RebuiltAgain
  <2>5. ASSUME NEW o \in Placed PROVE Counts(o)' <=> Counts(o)
    BY <1>2, <1>5, <2>3 DEF Counts
  <2>6. OrderDates'
    BY <1>2, <1>5, <2>1 DEF SalesInv, OrderDates, AtMost
  <2>7. NoSaleLost'
    BY <1>5, <2>3, <2>4, <2>5 DEF SalesInv, NoSaleLost
  <2>8. ASSUME NEW r \in Active PROVE SalesRun(r)'
    <3>1. SalesRun(r) /\ run' = run
      BY <1>2, <2>8 DEF SalesInv
    <3>2. RowsOf(r)' = RowsOf(r) /\ (DueSince(r)' <=> DueSince(r))
      BY <1>2, <1>7, <2>2 DEF RowsOf, DueSince
    <3>3. ASSUME NEW o \in Placed PROVE Before(r, o)' <=> Before(r, o)
      BY <1>2, <2>3 DEF Before
    <3> QED BY <1>2, <1>5, <2>1, <2>2, <2>3, <2>4, <3>1, <3>2, <3>3 DEF SalesRun, AtMost
  <2> QED BY <1>5, <2>6, <2>7, <2>8 DEF SalesInv
<1> QED BY <1>4, <1>6, <1>7

\* A step of a run.  It rebuilds only days the next run would rebuild again,
\* each of them whole; what it leaves alone was recorded or will be pulled
\* again; and once it moves the cursor to its start, whatever changed before is
\* recorded and whatever changed since is pulled again.
LEMMA SalesOfRun ==
    ASSUME Quiet, SalesInv, SyncInv("exact")', CountInv', NEW r \in Runners,
           StartRun(r) \/ RunStep(r) \/ RunFails(r)
    PROVE  SalesInv'
<1>1. TypeOK /\ TypeOK' /\ OneRun /\ "stall" \notin Enabled /\ run[r] \in Run
  BY DEF SalesInv, SyncInv, Quiet, TypeOK
<1>2. /\ Active \subseteq {r} /\ Active' \subseteq {r}
      /\ ~StartRun(r) => r \in Active
      /\ UNCHANGED <<clock, item, order, conn>>
  BY <1>1, OneWorker DEF storeSide
<1>3. ~StartRun(r) => /\ RunInv(r, "exact") /\ SalesRun(r) /\ RowsInv(r)
  BY <1>2 DEF SalesInv, SyncInv, CountInv
<1>4. /\ Placed' = Placed
      /\ \A o : /\ Mine(o)' = Mine(o) /\ DayOf(o)' = DayOf(o)
               /\ Recent(o)' = Recent(o)
  BY <1>2 DEF Placed, Mine, DayOf, Recent
<1>5. ASSUME NEW o \in Placed
      PROVE  /\ o \in Orders /\ ProductOf[o] \in Products
             /\ order[o].changed \in Times /\ run[r].start \in Times
             /\ order[o].changed >= run[r].start \/ order[o].changed < run[r].start
             /\ OnSale(ProductOf[o])' <=> OnSale(ProductOf[o])
  <2>1. /\ o \in Orders /\ ProductOf[o] \in Products
        /\ order[o].changed \in Times /\ run[r].start \in Times
    BY <1>1, PlacedOrder DEF Run
  <2> QED BY <1>2, <2>1, SyncAssumption DEF Times, OnSale
\* What each step may do to what the sales rest on.
<1>6. ASSUME OrderDates', NoSaleLost', SalesRun(r)' PROVE SalesInv'
  BY <1>2, <1>6 DEF SalesInv
<1>7. ASSUME cursor'["orders"] = cursor["orders"], cursor'["logic"] = cursor["logic"],
             cursor'["reconcile"] = cursor["reconcile"]
      PROVE  /\ OrderDates'
             /\ Rebuild' = Rebuild /\ ReconcileDue' = ReconcileDue
             /\ \A d : RebuiltAgain(d)' <=> RebuiltAgain(d)
  <2>1. Rebuild' = Rebuild /\ ReconcileDue' = ReconcileDue
    BY <1>2, <1>7 DEF Rebuild, ReconcileDue
  <2>2. \A o : PulledAgain(o)' <=> PulledAgain(o)
    BY <1>2, <1>4, <1>7, <2>1 DEF PulledAgain, LooksBack
  <2>3. ASSUME NEW d PROVE RebuiltAgain(d)' <=> RebuiltAgain(d)
    BY <1>4, <2>2 DEF RebuiltAgain
  <2> QED BY <1>2, <1>4, <1>7, <2>1, <2>3 DEF SalesInv, OrderDates, AtMost
\* A step that only lets fewer products count.
<1>8. ASSUME \A o \in Placed : Counts(o)' => Counts(o), sales' = sales,
             \A d : RebuiltAgain(d)' <=> RebuiltAgain(d)
      PROVE  NoSaleLost'
  <2>1. \A o \in Placed : Recorded(o)' <=> Recorded(o)
    BY <1>2, <1>8 DEF Recorded
  <2> QED BY <1>4, <1>8, <2>1 DEF SalesInv, NoSaleLost
\* What a run owes when it is through with the orders.
<1>9. ASSUME run[r].pc \in {"advanceOrders", "markers"}, ~StartRun(r),
             NEW o \in Placed, Counts(o)
      PROVE  Recorded(o) \/ DueSince(r) \/ order[o].changed >= run[r].start
  <2>1. SalesRun(r) /\ RunInv(r, "exact") /\ run[r].pc \in Fetched
    BY <1>3, <1>9 DEF Fetched, Planned, Phases
  <2>2. run[r].todo = {}
    BY <1>9, <2>1 DEF RunInv
  <2>3. Known(o) \/ OnSale(ProductOf[o])
    BY <1>2, <1>9, <2>2 DEF Counts
  <2>4. CASE Known(o)
    BY <1>5, <1>9, <2>1, <2>4 DEF SalesRun, Before, Counts
  <2>5. CASE ~Known(o)
    BY <1>9, <2>1, <2>2, <2>3, <2>5 DEF SalesRun, Counts
  <2> QED BY <2>4, <2>5
<1>10. CASE StartRun(r)
  <2>1. /\ run'[r].pc = "begin" /\ run'[r].todo = {}
        /\ UNCHANGED <<cursor, held, sales>>
    BY <1>1, <1>10 DEF StartRun, Idle, TypeOK
  <2>2. ASSUME NEW o \in Placed, Counts(o)' PROVE Counts(o)
    BY <1>2, <1>4, <1>5, <2>1, <2>2 DEF Counts, Known
  <2>3. SalesRun(r)'
    BY <2>1 DEF SalesRun, Planned, Fetched
  <2> QED BY <1>6, <1>7, <1>8, <2>1, <2>2, <2>3
<1>11. CASE PlanRun(r)
  <2>1. /\ run'[r].pc = "fetchProducts" /\ run'[r].todo = run[r].todo
        /\ run'[r].rebuild = Rebuild /\ run'[r].reconcile = ReconcileDue
        /\ run'[r].start = clock
        /\ UNCHANGED <<cursor, held, sales>> /\ run[r].pc = "begin"
    BY <1>1, <1>2, <1>11 DEF PlanRun, TypeOK, Run
  <2>2. r \in Active /\ r \in Active'
    BY <1>2, <2>1 DEF Active, StartRun
  <2>3. ASSUME NEW o \in Placed, Counts(o)' PROVE Counts(o)
    BY <1>2, <1>4, <1>5, <2>1, <2>2, <2>3 DEF Counts, Known
  <2>4. SalesRun(r)'
    BY <1>7, <2>1 DEF SalesRun, Planned, Fetched, SalesInv, OrderDates
  <2> QED BY <1>6, <1>7, <1>8, <2>1, <2>3, <2>4
<1>12. CASE FetchProducts(r)
  <2> DEFINE pulled == Pulled(run[r].store, run[r].since)
  <2>1. /\ run'[r].pc \in {"advanceProducts", "products"} /\ run'[r].todo = pulled
        /\ run'[r].rebuild = run[r].rebuild /\ run'[r].reconcile = run[r].reconcile
        /\ run'[r].start = run[r].start
        /\ run'[r].seen = [x \in Products |-> IF x \in pulled THEN item[x].changed ELSE Null]
        /\ UNCHANGED <<cursor, held, sales>> /\ run[r].pc = "fetchProducts"
    BY <1>1, <1>2, <1>12 DEF FetchProducts, TypeOK, Run
  <2>2. /\ SalesRun(r) /\ RunInv(r, "exact") /\ run[r].pc \in Planned
    BY <1>3, <2>1 DEF StartRun, Planned, Phases
  <2>3. \A x \in pulled : x \in Products /\ OnSale(x)
    BY DEF Pulled
  <2>4. ASSUME NEW o \in Placed, Counts(o)' PROVE Counts(o)
    BY <1>2, <1>4, <1>5, <2>1, <2>3, <2>4 DEF Counts, Known
  <2>5. \A x \in run'[r].todo : run'[r].seen[x] # Null
    BY <2>1, <2>3 DEF OnSale
  <2>6. ASSUME NEW o \in Placed, Mine(o), ~Known(o), OnSale(ProductOf[o])
        PROVE  ProductOf[o] \in pulled
    <3>1. /\ run[r].store = conn.store
          /\ UpToDate(ProductOf[o]) \/ InWindow(ProductOf[o], run[r].since)
      BY <1>5, <2>1, <2>2, <2>6 DEF RunInv, OwedTo, Paid, Mine
    <3>2. ~UpToDate(ProductOf[o])
      BY <2>6 DEF UpToDate, Known, OnSale
    <3> QED BY <1>5, <2>6, <3>1, <3>2 DEF Pulled, Mine
  <2> HIDE DEF pulled
  <2>7. SalesRun(r)'
    <3>1. /\ run'[r].rebuild <=> Rebuild'
          /\ run'[r].reconcile => ReconcileDue'
          /\ AtMost(cursor'["orders"], run'[r].start)
      BY <1>7, <2>1, <2>2 DEF SalesRun
    <3>2. ASSUME NEW o \in Placed', Mine(o)', ~Known(o)', OnSale(ProductOf[o])',
                 ProductOf[o] \notin run'[r].todo
          PROVE  FALSE
      BY <1>4, <1>5, <2>1, <2>6, <3>2 DEF Known
    <3> QED BY <2>1, <2>5, <3>1, <3>2 DEF SalesRun
  <2> QED BY <1>6, <1>7, <1>8, <2>1, <2>4, <2>7
<1>13. ASSUME NEW x \in Products, WriteProduct(r, x) PROVE SalesInv'
  <2>1. /\ run[r].pc = "products" /\ run'[r].pc = "products" /\ run'[r].todo = run[r].todo \ {x}
        /\ run'[r].rebuild = run[r].rebuild /\ run'[r].reconcile = run[r].reconcile
        /\ run'[r].start = run[r].start /\ run'[r].seen = run[r].seen
        /\ UNCHANGED <<cursor, sales>> /\ x \in run[r].todo
        /\ held'[x].version = run[r].seen[x] /\ \A y \in Products \ {x} : held'[y] = held[y]
    BY <1>1, <1>2, <1>13 DEF WriteProduct, Upserted, TypeOK, Run
  <2>2. /\ SalesRun(r) /\ run[r].pc \in Fetched /\ r \in Active
    BY <1>2, <1>3, <2>1 DEF StartRun, Fetched, Planned, Phases
  <2>3. run[r].seen[x] # Null
    BY <2>1, <2>2 DEF SalesRun
  <2>4. ASSUME NEW o \in Placed, Counts(o)' PROVE Counts(o)
    BY <1>2, <1>4, <1>5, <2>1, <2>2, <2>4 DEF Counts, Known
  <2>5. SalesRun(r)'
    <3>1. /\ run'[r].rebuild <=> Rebuild'
          /\ run'[r].reconcile => ReconcileDue'
          /\ AtMost(cursor'["orders"], run'[r].start)
      BY <1>7, <2>1, <2>2 DEF SalesRun, Fetched
    <3>2. \A y \in run'[r].todo : run'[r].seen[y] # Null
      BY <2>1, <2>2 DEF SalesRun
    <3>3. ASSUME NEW o \in Placed', Mine(o)', ~Known(o)', OnSale(ProductOf[o])',
                 ProductOf[o] \notin run'[r].todo
          PROVE  order'[o].changed >= run'[r].start
      <4>1. ProductOf[o] # x
        BY <2>1, <2>3, <3>3 DEF Known
      <4>2. o \in Placed /\ Mine(o) /\ ~Known(o) /\ OnSale(ProductOf[o]) /\ ProductOf[o] \notin run[r].todo
        BY <1>4, <1>5, <2>1, <3>3, <4>1 DEF Known
      <4> QED BY <1>2, <2>1, <2>2, <4>2 DEF SalesRun
    <3> QED BY <2>1, <3>1, <3>2, <3>3 DEF SalesRun
  <2> QED BY <1>6, <1>7, <1>8, <2>1, <2>4, <2>5
<1>14. CASE ProductsWritten(r) \/ Sweep(r) \/ AdvanceProducts(r)
  <2>1. /\ run[r].pc \in {"products", "sweep", "advanceProducts"}
        /\ run'[r].pc \in {"sweep", "advanceProducts", "fetchOrders"}
        /\ run'[r].todo = run[r].todo /\ run'[r].seen = run[r].seen
        /\ run'[r].rebuild = run[r].rebuild /\ run'[r].reconcile = run[r].reconcile
        /\ run'[r].start = run[r].start
        /\ UNCHANGED sales
    BY <1>1, <1>14 DEF ProductsWritten, Sweep, AdvanceProducts, To, TypeOK, Run
  <2>2. /\ cursor'["orders"] = cursor["orders"] /\ cursor'["logic"] = cursor["logic"]
        /\ cursor'["reconcile"] = cursor["reconcile"]
        /\ \A x \in Products : held'[x].version = held[x].version
    BY <1>1, <1>14 DEF ProductsWritten, Sweep, Swept, AdvanceProducts, TypeOK, Resources
  <2>3. /\ SalesRun(r) /\ run[r].pc \in Fetched /\ r \in Active
    BY <1>2, <1>3, <2>1 DEF StartRun, Fetched, Planned, Phases
  <2>4. ASSUME NEW o \in Placed PROVE Known(o)' <=> Known(o)
    BY <1>5, <2>2 DEF Known
  <2>5. ASSUME NEW o \in Placed, Counts(o)' PROVE Counts(o)
    BY <1>2, <1>4, <1>5, <2>1, <2>3, <2>4, <2>5 DEF Counts
  <2>6. SalesRun(r)'
    BY <1>2, <1>4, <1>5, <1>7, <2>1, <2>2, <2>3, <2>4 DEF SalesRun, Fetched
  <2> QED BY <1>6, <1>7, <1>8, <2>1, <2>2, <2>5, <2>6
<1>15. CASE NothingWritten(r) \/ RunFails(r)
  <2>1. /\ run'[r].pc = "idle" /\ UNCHANGED <<cursor, held, sales>>
    BY <1>1, <1>15 DEF NothingWritten, RunFails, Idle, TypeOK
  <2>2. Active' = {}
    BY <1>2, <2>1 DEF Active
  <2>3. ASSUME NEW o \in Placed, Counts(o)' PROVE Counts(o)
    BY <1>4, <1>5, <2>1, <2>2, <2>3 DEF Counts, Known
  <2>4. SalesRun(r)'
    BY <2>1 DEF SalesRun, Planned, Fetched
  <2> QED BY <1>6, <1>7, <1>8, <2>1, <2>3, <2>4
<1>16. CASE FetchOrders(r)
  <2> DEFINE since == OrdersSince(run[r].start, run[r].rebuild, run[r].reconcile)
             store == run[r].store
             days == AffectedDays(Changed(store, since), SoldAt)
             rows == RowsFor(r, store, since)
  <2>1. /\ run'[r].pc \in {"advanceOrders", "delete"} /\ run'[r].todo = run[r].todo
        /\ run'[r].pc = "advanceOrders" => days = {}
        /\ run'[r].rebuild = run[r].rebuild /\ run'[r].reconcile = run[r].reconcile
        /\ run'[r].start = run[r].start /\ run'[r].seen = run[r].seen
        /\ run'[r].days = days /\ run'[r].rows = rows
        /\ UNCHANGED <<cursor, held, sales>> /\ run[r].pc = "fetchOrders"
    BY <1>1, <1>2, <1>16 DEF FetchOrders, TypeOK, Run
  <2>2. /\ SalesRun(r) /\ RunInv(r, "exact") /\ run[r].pc \in Fetched /\ r \in Active
        /\ store = conn.store
    BY <1>2, <1>3, <2>1 DEF StartRun, Fetched, Planned, Phases, RunInv
  <2>3. /\ run[r].start \in Times /\ run[r].rebuild \in BOOLEAN /\ run[r].reconcile \in BOOLEAN
        /\ since \in Int
    BY <1>1, OrdersWindow DEF Run
  <2>4. /\ run[r].rebuild <=> Rebuild
        /\ run[r].reconcile => ReconcileDue
    BY <2>2 DEF SalesRun, Fetched
  \* What it pulls by the cursor the next run would pull again; and it pulls
  \* what that would pull, unless a reconcile came due meanwhile.
  <2>5. ASSUME NEW o \in Placed
        PROVE  /\ ~LooksBack /\ order[o].changed >= since => PulledAgain(o)
               /\ PulledAgain(o) => order[o].changed >= since \/ DueSince(r)
    <3>1. CASE run[r].rebuild \/ run[r].reconcile \/ cursor["orders"] = Null
      <4>1. LooksBack
        BY <2>4, <3>1 DEF LooksBack
      <4>2. run[r].start <= clock
        BY <2>2 DEF RunInv
      <4>3. Recent(o) => order[o].changed >= since
        BY <1>1, <2>3, <3>1, <4>2, RecentIsPulled
      <4>4. /\ ~Rebuild /\ cursor["orders"] # Null
            /\ order[o].changed >= WindowFromCursor(cursor["orders"], Overlap)
            => order[o].changed >= since
        <5> SUFFICES ASSUME ~Rebuild, cursor["orders"] # Null,
                            order[o].changed >= WindowFromCursor(cursor["orders"], Overlap)
                     PROVE  order[o].changed >= since
          OBVIOUS
        <5>1. run[r].rebuild = FALSE
          BY <2>3, <2>4
        <5> QED BY <1>1, <2>3, <5>1, CursorIsPulled
      <4> HIDE DEF since
      <4> QED BY <4>1, <4>3, <4>4 DEF PulledAgain
    <3>2. CASE ~run[r].rebuild /\ ~run[r].reconcile /\ cursor["orders"] # Null
      <4>1. run[r].rebuild = FALSE /\ run[r].reconcile = FALSE
        BY <2>3, <3>2
      <4>2. since = WindowFromCursor(cursor["orders"], Overlap)
        BY <1>1, <2>3, <3>2, <4>1, CursorIsPulled
      <4> HIDE DEF since
      <4> QED BY <2>4, <3>2, <4>2 DEF PulledAgain, LooksBack, DueSince
    <3> QED BY <3>1, <3>2
  <2>6. ASSUME NEW o \in Placed, Mine(o), order[o].changed >= since PROVE DayOf(o) \in days
    <3>1. o \in Changed(store, since)
      BY <2>2, <2>6 DEF Changed, OrdersOf, Mine
    <3>2. SoldAt[o] = order[o].sold
      BY DEF SoldAt
    <3> QED BY <3>1, <3>2 DEF AffectedDays, DayOf
  <2>7. ASSUME NEW o \in Placed, Mine(o), Recent(o), DayOf(o) \in days
        PROVE  RebuiltAgain(DayOf(o))
    <3>1. CASE LooksBack
      BY <2>7, <3>1 DEF RebuiltAgain, PulledAgain
    <3>2. CASE ~LooksBack
      <4>1. PICK p \in Changed(store, since) : DayOf(o) = TenantDay(SoldAt[p])
        BY <2>7 DEF AffectedDays
      <4>2. p \in Placed /\ Mine(p) /\ order[p].changed >= since
        BY <2>2, <4>1 DEF Changed, OrdersOf, Mine
      <4>3. DayOf(p) = DayOf(o)
        BY <4>1, <4>2 DEF SoldAt, DayOf
      <4> HIDE DEF since
      <4> QED BY <2>5, <3>2, <4>2, <4>3 DEF RebuiltAgain
    <3> QED BY <3>1, <3>2
  <2>8. ASSUME NEW o \in Placed, Before(r, o), DayOf(o) \in days
        PROVE  /\ \E row \in rows : row.order = o
               /\ \A row \in rows : row.order = o => row.version = order[o].changed
    <3> DEFINE placed == OrdersOf(store)
               soldAt == [p \in placed |-> order[p].sold]
               changedAt == [p \in placed |-> order[p].changed]
    <3>1. \A p \in placed : p \in Placed
      BY DEF OrdersOf
    <3>2. ASSUME NEW p \in placed
          PROVE  /\ order[p].sold \in Int /\ order[p].changed \in Int
                 /\ order[p].sold <= order[p].changed
      BY <1>1, <3>1, PlacedOrder, SyncAssumption DEF SalesInv, OrderDates, Times
    <3>3. /\ soldAt \in [placed -> Int] /\ changedAt \in [placed -> Int]
          /\ \A p \in placed : soldAt[p] <= changedAt[p]
      BY <3>2
    <3>4. Changed(store, since) = {p \in placed : changedAt[p] >= since}
      BY DEF Changed
    <3>5. \A p \in placed : SoldAt[p] = soldAt[p]
      BY <3>1 DEF SoldAt
    <3>6. AffectedDays(Changed(store, since), SoldAt) = AffectedDays(Changed(store, since), soldAt)
      BY <3>4, <3>5 DEF AffectedDays
    <3>7. CollectedOrders(Changed(store, since), placed, SoldAt, since)
            = CollectedOrders(Changed(store, since), placed, soldAt, since)
      BY <3>4, <3>5, <3>6 DEF CollectedOrders
    <3>8. o \in placed /\ TenantDay(soldAt[o]) \in AffectedDays(Changed(store, since), soldAt)
      BY <2>2, <2>8, <3>6 DEF OrdersOf, Before, Mine, DayOf
    <3> HIDE DEF placed, soldAt, changedAt, since
    <3>9. o \in CollectedOrders(Changed(store, since), placed, soldAt, since)
      BY <2>3, <3>3, <3>4, <3>8, RebuiltDayIsWhole
    <3>10. o \in {p \in CollectedOrders(Changed(store, since), OrdersOf(store), SoldAt, since) :
                    held[ProductOf[p]].version # Null}
      BY <2>8, <3>7, <3>9 DEF placed, Before, Known
    <3>11. [order |-> o, version |-> order[o].changed, by |-> r] \in rows
      BY <3>10 DEF RowsFor
    <3>12. \A row \in rows : row.order = o => row.version = order[o].changed
      BY DEF RowsFor
    <3> QED BY <3>11, <3>12
  <2>9. ASSUME NEW o \in Placed, Before(r, o), DayOf(o) \notin days
        PROVE  Recorded(o) \/ DueSince(r)
    <3>1. Recorded(o) \/ RebuiltAgain(DayOf(o))
      BY <2>9 DEF SalesInv, NoSaleLost, Counts, Before
    <3> HIDE DEF days, since
    <3> QED BY <2>5, <2>6, <2>9, <3>1 DEF RebuiltAgain
  <2> HIDE DEF since, days, rows
  <2>10. \A o \in Placed : /\ Known(o)' <=> Known(o)
                           /\ Before(r, o)' <=> Before(r, o)
                           /\ Recorded(o)' <=> Recorded(o)
    BY <1>2, <1>4, <2>1 DEF Known, Before, Recorded
  <2>11. DueSince(r)' <=> DueSince(r)
    BY <1>7, <2>1 DEF DueSince
  <2>12. ASSUME NEW o \in Placed, Counts(o)' PROVE Counts(o)
    BY <1>2, <1>4, <1>5, <2>1, <2>2, <2>10, <2>12 DEF Counts
  <2>13. SalesRun(r)'
    <3>1. run'[r].pc = "delete" => RowsOf(r)' = rows
      BY <2>1 DEF RowsOf
    <3>2. /\ run'[r].rebuild <=> Rebuild'
          /\ run'[r].reconcile => ReconcileDue'
          /\ AtMost(cursor'["orders"], run'[r].start)
      BY <1>7, <2>1, <2>2 DEF SalesRun, Fetched
    <3>3. /\ \A x \in run'[r].todo : run'[r].seen[x] # Null
          /\ \A o \in Placed' : /\ Mine(o)' /\ ~Known(o)' /\ OnSale(ProductOf[o])'
                                /\ ProductOf[o] \notin run'[r].todo
                                => order'[o].changed >= run'[r].start
      BY <1>2, <1>4, <1>5, <2>1, <2>2, <2>10 DEF SalesRun
    <3>4. CASE run'[r].pc = "delete"
      <4>1. ASSUME NEW o \in Placed', Mine(o)', Recent(o)', DayOf(o)' \in run'[r].days
            PROVE  RebuiltAgain(DayOf(o))'
        BY <1>4, <1>7, <2>1, <2>7, <4>1
      <4>2. ASSUME NEW o \in Placed', Before(r, o)', DayOf(o)' \in run'[r].days
            PROVE  /\ \E row \in RowsOf(r)' : row.order = o
                   /\ \A row \in RowsOf(r)' : row.order = o => row.version = order'[o].changed
        BY <1>2, <1>4, <2>1, <2>8, <2>10, <3>1, <3>4, <4>2
      <4>3. ASSUME NEW o \in Placed', Before(r, o)', DayOf(o)' \notin run'[r].days
            PROVE  Recorded(o)' \/ DueSince(r)'
        BY <1>4, <2>1, <2>9, <2>10, <2>11, <4>3
      <4> QED BY <3>2, <3>3, <3>4, <4>1, <4>2, <4>3 DEF SalesRun
    <3>5. CASE run'[r].pc = "advanceOrders"
      <4>1. ASSUME NEW o \in Placed', Before(r, o)' PROVE Recorded(o)' \/ DueSince(r)'
        BY <1>4, <2>1, <2>9, <2>10, <2>11, <3>5, <4>1
      <4> QED BY <3>2, <3>3, <3>5, <4>1 DEF SalesRun
    <3> QED BY <2>1, <3>4, <3>5
  <2> QED BY <1>6, <1>7, <1>8, <2>1, <2>12, <2>13
\* While the days are rebuilt, the rows of an order of another day stay, and
\* those of an order of these days are what is to be inserted.
<1>17. CASE DeleteDays(r) \/ \E chunk \in SUBSET run[r].rows : CreateRows(r, chunk)
  <2>1. /\ run[r].pc \in {"delete", "create"} /\ run'[r].pc = "create"
        /\ run'[r].todo = run[r].todo /\ run'[r].seen = run[r].seen
        /\ run'[r].rebuild = run[r].rebuild /\ run'[r].reconcile = run[r].reconcile
        /\ run'[r].start = run[r].start /\ run'[r].days = run[r].days
        /\ UNCHANGED <<cursor, held>>
    <3>1. CASE DeleteDays(r)
      BY <1>1, <1>2, <3>1 DEF DeleteDays, To, TypeOK, Run
    <3>2. ASSUME NEW chunk, CreateRows(r, chunk)
          PROVE  /\ run[r].pc = "create" /\ run'[r] = [run[r] EXCEPT !.rows = @ \ chunk]
                 /\ UNCHANGED <<cursor, held>>
      BY <1>1, <3>2 DEF CreateRows, TypeOK
    <3>3. CASE \E chunk \in SUBSET run[r].rows : CreateRows(r, chunk)
      BY <1>1, <3>2, <3>3 DEF Run
    <3> QED BY <1>17, <3>1, <3>3
  <2>2. /\ SalesRun(r) /\ run[r].pc \in Fetched /\ r \in Active /\ RowsInv(r)
    BY <1>2, <1>3, <2>1 DEF StartRun, Fetched, Planned, Phases
  <2>3. /\ \A row \in sales : DayOfRow(row) \notin run[r].days => row \in sales'
        /\ \A row \in sales' : row \notin sales => DayOfRow(row) \in run[r].days
        /\ \A row \in sales' : DayOfRow(row) \in run[r].days => row \in RowsOf(r)
        /\ \A row \in RowsOf(r) : DayOfRow(row) \in run[r].days => row \in RowsOf(r)'
        /\ \A row \in RowsOf(r)' : DayOfRow(row) \in run[r].days => row \in RowsOf(r)
    <3>1. CASE DeleteDays(r)
      <4>1. /\ run[r].pc = "delete" /\ run'[r].rows = run[r].rows
            /\ sales' = {row \in sales : DayOfRow(row) \notin run[r].days}
        BY <1>1, <3>1 DEF DeleteDays, RowsOutside, To, TypeOK, Run
      <4> QED BY <2>1, <4>1 DEF RowsOf
    <3>2. ASSUME NEW chunk \in SUBSET run[r].rows, CreateRows(r, chunk)
          PROVE  /\ run[r].pc = "create" /\ run'[r].rows = run[r].rows \ chunk
                 /\ sales' = sales \cup chunk
                 /\ \A row \in chunk : DayOfRow(row) \in run[r].days
      BY <1>1, <2>2, <3>2 DEF CreateRows, TypeOK, Run, RowsInv
    <3>3. CASE \E chunk \in SUBSET run[r].rows : CreateRows(r, chunk)
      BY <2>1, <3>2, <3>3 DEF RowsOf
    <3> QED BY <1>17, <3>1, <3>3
  <2>4. ASSUME NEW o \in Placed, NEW row, row.order = o PROVE DayOfRow(row) = DayOf(o)
    BY <2>4 DEF DayOf, DayOfRow
  <2>5. ASSUME NEW o \in Placed, DayOf(o) \notin run[r].days, Recorded(o) PROVE Recorded(o)'
    BY <1>2, <2>3, <2>4, <2>5 DEF Recorded
  <2>6. ASSUME NEW o \in Placed PROVE (Known(o)' <=> Known(o)) /\ (Before(r, o)' <=> Before(r, o))
    BY <1>2, <1>4, <2>1 DEF Known, Before
  <2>7. \A o \in Placed : Mine(o) /\ Recent(o) /\ DayOf(o) \in run[r].days =>
          RebuiltAgain(DayOf(o))
    BY <2>1, <2>2 DEF SalesRun
  <2>8. NoSaleLost'
    <3> SUFFICES ASSUME NEW o \in Placed, Counts(o)'
                 PROVE  (Recorded(o) \/ RebuiltAgain(DayOf(o)))'
      BY <1>4 DEF NoSaleLost
    <3>1. Counts(o)
      BY <1>2, <1>4, <1>5, <2>1, <2>2, <2>6 DEF Counts
    <3>2. Recorded(o) \/ RebuiltAgain(DayOf(o))
      BY <3>1 DEF SalesInv, NoSaleLost
    <3> QED BY <1>4, <1>7, <2>1, <2>5, <2>7, <3>1, <3>2 DEF Counts
  <2>9. SalesRun(r)'
    <3>1. DueSince(r)' <=> DueSince(r)
      BY <1>7, <2>1 DEF DueSince
    <3>2. /\ run'[r].rebuild <=> Rebuild'
          /\ run'[r].reconcile => ReconcileDue'
          /\ AtMost(cursor'["orders"], run'[r].start)
      BY <1>7, <2>1, <2>2 DEF SalesRun, Fetched
    <3>3. /\ \A x \in run'[r].todo : run'[r].seen[x] # Null
          /\ \A o \in Placed' : /\ Mine(o)' /\ ~Known(o)' /\ OnSale(ProductOf[o])'
                                /\ ProductOf[o] \notin run'[r].todo
                                => order'[o].changed >= run'[r].start
      BY <1>2, <1>4, <1>5, <2>1, <2>2, <2>6 DEF SalesRun
    <3>4. ASSUME NEW o \in Placed', Mine(o)', Recent(o)', DayOf(o)' \in run'[r].days
          PROVE  RebuiltAgain(DayOf(o))'
      BY <1>4, <1>7, <2>1, <2>7, <3>4
    <3>5. ASSUME NEW o \in Placed', Before(r, o)', DayOf(o)' \in run'[r].days
          PROVE  /\ \E row \in RowsOf(r)' : row.order = o
                 /\ \A row \in RowsOf(r)' : row.order = o => row.version = order'[o].changed
      <4>1. /\ \E row \in RowsOf(r) : row.order = o
            /\ \A row \in RowsOf(r) : row.order = o => row.version = order[o].changed
        BY <1>4, <2>1, <2>2, <2>6, <3>5 DEF SalesRun
      <4> QED BY <1>2, <1>4, <2>1, <2>3, <2>4, <3>5, <4>1
    <3>6. ASSUME NEW o \in Placed', Before(r, o)', DayOf(o)' \notin run'[r].days
          PROVE  Recorded(o)' \/ DueSince(r)'
      BY <1>4, <2>1, <2>2, <2>5, <2>6, <3>1, <3>6 DEF SalesRun
    <3> QED BY <2>1, <3>2, <3>3, <3>4, <3>5, <3>6 DEF SalesRun
  <2> QED BY <1>6, <1>7, <2>1, <2>8, <2>9
<1>18. CASE RowsCreated(r)
  <2>1. /\ run[r].pc = "create" /\ run[r].rows = {} /\ run'[r].pc = "advanceOrders"
        /\ run'[r].todo = run[r].todo /\ run'[r].seen = run[r].seen
        /\ run'[r].rebuild = run[r].rebuild /\ run'[r].reconcile = run[r].reconcile
        /\ run'[r].start = run[r].start
        /\ UNCHANGED <<cursor, held, sales>>
    BY <1>1, <1>2, <1>18 DEF RowsCreated, To, TypeOK, Run
  <2>2. /\ SalesRun(r) /\ run[r].pc \in Fetched /\ r \in Active
    BY <1>2, <1>3, <2>1 DEF StartRun, Fetched, Planned, Phases
  <2>3. ASSUME NEW o \in Placed
        PROVE  /\ Known(o)' <=> Known(o)
               /\ Before(r, o)' <=> Before(r, o)
               /\ Recorded(o)' <=> Recorded(o)
    BY <1>2, <1>4, <2>1 DEF Known, Before, Recorded
  <2>4. ASSUME NEW o \in Placed, Counts(o)' PROVE Counts(o)
    BY <1>2, <1>4, <1>5, <2>1, <2>2, <2>3, <2>4 DEF Counts
  <2>5. ASSUME NEW o \in Placed, Before(r, o) PROVE Recorded(o) \/ DueSince(r)
    <3>1. RowsOf(r) = sales
      BY <2>1 DEF RowsOf
    <3> QED BY <2>1, <2>2, <2>5, <3>1 DEF SalesRun, Recorded
  <2>6. SalesRun(r)'
    <3>1. DueSince(r)' <=> DueSince(r)
      BY <1>7, <2>1 DEF DueSince
    <3>2. /\ run'[r].rebuild <=> Rebuild'
          /\ run'[r].reconcile => ReconcileDue'
          /\ AtMost(cursor'["orders"], run'[r].start)
      BY <1>7, <2>1, <2>2 DEF SalesRun, Fetched
    <3>3. /\ \A x \in run'[r].todo : run'[r].seen[x] # Null
          /\ \A o \in Placed' : /\ Mine(o)' /\ ~Known(o)' /\ OnSale(ProductOf[o])'
                                /\ ProductOf[o] \notin run'[r].todo
                                => order'[o].changed >= run'[r].start
      BY <1>2, <1>4, <1>5, <2>1, <2>2, <2>3 DEF SalesRun
    <3>4. ASSUME NEW o \in Placed', Before(r, o)' PROVE Recorded(o)' \/ DueSince(r)'
      BY <1>4, <2>3, <2>5, <3>1, <3>4
    <3> QED BY <2>1, <3>2, <3>3, <3>4 DEF SalesRun
  <2> QED BY <1>6, <1>7, <1>8, <2>1, <2>4, <2>6
\* The cursor moves to the start of the run.
<1>19. CASE AdvanceOrders(r)
  <2>1. /\ run[r].pc = "advanceOrders" /\ run'[r].pc = "markers"
        /\ run'[r].todo = run[r].todo /\ run'[r].seen = run[r].seen
        /\ run'[r].rebuild = run[r].rebuild /\ run'[r].reconcile = run[r].reconcile
        /\ run'[r].start = run[r].start
        /\ cursor'["orders"] = run[r].start /\ cursor'["logic"] = cursor["logic"]
        /\ cursor'["reconcile"] = cursor["reconcile"]
        /\ UNCHANGED <<held, sales>>
    BY <1>1, <1>2, <1>19 DEF AdvanceOrders, CursorValue, To, TypeOK, Run, Resources
  <2>2. /\ SalesRun(r) /\ RunInv(r, "exact") /\ run[r].pc \in Fetched /\ r \in Active
        /\ ~StartRun(r)
    BY <1>2, <1>3, <2>1 DEF StartRun, Fetched, Planned, Phases
  <2>3. Rebuild' = Rebuild /\ ReconcileDue' = ReconcileDue
    BY <1>2, <2>1 DEF Rebuild, ReconcileDue
  <2>4. ASSUME NEW o \in Placed
        PROVE  /\ Known(o)' <=> Known(o)
               /\ Before(r, o)' <=> Before(r, o)
               /\ Recorded(o)' <=> Recorded(o)
    BY <1>2, <1>4, <2>1 DEF Known, Before, Recorded
  <2>5. ASSUME NEW o \in Placed, Counts(o)' PROVE Counts(o)
    BY <1>2, <1>4, <1>5, <2>1, <2>2, <2>4, <2>5 DEF Counts
  <2>6. run[r].start \in Times /\ run[r].start <= run[r].start /\ run[r].start <= clock
    BY <1>1, <2>2, SyncAssumption DEF Run, RunInv, Times
  <2>7. ASSUME NEW o \in Placed, Recent(o), order[o].changed >= run[r].start PROVE PulledAgain(o)'
    <3>1. run[r].start <= order[o].changed
      BY <1>5, <2>7, SyncAssumption DEF Times
    <3>2. cursor'["orders"] = Null \/ order[o].changed >= WindowFromCursor(cursor'["orders"], Overlap)
      BY <1>5, <2>1, <2>6, <3>1, CursorPulls
    <3> QED BY <1>2, <1>4, <2>7, <3>2 DEF PulledAgain, LooksBack
  <2>8. NoSaleLost'
    <3> SUFFICES ASSUME NEW o \in Placed, Counts(o)'
                 PROVE  (Recorded(o) \/ RebuiltAgain(DayOf(o)))'
      BY <1>4 DEF NoSaleLost
    <3>1. Recorded(o) \/ DueSince(r) \/ order[o].changed >= run[r].start
      BY <1>9, <2>1, <2>2, <2>5
    <3>2. DueSince(r) => PulledAgain(o)'
      BY <2>3 DEF DueSince, PulledAgain, LooksBack, Counts
    <3>3. o \in Placed' /\ Mine(o)' /\ Recent(o)
      BY <1>4 DEF Counts
    <3> QED BY <2>4, <2>7, <3>1, <3>2, <3>3 DEF RebuiltAgain
  <2>9. OrderDates'
    BY <1>2, <1>4, <2>1, <2>6 DEF SalesInv, OrderDates, AtMost
  <2>10. SalesRun(r)'
    <3>1. DueSince(r)' <=> DueSince(r)
      BY <2>1, <2>3 DEF DueSince
    <3>2. /\ run'[r].rebuild <=> Rebuild'
          /\ run'[r].reconcile => ReconcileDue'
          /\ AtMost(cursor'["orders"], run'[r].start)
      BY <2>1, <2>2, <2>3, <2>6 DEF SalesRun, Fetched, AtMost
    <3>3. /\ \A x \in run'[r].todo : run'[r].seen[x] # Null
          /\ \A o \in Placed' : /\ Mine(o)' /\ ~Known(o)' /\ OnSale(ProductOf[o])'
                                /\ ProductOf[o] \notin run'[r].todo
                                => order'[o].changed >= run'[r].start
      BY <1>2, <1>4, <1>5, <2>1, <2>2, <2>4 DEF SalesRun
    <3>4. ASSUME NEW o \in Placed', Before(r, o)' PROVE Recorded(o)' \/ DueSince(r)'
      BY <1>4, <2>1, <2>2, <2>4, <3>1, <3>4 DEF SalesRun
    <3> QED BY <2>1, <3>2, <3>3, <3>4 DEF SalesRun
  <2> QED BY <1>6, <2>8, <2>9, <2>10
\* The markers are set, and the run is over.
<1>20. CASE SetMarkers(r)
  <2>1. /\ run[r].pc = "markers" /\ run'[r].pc = "idle"
        /\ cursor'["orders"] = cursor["orders"]
        /\ ~run[r].rebuild /\ ~run[r].reconcile =>
             /\ cursor'["logic"] = cursor["logic"]
             /\ cursor'["reconcile"] = cursor["reconcile"]
        /\ UNCHANGED <<held, sales>>
    BY <1>1, <1>20 DEF SetMarkers, Idle, TypeOK, Resources
  <2>2. /\ SalesRun(r) /\ ~StartRun(r) /\ run[r].pc \in Planned
    BY <1>3, <2>1 DEF StartRun, Planned, Phases
  <2>3. Active' = {}
    BY <1>2, <2>1 DEF Active
  <2>4. ASSUME NEW o \in Placed, Counts(o)' PROVE Counts(o)
    BY <1>2, <1>4, <1>5, <2>1, <2>3, <2>4 DEF Counts, Known
  <2>5. ASSUME NEW o \in Placed, Recent(o), order[o].changed >= run[r].start PROVE PulledAgain(o)'
    <3>1. cursor["orders"] \in Times \cup {Null}
      BY <1>1 DEF TypeOK, Resources
    <3>2. cursor["orders"] # Null => cursor["orders"] <= order[o].changed
      BY <1>5, <2>2, <2>5, <3>1, SyncAssumption DEF SalesRun, AtMost, Times
    <3>3. cursor["orders"] = Null \/ order[o].changed >= WindowFromCursor(cursor["orders"], Overlap)
      BY <1>5, <3>1, <3>2, CursorPulls
    <3> QED BY <1>2, <1>4, <2>1, <2>5, <3>3 DEF PulledAgain, LooksBack
  <2>6. NoSaleLost'
    <3> SUFFICES ASSUME NEW o \in Placed, Counts(o)'
                 PROVE  (Recorded(o) \/ RebuiltAgain(DayOf(o)))'
      BY <1>4 DEF NoSaleLost
    <3>1. Recorded(o) \/ DueSince(r) \/ order[o].changed >= run[r].start
      BY <1>9, <2>1, <2>2, <2>4
    <3>2. DueSince(r) => PulledAgain(o)'
      BY <1>2, <2>1 DEF DueSince, PulledAgain, LooksBack, ReconcileDue, Rebuild, Counts
    <3>3. o \in Placed' /\ Mine(o)' /\ Recent(o) /\ (Recorded(o)' <=> Recorded(o))
      BY <1>2, <1>4, <2>1 DEF Counts, Recorded
    <3> QED BY <2>5, <3>1, <3>2, <3>3 DEF RebuiltAgain
  <2>7. OrderDates'
    BY <1>2, <1>4, <2>1 DEF SalesInv, OrderDates, AtMost
  <2>8. SalesRun(r)'
    BY <2>1 DEF SalesRun, Planned, Fetched
  <2> QED BY <1>6, <2>6, <2>7, <2>8
<1> QED BY <1>10, <1>11, <1>12, <1>13, <1>14, <1>15, <1>16, <1>17, <1>18, <1>19, <1>20 DEF RunStep

\* No recent sale is lost, for all stores, time zones, windows, look-backs and
\* sale dates, however often runs fail half-way: an order of the connected store
\* that changed within both look-backs is in the history as it is now, or its day
\* is going to be rebuilt.  One run works at a time, connections change between
\* runs, and every record can be written.
THEOREM NoSaleIsLost ==
    ASSUME Quiet, "recordFails" \notin Enabled
    PROVE  Spec => []RecentSalesComplete
<1>1. Init => SalesInv
  <2> SUFFICES ASSUME Init PROVE SalesInv
    OBVIOUS
  <2>1. Active = {} /\ Placed = {} /\ sales = {} /\ cursor["orders"] = Null
    BY DEF Init, Active, Idle, Placed, NotPlaced, NoCursors, Resources
  <2>2. SyncInv("exact")
    BY SyncInit DEF Dues
  <2> QED BY <2>1, <2>2 DEF SalesInv, CountInv, SyncInv, OneRun, NoDoubleCount, OrderDates,
                            NoSaleLost, AtMost
<1>2. SalesInv /\ [Next]_vars => SalesInv'
  <2> SUFFICES ASSUME SalesInv, [Next]_vars PROVE SalesInv'
    OBVIOUS
  <2>1. SyncInv("exact")'
    BY SyncStep DEF Dues, SalesInv
  <2>2. CountInv'
    <3>1. "stall" \notin Enabled
      BY DEF Quiet
    <3> QED BY <3>1, CountRun, CountOthers DEF Next, SalesInv
  <2>3. CASE UNCHANGED vars
    <3>1. OrderDates'
      BY <2>3 DEF vars, SalesInv, OrderDates, AtMost, Placed
    <3>2. Active' = Active /\ Placed' = Placed /\ sales' = sales /\ run' = run
      BY <2>3 DEF vars, Active, Placed
    <3>3. /\ \A o \in Placed : /\ (Recorded(o) <=> Recorded(o)') /\ (Counts(o) <=> Counts(o)')
                               /\ (Mine(o) <=> Mine(o)') /\ (Known(o) <=> Known(o)')
                               /\ (Recent(o) <=> Recent(o)')
                               /\ DayOf(o)' = DayOf(o) /\ order' = order
                               /\ (OnSale(ProductOf[o]) <=> OnSale(ProductOf[o])')
      BY <2>3, <3>2 DEF vars, Recorded, Counts, Mine, Known, Recent, DayOf, OnSale
    <3>4. \A d : RebuiltAgain(d) <=> RebuiltAgain(d)'
      BY <2>3, <3>2 DEF vars, RebuiltAgain, PulledAgain, LooksBack, Rebuild, ReconcileDue, Mine,
         DayOf, Recent
    <3>5. NoSaleLost'
      BY <3>2, <3>3, <3>4 DEF SalesInv, NoSaleLost
    <3>6. ASSUME NEW r \in Active PROVE SalesRun(r)'
      <4>1. SalesRun(r)
        BY <3>6 DEF SalesInv
      <4>2. /\ Rebuild' = Rebuild /\ ReconcileDue' = ReconcileDue /\ DueSince(r)' = DueSince(r)
            /\ AtMost(cursor["orders"], run[r].start)' = AtMost(cursor["orders"], run[r].start)
            /\ RowsOf(r)' = RowsOf(r)
        BY <2>3 DEF vars, Rebuild, ReconcileDue, DueSince, AtMost, RowsOf
      <4>3. \A o \in Placed : Before(r, o) <=> Before(r, o)'
        BY <2>3, <3>3 DEF vars, Before
      <4> QED BY <3>2, <3>3, <3>4, <4>1, <4>2, <4>3 DEF SalesRun
    <3>7. \A r \in Active' : SalesRun(r)'
      BY <3>2, <3>6
    <3> QED BY <2>1, <2>2, <3>1, <3>5, <3>7 DEF SalesInv
  <2>4. ASSUME NEW r \in Runners, NEW x \in Products PROVE ~WriteProductFails(r, x)
    BY DEF WriteProductFails
  <2> QED BY <2>1, <2>2, <2>3, <2>4, SalesStore, SalesOwner, SalesOfRun DEF Next
<1>3. SalesInv => RecentSalesComplete
  BY SalesCompleteHolds DEF SalesInv, SyncInv
<1> QED BY <1>1, <1>2, <1>3, PTL DEF Spec

\* And no sale at all is, when nothing is older than what a first run and a
\* reconcile look back on.
THEOREM NoSaleIsEverLost ==
    ASSUME Quiet, Reaches, "recordFails" \notin Enabled
    PROVE  Spec => []SalesComplete
<1>1. TypeOK /\ RecentSalesComplete => SalesComplete
  <2> SUFFICES ASSUME TypeOK, NEW o \in Placed PROVE Recent(o)
    BY DEF RecentSalesComplete, SalesComplete
  <2>1. order[o].changed \in Nat /\ clock \in Nat /\ clock <= MaxClock
    BY PlacedOrder, SyncAssumption DEF TypeOK, Times
  <2> QED BY <2>1, SyncAssumption DEF Recent, Reaches
<1>2. Spec => []TypeOK /\ []RecentSalesComplete
  BY TypesHold, NoSaleIsLost
<1> QED BY <1>1, <1>2, PTL
=============================================================================
