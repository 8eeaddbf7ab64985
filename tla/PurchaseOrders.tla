-------------------------- MODULE PurchaseOrders --------------------------
(***************************************************************************)
(* Purchase orders and the order queue of one workspace (tenant):          *)
(* apps/web/lib/po/*, removeQueuedOrder of lib/data/orders.ts and          *)
(* createOrdersForPredictions of lib/data/plan.ts.                         *)
(*                                                                         *)
(* Every operation is a web request.  Requests run concurrently against a  *)
(* READ COMMITTED database, so an operation is split where another request *)
(* can get in between: what it READS (kept in its job), and the step that  *)
(* COMMITS what it writes.  A write guarded by a WHERE (updateMany) looks  *)
(* at the rows as they are when it commits; a write by id does not look.   *)
(* A transaction's advisory lock is held from its reading step to its      *)
(* commit, and so is not a variable: a lock is taken when some job is      *)
(* between the two (ReceiveLockFree, NumberLockFree).                      *)
(*                                                                         *)
(* Quantities are kept per product: buildPoLines gives a purchase order at *)
(* most one line per product, and quantity 0 stands for "no such line".    *)
(* The list of a receipt or a reversal is kept as its TOTAL per line: every *)
(* entry is checked against the line as first read, the writes then run    *)
(* through the list and add up, and what they leave (the received quantity, *)
(* the lines that became or ceased to be full, the stock) depends on the   *)
(* totals alone, as the running quantity of a line moves one way only.     *)
(* subtotalKes is represented by the quantities it was summed over.        *)
(* Timestamps, names, currency, audit events, Order.stockAtOrder and the   *)
(* rollup Product.currentStock are left out.                               *)
(***************************************************************************)
EXTENDS Integers, FiniteSets, FiniteSetsExt, Functions

CONSTANTS
    Requests,        \* the web requests that can be in flight at once
    Products,
    Suppliers,
    SupplierOf,      \* Product.supplierId
    Moq,             \* Supplier.moq, the same for all suppliers
    PoIds,           \* ids of purchase orders, used or still unused
    OrderIds,        \* ids of queue rows (model Order), used or still unused
    Locations,
    StoreLocations,  \* the locations with a shopifyLocationId
    NumberFloor,     \* Tenant.poNumberFloor
    MaxNumber,       \* bound: the largest purchase-order number
    MaxQty,          \* bound: the largest quantity a user or a plan states
    MaxNamed,        \* bound: how often one list of entries names a line
    StartQueue,      \* the queue at the start: [OrderIds -> product or Null]
    Enabled,         \* the operations users call, and whether email can fail
    Null

Operations == {"queue", "unqueue", "create", "manual", "send", "emailFails",
               "cancel", "receive", "unreceive", "edit", "remove"}

ASSUME ConstantsAssumption ==
    /\ SupplierOf \in [Products -> Suppliers]
    /\ Moq \in Nat
    /\ StoreLocations \subseteq Locations
    /\ NumberFloor \in Nat
    /\ MaxNumber \in Nat
    /\ MaxQty \in Nat \ {0}
    /\ MaxNamed \in Nat \ {0}
    /\ StartQueue \in [OrderIds -> Products \cup {Null}]
    /\ Enabled \subseteq Operations
    /\ Null \notin PoIds \cup Products \cup Locations \cup Int

VARIABLES
    orders,   \* the queue rows
    pos,      \* the purchase orders
    level,    \* sellable units per location and product, Null: no level row
    job,      \* what each request is doing, and what it has read
    mail      \* the supplier's side: what reached it for each purchase order

vars == <<orders, pos, level, job, mail>>

Quantities == [Products -> 0..MaxQty]
Totals == [Products -> 0..MaxNamed * MaxQty]  \* a list of entries, per line
NoLines == [x \in Products |-> 0]
Only(x, q) == [NoLines EXCEPT ![x] = q]

\* A status "free" id has not been created yet; "deleted" ids are never reused.
OrderRow == [status  : {"free", "pending", "ordered", "completed", "deleted"},
             product : Products \cup {Null},
             po      : PoIds \cup {Null},
             qty     : 0..MaxQty,
             origin  : {"plan", "manual"}]  \* "plan": predictionId is set

PurchaseOrder == [status   : {"free", "draft", "sent", "partially_received",
                              "received", "cancelled"},
                  number   : 0..MaxNumber,
                  qty      : Quantities,  \* line.quantity
                  rcvd     : [Products -> Int],  \* line.receivedQty
                  subtotal : Quantities]

Steps == {"idle", "queue", "createWait", "create", "manualWait", "manual",
          "send", "emailing", "rollback", "cancel", "receive", "unreceive",
          "edit", "remove"}

Job == [pc     : Steps,
        po     : PoIds \cup {Null},
        rows   : SUBSET OrderIds,
        qty    : Quantities,         \* line quantities read, or planned
        rcvd   : [Products -> Int],  \* received quantities read
        entry  : [Products -> Nat],  \* quantities the user typed
        line   : Products \cup {Null},
        loc    : Locations \cup {Null},
        number : 0..MaxNumber]

Idle == [pc |-> "idle", po |-> Null, rows |-> {}, qty |-> NoLines,
         rcvd |-> NoLines, entry |-> NoLines, line |-> Null, loc |-> Null,
         number |-> 0]

FreeOrder == [status |-> "free", product |-> Null, po |-> Null, qty |-> 0,
              origin |-> "manual"]

PlannedRow(x, q) == [status |-> "pending", product |-> x, po |-> Null,
                     qty |-> q, origin |-> "plan"]

FreePo == [status |-> "free", number |-> 0, qty |-> NoLines,
           rcvd |-> NoLines, subtotal |-> NoLines]

Init ==
    /\ orders = [o \in OrderIds |->
                   IF StartQueue[o] = Null THEN FreeOrder
                   ELSE PlannedRow(StartQueue[o], 1)]
    /\ pos = [p \in PoIds |-> FreePo]
    /\ level = [l \in Locations |-> [x \in Products |-> Null]]
    /\ job = [r \in Requests |-> Idle]
    /\ mail = [p \in PoIds |-> [accepted |-> 0, doc |-> NoLines]]

-----------------------------------------------------------------------------
(* Helpers.  A name with an underscore is a faulty variant of the          *)
(* definition that follows it: a bug the properties must tell from it.     *)

LinesOf(q) == {x \in Products : q[x] > 0}

Starts(r, j) == job[r] = Idle /\ job' = [job EXCEPT ![r] = j]
Finishes(r)  == job' = [job EXCEPT ![r] = Idle]

ReceiveLockFree_NoLock(p) == TRUE
\* The two advisory locks: "po-receive:<poId>" and "po-number:<tenantId>".
ReceiveLockFree(p) ==
    \A r \in Requests : job[r].po = p => job[r].pc \notin {"receive", "unreceive"}
NumberLockFree_NoLock == TRUE
NumberLockFree == \A r \in Requests : job[r].pc \notin {"create", "manual"}

StillDraft_NotInWhere(p) == pos[p].status # "free"
\* updateMany's WHERE status = "draft", evaluated on the row being written.
StillDraft(p) == pos[p].status = "draft"

\* nextPoNumber: one more than the largest number issued, or than the floor.
IsNextPoNumber(n) ==
    /\ n > NumberFloor
    /\ \A p \in PoIds : n > pos[p].number
    /\ n = NumberFloor + 1 \/ \E p \in PoIds : n = pos[p].number + 1

ApplyMoq(q) == LET least == IF Moq > 1 THEN Moq ELSE 1
               IN IF q < least THEN least ELSE q

\* buildPoLines: the rows of one product merge, then the MOQ floor applies.
MergedQty(rows, x) ==
    MapThenSumSet(LAMBDA o : orders[o].qty,
                  {o \in rows : orders[o].product = x})
BuildPoLines(rows) ==
    [x \in Products |-> IF \E o \in rows : orders[o].product = x
                        THEN ApplyMoq(MergedQty(rows, x)) ELSE 0]
ManualLines(items) ==
    [x \in Products |-> IF items[x] > 0 THEN ApplyMoq(items[x]) ELSE 0]

\* Queue rows of the purchase order p, with this status, for these products.
Linked(p, status, S) ==
    {o \in OrderIds : /\ orders[o].po = p
                      /\ orders[o].status = status
                      /\ orders[o].product \in S}

BackToQueue_StatusOnly(R) ==
    [o \in OrderIds |-> IF o \in R
       THEN [orders[o] EXCEPT !.status = "pending"] ELSE orders[o]]
BackToQueue(R) ==
    [o \in OrderIds |-> IF o \in R
       THEN [orders[o] EXCEPT !.status = "pending", !.po = Null] ELSE orders[o]]

WithStatus_Forgotten(R, s) == orders
WithStatus(R, s) ==
    [o \in OrderIds |-> IF o \in R THEN [orders[o] EXCEPT !.status = s]
                        ELSE orders[o]]

-----------------------------------------------------------------------------
(* The queue.                                                              *)

\* createOrdersForPredictions, one prediction: look for its pending row ...
QueueRead(r, x, q) ==
    /\ "queue" \in Enabled
    /\ LET found == {o \in OrderIds : /\ orders[o].status = "pending"
                                      /\ orders[o].origin = "plan"
                                      /\ orders[o].product = x}
       IN \E rows \in SUBSET found :
            /\ IF found = {} THEN rows = {} ELSE \E o \in found : rows = {o}
            /\ Starts(r, [Idle EXCEPT !.pc = "queue", !.rows = rows,
                            !.line = x, !.entry = Only(x, q)])
    /\ UNCHANGED <<orders, pos, level, mail>>

\* ... and update that row by id (gone: the transaction throws), or create one.
QueueCommit(r) ==
    /\ job[r].pc = "queue"
    /\ LET x == job[r].line
           q == job[r].entry[x]
       IN \/ \E o \in job[r].rows :
               orders' = IF orders[o].status = "deleted" THEN orders
                         ELSE [orders EXCEPT ![o].qty = q]
          \/ /\ job[r].rows = {}
             /\ \E o \in OrderIds :
                  /\ orders[o].status = "free"
                  /\ orders' = [orders EXCEPT ![o] = PlannedRow(x, q)]
    /\ Finishes(r)
    /\ UNCHANGED <<pos, level, mail>>

\* removeQueuedOrder: its guarded deleteMany decides, whatever was read before.
RemoveQueuedOrder(o) ==
    /\ "unqueue" \in Enabled
    /\ orders[o].status = "pending"
    /\ orders' = [orders EXCEPT ![o].status = "deleted"]
    /\ UNCHANGED <<pos, level, job, mail>>

-----------------------------------------------------------------------------
(* Creating a purchase order.                                              *)

\* createPoFromOrders reads the queue rows outside its transaction.
CreateRead(r, ids) ==
    /\ "create" \in Enabled
    /\ LET rows == {o \in ids : orders[o].status = "pending"}
       IN /\ rows # {}
          /\ \A a, b \in rows :
               SupplierOf[orders[a].product] = SupplierOf[orders[b].product]
          /\ \E q \in Quantities :
               /\ q = BuildPoLines(rows)
               /\ Starts(r, [Idle EXCEPT !.pc = "createWait", !.rows = rows,
                               !.qty = q])
    /\ UNCHANGED <<orders, pos, level, mail>>

\* Inside the transaction: the per-tenant lock, then max+1.
NumberUnderLock(r, from, to) ==
    /\ job[r].pc = from
    /\ NumberLockFree
    /\ \E n \in 1..MaxNumber :
         /\ IsNextPoNumber(n)
         /\ job' = [job EXCEPT ![r].pc = to, ![r].number = n]
    /\ UNCHANGED <<orders, pos, level, mail>>

CreateLock(r) == NumberUnderLock(r, "createWait", "create")

NewDraft_Unnumbered(r) ==
    [status |-> "draft", qty |-> job[r].qty, rcvd |-> NoLines,
     subtotal |-> job[r].qty]
NewDraft(r) ==
    [status |-> "draft", number |-> job[r].number, qty |-> job[r].qty,
     rcvd |-> NoLines, subtotal |-> job[r].qty]

\* The claim: every row must still be pending, else QueueClaimed rolls back.
CreateCommit(r) ==
    /\ job[r].pc = "create"
    /\ IF \A o \in job[r].rows : orders[o].status = "pending"
       THEN \E p \in PoIds :
              /\ pos[p].status = "free"
              /\ pos' = [pos EXCEPT ![p] = NewDraft(r)]
              /\ orders' = [o \in OrderIds |-> IF o \in job[r].rows
                   THEN [orders[o] EXCEPT !.status = "ordered", !.po = p]
                   ELSE orders[o]]
       ELSE UNCHANGED <<orders, pos>>
    /\ Finishes(r)
    /\ UNCHANGED <<level, mail>>

\* createManualPo: lines the user typed, all of one supplier's products.
ManualStart(r, items) ==
    /\ "manual" \in Enabled
    /\ items # NoLines
    /\ \A x, y \in LinesOf(items) : SupplierOf[x] = SupplierOf[y]
    /\ \E q \in Quantities :
         /\ q = ManualLines(items)
         /\ Starts(r, [Idle EXCEPT !.pc = "manualWait", !.qty = q])
    /\ UNCHANGED <<orders, pos, level, mail>>

ManualLock(r) == NumberUnderLock(r, "manualWait", "manual")

\* It also writes one "ordered" queue row per line.
ManualCommit(r) ==
    /\ job[r].pc = "manual"
    /\ \E p \in PoIds :
         /\ pos[p].status = "free"
         /\ pos' = [pos EXCEPT ![p] = NewDraft(r)]
         /\ \E ids \in SUBSET {o \in OrderIds : orders[o].status = "free"} :
            \E line \in Bijection(ids, LinesOf(job[r].qty)) :
              orders' = [o \in OrderIds |-> IF o \in ids
                THEN [status |-> "ordered", product |-> line[o], po |-> p,
                      qty |-> job[r].qty[line[o]], origin |-> "manual"]
                ELSE orders[o]]
    /\ Finishes(r)
    /\ UNCHANGED <<level, mail>>

-----------------------------------------------------------------------------
(* Sending, and cancelling.                                                *)

\* sendPoToSupplier reads the order and renders the document from what it read.
SendRead(r, p) ==
    /\ "send" \in Enabled
    /\ pos[p].status = "draft"
    /\ Starts(r, [Idle EXCEPT !.pc = "send", !.po = p, !.qty = pos[p].qty])
    /\ UNCHANGED <<orders, pos, level, mail>>

\* The claim: updateMany where status is draft; only the claimant goes on.
SendClaim(r) ==
    /\ job[r].pc = "send"
    /\ IF StillDraft(job[r].po)
       THEN /\ pos' = [pos EXCEPT ![job[r].po].status = "sent"]
            /\ job' = [job EXCEPT ![r].pc = "emailing"]
       ELSE Finishes(r) /\ UNCHANGED pos
    /\ UNCHANGED <<orders, level, mail>>

\* sendEmail returns (the ETA written to the queue rows next is left out).
EmailAccepted(r) ==
    /\ job[r].pc = "emailing"
    /\ mail' = [mail EXCEPT ![job[r].po] =
                  [accepted |-> @.accepted + 1, doc |-> job[r].qty]]
    /\ Finishes(r)
    /\ UNCHANGED <<orders, pos, level>>

\* sendEmail throws: the document may have been delivered all the same.
EmailThrows(r) ==
    /\ "emailFails" \in Enabled
    /\ job[r].pc = "emailing"
    /\ \E delivered \in BOOLEAN :
         mail' = IF delivered THEN [mail EXCEPT ![job[r].po].doc = job[r].qty]
                 ELSE mail
    /\ job' = [job EXCEPT ![r].pc = "rollback"]
    /\ UNCHANGED <<orders, pos, level>>

\* The catch block hands the claim back: updateMany where status is sent.
SendRollback(r) ==
    /\ job[r].pc = "rollback"
    /\ pos' = IF pos[job[r].po].status = "sent"
              THEN [pos EXCEPT ![job[r].po].status = "draft"] ELSE pos
    /\ Finishes(r)
    /\ UNCHANGED <<orders, level, mail>>

\* cancelPo checks the status it reads ...
CancelRead(r, p) ==
    /\ "cancel" \in Enabled
    /\ pos[p].status \in {"draft", "sent"}
    /\ Starts(r, [Idle EXCEPT !.pc = "cancel", !.po = p])
    /\ UNCHANGED <<orders, pos, level, mail>>

\* ... and then writes by id.
CancelCommit(r) ==
    /\ job[r].pc = "cancel"
    /\ orders' = BackToQueue(Linked(job[r].po, "ordered", Products))
    /\ pos' = [pos EXCEPT ![job[r].po].status = "cancelled"]
    /\ Finishes(r)
    /\ UNCHANGED <<level, mail>>

-----------------------------------------------------------------------------
(* Receiving, and reversing a receipt.  Both work on the lines they read   *)
(* under the lock, and write absolute received quantities.                 *)

MoveStock_FirstReceiptLost(l, entry) ==
    IF l \in StoreLocations THEN level
    ELSE [level EXCEPT ![l] = [x \in Products |->
            IF entry[x] = 0 THEN @[x]
            ELSE IF @[x] = Null THEN 0 ELSE @[x] + entry[x]]]

\* The stock statements: nothing where the store owns the shelf; else the
\* level row is created if need be, and onHand and available move together.
MoveStock(l, entry) ==
    IF l \in StoreLocations THEN level
    ELSE [level EXCEPT ![l] = [x \in Products |->
            IF entry[x] = 0 THEN @[x]
            ELSE IF @[x] = Null THEN entry[x] ELSE @[x] + entry[x]]]

\* The reversal updates a level only where there is one.
MoveStockBack(l, entry) ==
    IF l \in StoreLocations THEN level
    ELSE [level EXCEPT ![l] = [x \in Products |->
            IF entry[x] = 0 \/ @[x] = Null THEN @[x] ELSE @[x] - entry[x]]]

\* line.update throws when a line it names has been deleted: Abort.
LinesStillThere(r) ==
    \A x \in LinesOf(job[r].entry) : pos[job[r].po].qty[x] > 0

\* The received quantities the request computes for the lines it read.
RcvdAfterReceipt(r)  == [x \in Products |-> job[r].rcvd[x] + job[r].entry[x]]
RcvdAfterReversal(r) == [x \in Products |-> job[r].rcvd[x] - job[r].entry[x]]

\* Only the lines named by the user are written.
WrittenRcvd(r, computed) ==
    [x \in Products |-> IF job[r].entry[x] > 0 THEN computed[x]
                        ELSE pos[job[r].po].rcvd[x]]

AllFull_AnyLine(q, rcvd) == \E x \in LinesOf(q) : rcvd[x] >= q[x]
AllFull(q, rcvd)  == \A x \in LinesOf(q) : rcvd[x] >= q[x]
NothingIn(q, rcvd) == \A x \in LinesOf(q) : rcvd[x] = 0

Outstanding_AllOrdered(p, x) == pos[p].qty[x]
Outstanding(p, x) == pos[p].qty[x] - pos[p].rcvd[x]

\* "bad_line", "bad_qty": the lines named exist, and no entry is more than the
\* line allows as it was read.  A line may be named MaxNamed times.
EachReceiptFits(p, entry) ==
    \A x \in LinesOf(entry) :
        pos[p].qty[x] > 0 /\ entry[x] <= MaxNamed * Outstanding(p, x)
EachReversalFits(p, entry) ==
    \A x \in LinesOf(entry) :
        pos[p].qty[x] > 0 /\ entry[x] <= MaxNamed * pos[p].rcvd[x]

ReceiveRead(r, p, entry, l) ==
    /\ "receive" \in Enabled
    /\ entry # NoLines
    /\ ReceiveLockFree(p)
    /\ pos[p].status \in {"sent", "partially_received"}
    /\ EachReceiptFits(p, entry)
    /\ Starts(r, [Idle EXCEPT !.pc = "receive", !.po = p, !.qty = pos[p].qty,
                    !.rcvd = pos[p].rcvd, !.entry = entry, !.loc = l])
    /\ UNCHANGED <<orders, pos, level, mail>>

ReceiveCommit(r) ==
    /\ job[r].pc = "receive"
    /\ LinesStillThere(r)
    /\ LET p == job[r].po
           rcvd == RcvdAfterReceipt(r)
           full == {x \in LinesOf(job[r].entry) : rcvd[x] >= job[r].qty[x]}
       IN /\ pos' = [pos EXCEPT
               ![p].rcvd = WrittenRcvd(r, rcvd),
               ![p].status = IF AllFull(job[r].qty, rcvd) THEN "received"
                             ELSE "partially_received"]
          /\ orders' = WithStatus(Linked(p, "ordered", full), "completed")
    /\ level' = MoveStock(job[r].loc, job[r].entry)
    /\ Finishes(r)
    /\ UNCHANGED mail

UnreceiveRead(r, p, entry, l) ==
    /\ "unreceive" \in Enabled
    /\ entry # NoLines
    /\ ReceiveLockFree(p)
    /\ pos[p].status \in {"received", "partially_received"}
    /\ EachReversalFits(p, entry)
    /\ Starts(r, [Idle EXCEPT !.pc = "unreceive", !.po = p, !.qty = pos[p].qty,
                    !.rcvd = pos[p].rcvd, !.entry = entry, !.loc = l])
    /\ UNCHANGED <<orders, pos, level, mail>>

UnreceiveCommit(r) ==
    /\ job[r].pc = "unreceive"
    /\ LinesStillThere(r)
    /\ LET p == job[r].po
           q == job[r].qty
           rcvd == RcvdAfterReversal(r)
           dropped == {x \in LinesOf(job[r].entry) :
                         job[r].rcvd[x] >= q[x] /\ rcvd[x] < q[x]}
       IN /\ pos' = [pos EXCEPT
               ![p].rcvd = WrittenRcvd(r, rcvd),
               ![p].status = IF NothingIn(q, rcvd) THEN "sent"
                             ELSE IF AllFull(q, rcvd) THEN "received"
                             ELSE "partially_received"]
          /\ orders' = WithStatus(Linked(p, "completed", dropped), "ordered")
    /\ level' = MoveStockBack(job[r].loc, job[r].entry)
    /\ Finishes(r)
    /\ UNCHANGED mail

-----------------------------------------------------------------------------
(* Editing a draft: no lock; rewriteSubtotal's guarded update comes last   *)
(* and rolls everything back when the order is no longer a draft.          *)

EditRead(r, p, x, q) ==
    /\ "edit" \in Enabled
    /\ q >= 1
    /\ pos[p].status = "draft"
    /\ pos[p].qty[x] > 0
    /\ Starts(r, [Idle EXCEPT !.pc = "edit", !.po = p, !.line = x,
                    !.qty = pos[p].qty, !.entry = Only(x, q)])
    /\ UNCHANGED <<orders, pos, level, mail>>

\* The line and the guarded subtotal, summed over the lines READ.
EditCommit(r) ==
    /\ job[r].pc = "edit"
    /\ LET p == job[r].po
           x == job[r].line
           q == job[r].entry[x]
       IN pos' = IF StillDraft(p) /\ pos[p].qty[x] > 0
                 THEN [pos EXCEPT ![p].qty[x] = q,
                         ![p].subtotal = [job[r].qty EXCEPT ![x] = q]]
                 ELSE pos
    /\ Finishes(r)
    /\ UNCHANGED <<orders, level, mail>>

RemoveRead(r, p, x) ==
    /\ "remove" \in Enabled
    /\ pos[p].status = "draft"
    /\ pos[p].qty[x] > 0
    /\ LinesOf(pos[p].qty) # {x}
    /\ Starts(r, [Idle EXCEPT !.pc = "remove", !.po = p, !.line = x,
                    !.qty = pos[p].qty])
    /\ UNCHANGED <<orders, pos, level, mail>>

RemoveCommit(r) ==
    /\ job[r].pc = "remove"
    /\ LET p == job[r].po
           x == job[r].line
       IN IF StillDraft(p) /\ pos[p].qty[x] > 0
          THEN /\ pos' = [pos EXCEPT ![p].qty[x] = 0, ![p].rcvd[x] = 0,
                            ![p].subtotal = [job[r].qty EXCEPT ![x] = 0]]
               /\ orders' = BackToQueue(Linked(p, "ordered", {x}))
          ELSE UNCHANGED <<orders, pos>>
    /\ Finishes(r)
    /\ UNCHANGED <<level, mail>>

-----------------------------------------------------------------------------
\* A request dies (process killed, transaction timed out, statement failed):
\* its open transaction leaves nothing and its locks go; a claim stays.
Abort(r) ==
    /\ job[r] # Idle
    /\ Finishes(r)
    /\ UNCHANGED <<orders, pos, level, mail>>

StartOf(r) ==
    \/ \E x \in Products, q \in 1..MaxQty : QueueRead(r, x, q)
    \/ \E ids \in SUBSET OrderIds : CreateRead(r, ids)
    \/ \E items \in Quantities : ManualStart(r, items)
    \/ \E p \in PoIds :
         \/ SendRead(r, p)
         \/ CancelRead(r, p)
         \/ \E entry \in Totals, l \in Locations :
              ReceiveRead(r, p, entry, l) \/ UnreceiveRead(r, p, entry, l)
         \/ \E x \in Products, q \in 1..MaxQty : EditRead(r, p, x, q)
         \/ \E x \in Products : RemoveRead(r, p, x)

StepOf(r) ==
    \/ QueueCommit(r)
    \/ CreateCommit(r) \/ ManualCommit(r)
    \/ SendClaim(r) \/ EmailAccepted(r) \/ EmailThrows(r) \/ SendRollback(r)
    \/ CancelCommit(r)
    \/ ReceiveCommit(r) \/ UnreceiveCommit(r)
    \/ EditCommit(r) \/ RemoveCommit(r)

LockStepOf(r) == CreateLock(r) \/ ManualLock(r)

Next ==
    \/ \E r \in Requests : StartOf(r) \/ StepOf(r) \/ LockStepOf(r) \/ Abort(r)
    \/ \E o \in OrderIds : RemoveQueuedOrder(o)

Spec == Init /\ [][Next]_vars

-----------------------------------------------------------------------------
(* Properties.                                                             *)

\* The types of the tables, of what requests remember and of the outbox.
TypeOK ==
    /\ orders \in [OrderIds -> OrderRow]
    /\ pos \in [PoIds -> PurchaseOrder]
    /\ level \in [Locations -> [Products -> Int \cup {Null}]]
    /\ job \in [Requests -> Job]
    /\ mail \in [PoIds -> [accepted : Nat, doc : Quantities]]

Open == {"draft", "sent", "partially_received", "received"}

\* A queue row that holds its product back as "on the way" is on a purchase
\* order that is not cancelled and still has a line for the product; a row
\* that is not on the way is on no purchase order (cancelPo and removePoLine
\* return their rows to the queue, createPoFromOrders claims before linking).
OnTheWayOf(o) ==
    /\ orders[o].status = "ordered" =>
         \E p \in PoIds : /\ orders[o].po = p
                          /\ pos[p].status \in Open
                          /\ pos[p].qty[orders[o].product] > 0
    /\ orders[o].status \in {"free", "pending", "deleted"} => orders[o].po = Null

OnTheWayIsReal == \A o \in OrderIds : OnTheWayOf(o)

\* Two creates never compute the same max+1: the number a transaction holds
\* is above every number issued, and no other transaction holds one.
NumbersNeverCollide ==
    \A r \in Requests : job[r].pc \in {"create", "manual"} =>
        /\ \A p \in PoIds : job[r].number > pos[p].number
        /\ \A s \in Requests : job[s].pc \in {"create", "manual"} => s = r

\* The supplier is successfully sent a purchase order at most once, and two
\* requests are never both past the claim (send-po.ts: the claim is the race).
DeliveredOnce ==
    \A p \in PoIds :
        /\ mail[p].accepted <= 1
        /\ \A r, s \in Requests :
             /\ job[r].po = p /\ job[r].pc \in {"emailing", "rollback"}
             /\ job[s].po = p /\ job[s].pc \in {"emailing", "rollback"}
             => r = s

\* What the quantity guards of a receipt and of a reversal established under
\* the lock still holds of the order when the request writes (receive-po.ts:
\* two people booking in one delivery must not both clear the guard).  A failed
\* email breaks it: it can take the order back to draft under a receipt.
EntriesStillFit ==
    \A r \in Requests :
        LET p == job[r].po IN
        /\ job[r].pc = "receive" => EachReceiptFits(p, job[r].entry)
        /\ job[r].pc = "unreceive" => EachReversalFits(p, job[r].entry)

\* The status says what is booked in, cancelled orders aside: nothing before
\* and in "sent", every line full in "received" and in no other.
StatusReflectsReceipts ==
    \A p \in PoIds :
        LET some == \E x \in Products : pos[p].rcvd[x] # 0
            all  == \A x \in Products : pos[p].rcvd[x] >= pos[p].qty[x]
        IN /\ pos[p].status \in {"free", "draft", "sent"} => ~some
           /\ pos[p].status = "received" => all /\ some
           /\ pos[p].status = "partially_received" => ~all

\* A queue row is completed exactly when its product's line is fully in: an
\* "ordered" row still has units to come, a "completed" one has none.
QueueFollowsReceipts ==
    \A o \in OrderIds, p \in PoIds : orders[o].po = p =>
        LET x == orders[o].product
            full == pos[p].rcvd[x] >= pos[p].qty[x]
        IN /\ orders[o].status = "completed" => full
           /\ orders[o].status = "ordered" => ~full

UnitsOn(l, x) == IF level[l][x] = Null THEN 0 ELSE level[l][x]
Shelved(x)  == SumFunctionOnSet([l \in Locations |-> UnitsOn(l, x)], Locations)
BookedIn(x) == SumFunctionOnSet([p \in PoIds |-> pos[p].rcvd[x]], PoIds)

\* With no store-owned location the shelves hold every unit the purchase
\* orders booked in and, where there is one location, no other ("100 units
\* in, 200 on the shelf" cannot happen).  With several, a reversal that names
\* a location without a level row leaves its units on another.
ShelfMatchesReceipts ==
    \A x \in Products :
        /\ Shelved(x) >= BookedIn(x)
        /\ (\A k, l \in Locations : k = l) => Shelved(x) = BookedIn(x)

\* Once a purchase order has left draft its lines never change: a sent order
\* is changed by talking to the supplier (edit-po-lines.ts: drafts only).
SentLinesFrozen ==
    [][\A p \in PoIds : pos[p].status \notin {"free", "draft"} =>
         pos'[p].qty = pos[p].qty]_vars

-----------------------------------------------------------------------------
(* What comments of the code say, and what it does not guarantee.          *)

\* unreceive-po.ts: a reversal "reverses exactly that", so the shelves hold what
\* is booked in, wherever it was received and reversed.
ShelvesHoldReceipts == \A x \in Products : Shelved(x) = BookedIn(x)

\* receive-po.ts: "No over-receipt: an extra carton is a data problem to
\* surface, not absorb": a line never has more booked in than was ordered.
NoOverReceipt ==
    \A p \in PoIds, x \in Products : pos[p].rcvd[x] <= pos[p].qty[x]

\* unreceive-po.ts: never "a negative received quantity, which no screen can
\* mean anything by".
NeverNegative == \A p \in PoIds, x \in Products : pos[p].rcvd[x] >= 0

\* unreceive-po.ts: the status "is a function of what is booked in"; a
\* partially received order has something booked in.
PartlyMeansSome ==
    \A p \in PoIds : pos[p].status = "partially_received" =>
        \E x \in Products : pos[p].rcvd[x] > 0

\* cancel-po.ts: "Anything with stock already checked in stays on the books."
StockStaysOnBooks ==
    \A p \in PoIds : pos[p].status = "cancelled" =>
        NothingIn(pos[p].qty, pos[p].rcvd)

\* send-po.ts: never a "sent" PO the supplier never saw.
SentWasSeen ==
    \A p \in PoIds : pos[p].status = "sent" =>
        \/ mail[p].accepted > 0
        \/ \E r \in Requests : /\ job[r].po = p
                               /\ job[r].pc \in {"emailing", "rollback"}

\* edit-po-lines.ts: our record never disagrees with the supplier's document.
SupplierHoldsOurLines ==
    \A p \in PoIds : pos[p].status = "sent" /\ mail[p].accepted > 0 =>
        mail[p].doc = pos[p].qty

\* edit-po-lines.ts: an order with no lines is not an order.
DraftHasLines == \A p \in PoIds : pos[p].status = "draft" => LinesOf(pos[p].qty) # {}

\* edit-po-lines.ts: setting a quantity re-prices the line and the order.
SubtotalMatchesLines ==
    \A p \in PoIds : pos[p].subtotal = pos[p].qty

\* plan.ts: re-adding updates the pending row instead of stacking duplicates.
OnePendingRowPerPrediction ==
    \A a, b \in OrderIds :
        /\ orders[a].status = "pending" /\ orders[a].origin = "plan"
        /\ orders[b].status = "pending" /\ orders[b].origin = "plan"
        /\ orders[a].product = orders[b].product
        => a = b

-----------------------------------------------------------------------------
(* What makes the invariants inductive.                                    *)

\* What a request remembers stays meaningful until it commits: the purchase
\* order it names exists, the rows it read exist and have their lines.
JobShapeOf(r) ==
    LET j == job[r] IN
    /\ j.pc \in {"send", "emailing", "rollback", "cancel", "receive",
                 "unreceive", "edit", "remove"} =>
         j.po \in PoIds /\ pos[j.po].status # "free"
    /\ j.pc \in {"queue", "edit"} =>
         j.line \in Products /\ j.entry[j.line] \in 1..MaxQty
    /\ j.pc = "remove" => j.line \in Products
    /\ j.pc = "queue" => \A o \in j.rows : orders[o].status # "free"
    /\ j.pc \in {"createWait", "create"} =>
         \A o \in j.rows : /\ orders[o].status # "free"
                           /\ orders[o].product \in Products
                           /\ j.qty[orders[o].product] > 0

JobShape == \A r \in Requests : JobShapeOf(r)

\* A row that exists is for a product; exactly the rows that were ordered are
\* on a purchase order, and it exists.
RowShapeOf(o) ==
    /\ orders[o].status # "free" => orders[o].product \in Products
    /\ orders[o].status \in {"ordered", "completed"} <=> orders[o].po # Null
    /\ orders[o].po # Null => pos[orders[o].po].status # "free"

RowShape == \A o \in OrderIds : RowShapeOf(o)

QueueInv == TypeOK /\ JobShape /\ RowShape /\ OnTheWayIsReal

\* A request past the claim is the only one, for an order that left draft; a
\* successful delivery leaves nobody past the claim.
SenderInv ==
    \A p \in PoIds :
        LET senders == {r \in Requests : /\ job[r].po = p
                                         /\ job[r].pc \in {"emailing", "rollback"}}
        IN /\ senders # {} => pos[p].status \notin {"free", "draft"}
           /\ \A r, s \in senders : r = s
           /\ mail[p].accepted > 0 =>
                senders = {} /\ pos[p].status \notin {"free", "draft"}
           /\ mail[p].accepted <= 1

\* Under the receive lock, what a request read is still so when it commits
\* (unless a failed email has turned the order back into a draft).
LockedReadIsCurrent ==
    \A r \in Requests :
        LET j == job[r] IN
        j.pc \in {"receive", "unreceive"} =>
            /\ \A s \in Requests :
                 job[s].pc \in {"receive", "unreceive"} /\ job[s].po = j.po => s = r
            /\ pos[j.po].status \notin {"free", "draft"}
            /\ j.qty = pos[j.po].qty
            /\ j.rcvd = pos[j.po].rcvd
            /\ LinesOf(j.entry) # {}
            /\ j.pc = "receive" => EachReceiptFits(j.po, j.entry)
            /\ j.pc = "unreceive" => EachReversalFits(j.po, j.entry)
=============================================================================
