----------------------- MODULE PurchaseOrdersProofs -----------------------
(* Theorems about PurchaseOrders, for every value of its constants.        *)
EXTENDS PurchaseOrders, Sums

\* The initial value of a job is a job: a request starts from nothing.
LEMMA IdleIsJob == /\ Idle \in Job /\ NoLines \in Quantities
                   /\ NoLines \in [Products -> Nat] /\ NoLines \in [Products -> Int]
  BY ConstantsAssumption DEF Idle, Job, Steps, NoLines, Quantities

\* One typed quantity, for one product, is a list of quantities.
LEMMA OnlyType ==
  ASSUME NEW x \in Products, NEW q \in 0..MaxQty
  PROVE  Only(x, q) \in [Products -> Nat]
  BY ConstantsAssumption DEF Only, NoLines

\* So are the totals of a list of entries.
LEMMA TotalsType == \A e \in Totals : e \in [Products -> Nat]
  BY DEF Totals

\* The tables are created empty, or with a well-formed queue.
LEMMA TypeInit == Init => TypeOK
<1> SUFFICES ASSUME Init PROVE TypeOK
  OBVIOUS
<1>1. FreeOrder \in OrderRow /\ FreePo \in PurchaseOrder
  BY IdleIsJob, ConstantsAssumption DEF FreeOrder, OrderRow, FreePo, PurchaseOrder
<1>2. orders \in [OrderIds -> OrderRow]
  BY <1>1, ConstantsAssumption DEF Init, OrderRow, PlannedRow
<1>3. pos \in [PoIds -> PurchaseOrder]
  BY <1>1 DEF Init
<1>4. level \in [Locations -> [Products -> Int \cup {Null}]]
  BY DEF Init
<1>5. job \in [Requests -> Job]
  BY IdleIsJob DEF Init
<1>6. mail \in [PoIds -> [accepted : Nat, doc : Quantities]]
  BY IdleIsJob DEF Init
<1> QED BY <1>2, <1>3, <1>4, <1>5, <1>6 DEF TypeOK

\* Writing the columns that steps write keeps a job, and a queue row, well typed.
LEMMA PcOfJob ==
  ASSUME NEW j \in Job, NEW s \in Steps
  PROVE  [j EXCEPT !.pc = s] \in Job
  BY DEF Job

LEMMA NumberOfJob ==
  ASSUME NEW j \in Job, NEW s \in Steps, NEW n \in 0..MaxNumber
  PROVE  [j EXCEPT !.pc = s, !.number = n] \in Job
  BY DEF Job

LEMMA MovesOn ==
  ASSUME TypeOK, NEW r \in Requests, NEW s \in Steps
  PROVE  [job EXCEPT ![r].pc = s] \in [Requests -> Job]
<1>1. job \in [Requests -> Job]
  BY DEF TypeOK
<1>2. [job[r] EXCEPT !.pc = s] \in Job
  BY <1>1, PcOfJob
<1> QED BY ONLY <1>1, <1>2

LEMMA StatusOfRow ==
  ASSUME NEW w \in OrderRow, NEW s \in {"pending", "ordered", "completed", "deleted"},
         NEW p \in PoIds \cup {Null}
  PROVE  /\ [w EXCEPT !.status = s] \in OrderRow
         /\ [w EXCEPT !.status = s, !.po = p] \in OrderRow
<1>1. [w EXCEPT !.status = s] \in OrderRow
  BY DEF OrderRow
<1>2. [w EXCEPT !.status = s, !.po = p] \in OrderRow
  BY DEF OrderRow
<1> QED BY <1>1, <1>2

\* A request that starts writes no table.
LEMMA StartWrites ==
  ASSUME NEW r, StartOf(r)
  PROVE  /\ job[r] = Idle /\ UNCHANGED <<orders, pos, level, mail>>
         /\ \E j : job' = [job EXCEPT ![r] = j]
<1> DEFINE Writes == /\ job[r] = Idle /\ UNCHANGED <<orders, pos, level, mail>>
                     /\ \E j : job' = [job EXCEPT ![r] = j]
<1>1. ASSUME NEW x, NEW q, QueueRead(r, x, q) PROVE Writes
  BY <1>1, Zenon DEF QueueRead, Starts
<1>2. ASSUME NEW ids, CreateRead(r, ids) PROVE Writes
  BY <1>2, Zenon DEF CreateRead, Starts
<1>3. ASSUME NEW items, ManualStart(r, items) PROVE Writes
  BY <1>3, Zenon DEF ManualStart, Starts
<1>4. ASSUME NEW p, SendRead(r, p) \/ CancelRead(r, p) PROVE Writes
  BY <1>4, Zenon DEF SendRead, CancelRead, Starts
<1>5. ASSUME NEW p, NEW entry, NEW l, ReceiveRead(r, p, entry, l) PROVE Writes
  BY <1>5, Zenon DEF ReceiveRead, Starts
<1>6. ASSUME NEW p, NEW entry, NEW l, UnreceiveRead(r, p, entry, l) PROVE Writes
  BY <1>6, Zenon DEF UnreceiveRead, Starts
<1>7. ASSUME NEW p, NEW x, NEW q, EditRead(r, p, x, q) PROVE Writes
  BY <1>7, Zenon DEF EditRead, Starts
<1>8. ASSUME NEW p, NEW x, RemoveRead(r, p, x) PROVE Writes
  BY <1>8, Zenon DEF RemoveRead, Starts
<1> HIDE DEF Writes
<1>9. Writes
  BY <1>1, <1>2, <1>3, <1>4, <1>5, <1>6, <1>7, <1>8 DEF StartOf
<1> QED BY <1>9 DEF Writes

\* Where a request starts, its job is well typed and no table changes.
LEMMA TypeStart ==
  ASSUME TypeOK, NEW r \in Requests, StartOf(r)
  PROVE  TypeOK'
<1> USE IdleIsJob, ConstantsAssumption
<1>1. ASSUME NEW j \in Job, Starts(r, j), UNCHANGED <<orders, pos, level, mail>>
      PROVE  TypeOK'
  BY <1>1 DEF TypeOK, Starts
<1>2. ASSUME NEW x \in Products, NEW q \in 1..MaxQty, QueueRead(r, x, q) PROVE TypeOK'
  <2>1. PICK rows \in SUBSET OrderIds :
          Starts(r, [Idle EXCEPT !.pc = "queue", !.rows = rows, !.line = x, !.entry = Only(x, q)])
    BY <1>2 DEF QueueRead
  <2>2. [Idle EXCEPT !.pc = "queue", !.rows = rows, !.line = x, !.entry = Only(x, q)] \in Job
    <3>1. Only(x, q) \in [Products -> Nat]
      BY OnlyType
    <3> QED BY <3>1 DEF Idle, Job, Steps
  <2> QED BY <1>1, <1>2, <2>1, <2>2 DEF QueueRead
<1>3. ASSUME NEW ids \in SUBSET OrderIds, CreateRead(r, ids) PROVE TypeOK'
  <2>1. PICK rows \in SUBSET OrderIds, q \in Quantities :
          Starts(r, [Idle EXCEPT !.pc = "createWait", !.rows = rows, !.qty = q])
    BY <1>3 DEF CreateRead
  <2>2. [Idle EXCEPT !.pc = "createWait", !.rows = rows, !.qty = q] \in Job
    BY DEF Idle, Job, Steps, Quantities, NoLines
  <2> QED BY <1>1, <1>3, <2>1, <2>2 DEF CreateRead
<1>4. ASSUME NEW items \in Quantities, ManualStart(r, items) PROVE TypeOK'
  <2>1. PICK q \in Quantities :
          Starts(r, [Idle EXCEPT !.pc = "manualWait", !.qty = q])
    BY <1>4 DEF ManualStart
  <2>2. [Idle EXCEPT !.pc = "manualWait", !.qty = q] \in Job
    BY DEF Idle, Job, Steps, Quantities, NoLines
  <2> QED BY <1>1, <1>4, <2>1, <2>2 DEF ManualStart
<1>5. ASSUME NEW p \in PoIds, SendRead(r, p) PROVE TypeOK'
  <2>1. [Idle EXCEPT !.pc = "send", !.po = p, !.qty = pos[p].qty] \in Job
    BY DEF TypeOK, PurchaseOrder, Idle, Job, Steps
  <2> QED BY <1>1, <1>5, <2>1 DEF SendRead
<1>6. ASSUME NEW p \in PoIds, CancelRead(r, p) PROVE TypeOK'
  <2>1. [Idle EXCEPT !.pc = "cancel", !.po = p] \in Job
    BY DEF Idle, Job, Steps
  <2> QED BY <1>1, <1>6, <2>1 DEF CancelRead
<1>7. ASSUME NEW p \in PoIds, NEW e \in Totals, NEW l \in Locations,
             ReceiveRead(r, p, e, l) \/ UnreceiveRead(r, p, e, l)
      PROVE  TypeOK'
  <2>1. \A s \in {"receive", "unreceive"} :
          [Idle EXCEPT !.pc = s, !.po = p, !.qty = pos[p].qty, !.rcvd = pos[p].rcvd,
             !.entry = e, !.loc = l] \in Job
    BY TotalsType DEF TypeOK, PurchaseOrder, Idle, Job, Steps
  <2> QED BY <1>1, <1>7, <2>1 DEF ReceiveRead, UnreceiveRead
<1>8. ASSUME NEW p \in PoIds, NEW x \in Products, NEW q \in 1..MaxQty, EditRead(r, p, x, q)
      PROVE  TypeOK'
  <2>1. [Idle EXCEPT !.pc = "edit", !.po = p, !.line = x, !.qty = pos[p].qty,
           !.entry = Only(x, q)] \in Job
    <3>1. Only(x, q) \in [Products -> Nat]
      BY OnlyType
    <3> QED BY <3>1 DEF TypeOK, PurchaseOrder, Idle, Job, Steps
  <2> QED BY <1>1, <1>8, <2>1 DEF EditRead
<1>9. ASSUME NEW p \in PoIds, NEW x \in Products, RemoveRead(r, p, x) PROVE TypeOK'
  <2>1. [Idle EXCEPT !.pc = "remove", !.po = p, !.line = x, !.qty = pos[p].qty] \in Job
    BY DEF TypeOK, PurchaseOrder, Idle, Job, Steps
  <2> QED BY <1>1, <1>9, <2>1 DEF RemoveRead
<1> QED BY <1>2, <1>3, <1>4, <1>5, <1>6, <1>7, <1>8, <1>9 DEF StartOf

\* Returning rows to the queue, or restating their status, keeps them rows.
LEMMA RowsType ==
  ASSUME TypeOK, NEW R, NEW s \in {"pending", "ordered", "completed"}
  PROVE  /\ BackToQueue(R) \in [OrderIds -> OrderRow]
         /\ WithStatus(R, s) \in [OrderIds -> OrderRow]
<1>0. \A o \in OrderIds : orders[o] \in OrderRow
  BY DEF TypeOK
<1>1. \A o \in OrderIds : [orders[o] EXCEPT !.status = "pending", !.po = Null] \in OrderRow
  BY <1>0, StatusOfRow
<1>2. \A o \in OrderIds : [orders[o] EXCEPT !.status = s] \in OrderRow
  BY <1>0, StatusOfRow
<1>3. BackToQueue(R) \in [OrderIds -> OrderRow]
  BY <1>0, <1>1 DEF BackToQueue
<1>4. WithStatus(R, s) \in [OrderIds -> OrderRow]
  BY <1>0, <1>2 DEF WithStatus
<1> QED BY <1>3, <1>4

\* The stock a receipt or a reversal leaves is a number, or no level row.
LEMMA StockType ==
  ASSUME TypeOK, NEW l, NEW e \in [Products -> Nat]
  PROVE  /\ MoveStock(l, e) \in [Locations -> [Products -> Int \cup {Null}]]
         /\ MoveStockBack(l, e) \in [Locations -> [Products -> Int \cup {Null}]]
<1>1. \A x \in Products : e[x] \in Int
  OBVIOUS
<1>2. \A k \in Locations, x \in Products :
        /\ level[k][x] \in Int \cup {Null}
        /\ level[k][x] # Null => level[k][x] + e[x] \in Int /\ level[k][x] - e[x] \in Int
  BY <1>1 DEF TypeOK
<1>3. \A k \in Locations :
        /\ [x \in Products |-> IF e[x] = 0 THEN level[k][x]
              ELSE IF level[k][x] = Null THEN e[x] ELSE level[k][x] + e[x]]
             \in [Products -> Int \cup {Null}]
        /\ [x \in Products |-> IF e[x] = 0 \/ level[k][x] = Null THEN level[k][x]
              ELSE level[k][x] - e[x]]
             \in [Products -> Int \cup {Null}]
  BY <1>1, <1>2
<1>4. MoveStock(l, e) \in [Locations -> [Products -> Int \cup {Null}]]
  BY <1>3 DEF TypeOK, MoveStock
<1>5. MoveStockBack(l, e) \in [Locations -> [Products -> Int \cup {Null}]]
  BY <1>3 DEF TypeOK, MoveStockBack
<1> QED BY <1>4, <1>5

\* Writing one column of a purchase order keeps the table well typed.
LEMMA PoUpdate ==
  ASSUME NEW g \in [PoIds -> PurchaseOrder], NEW p \in PoIds
  PROVE  /\ \A s \in {"draft", "sent", "partially_received", "received", "cancelled"} :
              [g EXCEPT ![p].status = s] \in [PoIds -> PurchaseOrder]
         /\ \A f \in [Products -> Int] : [g EXCEPT ![p].rcvd = f] \in [PoIds -> PurchaseOrder]
         /\ \A q \in Quantities : [g EXCEPT ![p].subtotal = q] \in [PoIds -> PurchaseOrder]
         /\ \A q \in Quantities : [g EXCEPT ![p].qty = q] \in [PoIds -> PurchaseOrder]
<1>1. \A s \in {"draft", "sent", "partially_received", "received", "cancelled"} :
              [g EXCEPT ![p].status = s] \in [PoIds -> PurchaseOrder]
  BY DEF PurchaseOrder
<1>2. \A f \in [Products -> Int] : [g EXCEPT ![p].rcvd = f] \in [PoIds -> PurchaseOrder]
  BY DEF PurchaseOrder
<1>3. \A q \in Quantities : [g EXCEPT ![p].subtotal = q] \in [PoIds -> PurchaseOrder]
  BY DEF PurchaseOrder
<1>4. \A q \in Quantities : [g EXCEPT ![p].qty = q] \in [PoIds -> PurchaseOrder]
  BY DEF PurchaseOrder
<1> QED BY <1>1, <1>2, <1>3, <1>4

\* What a request computes as received is a number.
LEMMA RcvdType ==
  ASSUME TypeOK, NEW r \in Requests, job[r].po \in PoIds
  PROVE  /\ WrittenRcvd(r, RcvdAfterReceipt(r)) \in [Products -> Int]
         /\ WrittenRcvd(r, RcvdAfterReversal(r)) \in [Products -> Int]
<1>1. \A x \in Products : /\ job[r].rcvd[x] \in Int
                          /\ job[r].entry[x] \in Nat
                          /\ pos[job[r].po].rcvd[x] \in Int
  BY DEF TypeOK, Job, PurchaseOrder
<1>2. \A x \in Products : /\ RcvdAfterReceipt(r)[x] \in Int
                          /\ RcvdAfterReversal(r)[x] \in Int
  BY <1>1 DEF RcvdAfterReceipt, RcvdAfterReversal
<1> QED BY <1>1, <1>2 DEF WrittenRcvd

\* A commit leaves every table, and the job of its request, well typed.
LEMMA TypeStep ==
  ASSUME TypeOK, JobShape, NEW r \in Requests, StepOf(r)
  PROVE  TypeOK'
<1> USE IdleIsJob, ConstantsAssumption
<1>j. job[r] \in Job /\ (Finishes(r) => job' \in [Requests -> Job])
  BY DEF TypeOK, Finishes
<1>s. \A p \in PoIds, s \in {"draft", "sent", "cancelled"} :
        [pos EXCEPT ![p].status = s] \in [PoIds -> PurchaseOrder]
  BY PoUpdate DEF TypeOK
<1>p. job[r].pc \in {"send", "emailing", "rollback", "cancel", "receive",
                     "unreceive", "edit", "remove"} => job[r].po \in PoIds
  BY DEF JobShape, JobShapeOf
<1>1. ASSUME QueueCommit(r) PROVE TypeOK'
  <2>1. \A o \in OrderIds, q \in 0..MaxQty : [orders EXCEPT ![o].qty = q] \in [OrderIds -> OrderRow]
    <3>1. \A w \in OrderRow, q \in 0..MaxQty : [w EXCEPT !.qty = q] \in OrderRow
      BY ONLY DEF OrderRow
    <3>2. orders \in [OrderIds -> OrderRow]
      BY DEF TypeOK
    <3> QED BY ONLY <3>1, <3>2
  <2>2. \A o \in OrderIds, x \in Products, q \in 0..MaxQty : [orders EXCEPT ![o] = PlannedRow(x, q)] \in [OrderIds -> OrderRow]
    <3>1. \A x \in Products, q \in 0..MaxQty : PlannedRow(x, q) \in OrderRow
      BY DEF OrderRow, PlannedRow
    <3>2. orders \in [OrderIds -> OrderRow]
      BY DEF TypeOK
    <3> QED BY ONLY <3>1, <3>2
  <2>3. job[r].line \in Products /\ job[r].entry[job[r].line] \in 0..MaxQty /\ job[r].rows \in SUBSET OrderIds
    BY <1>1, <1>j DEF QueueCommit, JobShape, JobShapeOf, Job
  <2>4. orders' \in [OrderIds -> OrderRow]
    <3> DEFINE x == job[r].line  q == job[r].entry[x]
    <3>1. \/ orders' = orders
          \/ \E o \in OrderIds : orders' = [orders EXCEPT ![o].qty = q]
          \/ \E o \in OrderIds : orders' = [orders EXCEPT ![o] = PlannedRow(x, q)]
      BY <1>1, <2>3 DEF QueueCommit
    <3>2. x \in Products /\ q \in 0..MaxQty
      BY <2>3
    <3>3. orders \in [OrderIds -> OrderRow]
      BY DEF TypeOK
    <3> HIDE DEF x, q
    <3> QED BY ONLY <2>1, <2>2, <3>1, <3>2, <3>3
  <2> QED BY <1>1, <1>j, <2>4 DEF QueueCommit, TypeOK
<1>2. ASSUME CreateCommit(r) PROVE TypeOK'
  <2>1. NewDraft(r) \in PurchaseOrder
    BY <1>j DEF NewDraft, PurchaseOrder, Job
  <2>2. ASSUME NEW o \in OrderIds, NEW p \in PoIds
        PROVE  [orders[o] EXCEPT !.status = "ordered", !.po = p] \in OrderRow
    <3>1. orders[o] \in OrderRow
      BY DEF TypeOK
    <3> QED BY <3>1 DEF OrderRow
  <2>3. CASE \A o \in job[r].rows : orders[o].status = "pending"
    <3>1. PICK p \in PoIds :
            /\ pos' = [pos EXCEPT ![p] = NewDraft(r)]
            /\ orders' = [o \in OrderIds |-> IF o \in job[r].rows
                 THEN [orders[o] EXCEPT !.status = "ordered", !.po = p] ELSE orders[o]]
      BY <1>2, <2>3 DEF CreateCommit
    <3>2. \A o \in OrderIds : orders'[o] \in OrderRow
      BY <2>2, <3>1 DEF TypeOK
    <3>3. orders' \in [OrderIds -> OrderRow] /\ pos' \in [PoIds -> PurchaseOrder]
      BY <2>1, <3>1, <3>2 DEF TypeOK
    <3> QED BY <1>2, <1>j, <3>3 DEF CreateCommit, TypeOK
  <2>4. CASE ~ \A o \in job[r].rows : orders[o].status = "pending"
    BY <1>2, <1>j, <2>4 DEF CreateCommit, TypeOK
  <2> QED BY <2>3, <2>4
<1>3. ASSUME ManualCommit(r) PROVE TypeOK'
  <2>1. NewDraft(r) \in PurchaseOrder
    BY <1>j DEF NewDraft, PurchaseOrder, Job
  <2>2. ASSUME NEW x \in Products, NEW p \in PoIds
        PROVE  [status |-> "ordered", product |-> x, po |-> p, qty |-> job[r].qty[x], origin |-> "manual"] \in OrderRow
    BY <1>j DEF OrderRow, Job, Quantities
  <2>3. pos' \in [PoIds -> PurchaseOrder]
    BY <1>3, <2>1 DEF ManualCommit, TypeOK
  <2>4. orders' \in [OrderIds -> OrderRow]
    <3>1. PICK p \in PoIds, ids \in SUBSET {o \in OrderIds : orders[o].status = "free"} :
            \E line \in Bijection(ids, LinesOf(job[r].qty)) :
              orders' = [o \in OrderIds |-> IF o \in ids
                THEN [status |-> "ordered", product |-> line[o], po |-> p,
                      qty |-> job[r].qty[line[o]], origin |-> "manual"]
                ELSE orders[o]]
      BY <1>3 DEF ManualCommit
    <3>a. Bijection(ids, LinesOf(job[r].qty)) \subseteq [ids -> Products]
      BY DEF Bijection, Injection, Surjection, IsInjective, LinesOf
    <3>2. PICK line \in [ids -> Products] :
            orders' = [o \in OrderIds |-> IF o \in ids
                THEN [status |-> "ordered", product |-> line[o], po |-> p,
                      qty |-> job[r].qty[line[o]], origin |-> "manual"]
                ELSE orders[o]]
      BY <3>1, <3>a
    <3>3. \A o \in OrderIds : orders'[o] \in OrderRow
      BY <3>2, <2>2 DEF TypeOK
    <3> QED BY <3>2, <3>3
  <2>5. job' \in [Requests -> Job] /\ UNCHANGED <<level, mail>>
    BY <1>3, <1>j DEF ManualCommit
  <2> QED BY <2>3, <2>4, <2>5 DEF TypeOK
<1>4. ASSUME SendClaim(r) PROVE TypeOK'
  <2>1. [job EXCEPT ![r].pc = "emailing"] \in [Requests -> Job]
    BY MovesOn DEF Steps
  <2>2. job[r].po \in PoIds
    BY <1>4, <1>p DEF SendClaim
  <2>3. [pos EXCEPT ![job[r].po].status = "sent"] \in [PoIds -> PurchaseOrder]
    BY <2>2, <1>s
  <2>4. job' \in [Requests -> Job] /\ pos' \in [PoIds -> PurchaseOrder]
    BY <1>4, <1>j, <2>1, <2>3 DEF SendClaim, TypeOK
  <2> QED BY <1>4, <2>4 DEF SendClaim, TypeOK
<1>5. ASSUME EmailAccepted(r) PROVE TypeOK'
  <2>1. job[r].po \in PoIds /\ job[r].qty \in Quantities
    BY <1>5, <1>j, <1>p DEF EmailAccepted, Job
  <2>2. mail' \in [PoIds -> [accepted : Nat, doc : Quantities]]
    BY <1>5, <2>1 DEF EmailAccepted, TypeOK
  <2> QED BY <1>5, <1>j, <2>2 DEF EmailAccepted, TypeOK
<1>6. ASSUME EmailThrows(r) PROVE TypeOK'
  <2>1. job[r].po \in PoIds /\ job[r].qty \in Quantities
    BY <1>6, <1>j, <1>p DEF EmailThrows, Job
  <2>2. mail' \in [PoIds -> [accepted : Nat, doc : Quantities]]
    <3>1. mail \in [PoIds -> [accepted : Nat, doc : Quantities]]
      BY DEF TypeOK
    <3>2. mail' = mail \/ mail' = [mail EXCEPT ![job[r].po].doc = job[r].qty]
      BY <1>6 DEF EmailThrows
    <3> QED BY ONLY <2>1, <3>1, <3>2
  <2>3. [job EXCEPT ![r].pc = "rollback"] \in [Requests -> Job]
    BY MovesOn DEF Steps
  <2> QED BY <1>6, <2>2, <2>3 DEF EmailThrows, TypeOK
<1>7. ASSUME SendRollback(r) PROVE TypeOK'
  BY <1>7, <1>j, <1>s, <1>p DEF SendRollback, TypeOK
<1>8. ASSUME CancelCommit(r) PROVE TypeOK'
  BY <1>8, <1>j, <1>s, <1>p, RowsType DEF CancelCommit, TypeOK
<1>c. ASSUME NEW p \in PoIds, NEW f \in [Products -> Int],
             NEW s \in {"sent", "received", "partially_received"}
      PROVE  [pos EXCEPT ![p].rcvd = f, ![p].status = s] \in [PoIds -> PurchaseOrder]
  <2>1. [pos EXCEPT ![p].rcvd = f] \in [PoIds -> PurchaseOrder]
    BY PoUpdate DEF TypeOK
  <2>2. [[pos EXCEPT ![p].rcvd = f] EXCEPT ![p].status = s] \in [PoIds -> PurchaseOrder]
    BY <2>1, PoUpdate
  <2> QED BY <2>2
<1>9. ASSUME ReceiveCommit(r) PROVE TypeOK'
  <2>1. job[r].po \in PoIds /\ job[r].entry \in [Products -> Nat]
    BY <1>9, <1>j, <1>p DEF ReceiveCommit, Job
  <2>2. orders' \in [OrderIds -> OrderRow]
    BY <1>9, RowsType DEF ReceiveCommit
  <2>3. level' \in [Locations -> [Products -> Int \cup {Null}]]
    BY <1>9, <2>1, StockType DEF ReceiveCommit
  <2>4. pos' \in [PoIds -> PurchaseOrder]
    BY <1>9, <1>c, <2>1, RcvdType DEF ReceiveCommit
  <2> QED BY <1>9, <1>j, <2>2, <2>3, <2>4 DEF ReceiveCommit, TypeOK
<1>10. ASSUME UnreceiveCommit(r) PROVE TypeOK'
  <2>1. job[r].po \in PoIds /\ job[r].entry \in [Products -> Nat]
    BY <1>10, <1>j, <1>p DEF UnreceiveCommit, Job
  <2>2. orders' \in [OrderIds -> OrderRow]
    BY <1>10, RowsType DEF UnreceiveCommit
  <2>3. level' \in [Locations -> [Products -> Int \cup {Null}]]
    BY <1>10, <2>1, StockType DEF UnreceiveCommit
  <2>4. pos' \in [PoIds -> PurchaseOrder]
    BY <1>10, <1>c, <2>1, RcvdType DEF UnreceiveCommit
  <2> QED BY <1>10, <1>j, <2>2, <2>3, <2>4 DEF UnreceiveCommit, TypeOK
<1>e. \A q \in Quantities, x \in Products, n \in 0..MaxQty : [q EXCEPT ![x] = n] \in Quantities
  BY DEF Quantities
<1>11. ASSUME EditCommit(r) PROVE TypeOK'
  <2>1. /\ job[r].po \in PoIds /\ job[r].line \in Products /\ job[r].qty \in Quantities
        /\ job[r].entry[job[r].line] \in 0..MaxQty
    BY <1>11, <1>j, <1>p DEF EditCommit, JobShape, JobShapeOf, Job
  <2>2. ASSUME NEW p \in PoIds, NEW x \in Products, NEW n \in 0..MaxQty, NEW q \in Quantities
        PROVE  [pos EXCEPT ![p].qty[x] = n, ![p].subtotal = q] \in [PoIds -> PurchaseOrder]
    <3>1. [pos[p].qty EXCEPT ![x] = n] \in Quantities
      BY <1>e DEF TypeOK, PurchaseOrder
    <3>2. [pos EXCEPT ![p].qty = [pos[p].qty EXCEPT ![x] = n]] \in [PoIds -> PurchaseOrder]
      BY <3>1, PoUpdate DEF TypeOK
    <3>3. [pos EXCEPT ![p].qty[x] = n] \in [PoIds -> PurchaseOrder]
      BY <3>2
    <3>4. [[pos EXCEPT ![p].qty[x] = n] EXCEPT ![p].subtotal = q] \in [PoIds -> PurchaseOrder]
      BY <3>3, PoUpdate
    <3> QED BY <3>4
  <2> QED BY <1>11, <1>j, <1>e, <2>1, <2>2 DEF EditCommit, TypeOK
<1>12. ASSUME RemoveCommit(r) PROVE TypeOK'
  <2>1. job[r].po \in PoIds /\ job[r].line \in Products /\ job[r].qty \in Quantities
    BY <1>12, <1>j, <1>p DEF RemoveCommit, JobShape, JobShapeOf, Job
  <2>2. ASSUME NEW p \in PoIds, NEW x \in Products, NEW q \in Quantities
        PROVE  [pos EXCEPT ![p].qty[x] = 0, ![p].rcvd[x] = 0, ![p].subtotal = q]
                 \in [PoIds -> PurchaseOrder]
    <3>1. /\ [pos[p].qty EXCEPT ![x] = 0] \in Quantities
          /\ [pos[p].rcvd EXCEPT ![x] = 0] \in [Products -> Int]
      BY <1>e DEF TypeOK, PurchaseOrder
    <3>2. [pos EXCEPT ![p].qty = [pos[p].qty EXCEPT ![x] = 0]] \in [PoIds -> PurchaseOrder]
      BY <3>1, PoUpdate DEF TypeOK
    <3>3. [pos EXCEPT ![p].qty[x] = 0] \in [PoIds -> PurchaseOrder]
      BY <3>2
    <3>4. [[pos EXCEPT ![p].qty[x] = 0] EXCEPT ![p].rcvd = [pos[p].rcvd EXCEPT ![x] = 0]]
            \in [PoIds -> PurchaseOrder]
      BY <3>1, <3>3, PoUpdate
    <3>5. [pos EXCEPT ![p].qty[x] = 0, ![p].rcvd[x] = 0] \in [PoIds -> PurchaseOrder]
      BY <3>4
    <3>6. [[pos EXCEPT ![p].qty[x] = 0, ![p].rcvd[x] = 0] EXCEPT ![p].subtotal = q]
            \in [PoIds -> PurchaseOrder]
      BY <3>5, PoUpdate
    <3> QED BY <3>6
  <2>3. [job[r].qty EXCEPT ![job[r].line] = 0] \in Quantities
    BY <2>1, <1>e
  <2>4. pos' \in [PoIds -> PurchaseOrder]
    <3>1. PICK p \in PoIds, x \in Products, q \in Quantities :
            \/ UNCHANGED pos
            \/ pos' = [pos EXCEPT ![p].qty[x] = 0, ![p].rcvd[x] = 0, ![p].subtotal = q]
      BY <1>12, <2>1, <2>3 DEF RemoveCommit
    <3>2. [pos EXCEPT ![p].qty[x] = 0, ![p].rcvd[x] = 0, ![p].subtotal = q]
            \in [PoIds -> PurchaseOrder]
      BY <2>2
    <3> QED BY <3>1, <3>2 DEF TypeOK
  <2>5. orders' \in [OrderIds -> OrderRow]
    BY <1>12, RowsType DEF RemoveCommit, TypeOK
  <2> QED BY <1>12, <1>j, <2>4, <2>5 DEF RemoveCommit, TypeOK
<1> QED BY <1>1, <1>2, <1>3, <1>4, <1>5, <1>6, <1>7, <1>8, <1>9, <1>10, <1>11, <1>12 DEF StepOf

\* No step of the system takes a table out of its type.
LEMMA TypeNext == TypeOK /\ JobShape /\ [Next]_vars => TypeOK'
<1> SUFFICES ASSUME TypeOK, JobShape, [Next]_vars PROVE TypeOK'
  OBVIOUS
<1>1. CASE UNCHANGED vars
  BY <1>1 DEF vars, TypeOK
<1>2. ASSUME NEW r \in Requests, LockStepOf(r) PROVE TypeOK'
  <2>1. ASSUME NEW s \in Steps, NEW n \in 0..MaxNumber
        PROVE  [job EXCEPT ![r].pc = s, ![r].number = n] \in [Requests -> Job]
    <3>1. job \in [Requests -> Job]
      BY DEF TypeOK
    <3>2. [job[r] EXCEPT !.pc = s, !.number = n] \in Job
      BY <3>1, NumberOfJob
    <3> QED BY ONLY <3>1, <3>2
  <2>2. 1..MaxNumber \subseteq 0..MaxNumber
    BY ConstantsAssumption
  <2>3. PICK s \in {"create", "manual"}, n \in 1..MaxNumber :
          job' = [job EXCEPT ![r].pc = s, ![r].number = n]
    BY <1>2 DEF LockStepOf, CreateLock, ManualLock, NumberUnderLock
  <2>4. UNCHANGED <<orders, pos, level, mail>>
    BY <1>2 DEF LockStepOf, CreateLock, ManualLock, NumberUnderLock
  <2>5. s \in Steps /\ n \in 0..MaxNumber
    BY <2>2 DEF Steps
  <2>6. job' \in [Requests -> Job]
    BY <2>1, <2>3, <2>5
  <2> QED BY <2>4, <2>6 DEF TypeOK
<1>3. ASSUME NEW r \in Requests, Abort(r) PROVE TypeOK'
  BY <1>3, IdleIsJob DEF Abort, Finishes, TypeOK
<1>4. ASSUME NEW o \in OrderIds, RemoveQueuedOrder(o) PROVE TypeOK'
  <2>1. orders \in [OrderIds -> OrderRow] /\ orders' = [orders EXCEPT ![o].status = "deleted"]
        /\ UNCHANGED <<pos, level, job, mail>>
    BY <1>4 DEF RemoveQueuedOrder, TypeOK
  <2>2. [orders[o] EXCEPT !.status = "deleted"] \in OrderRow
    BY <2>1, StatusOfRow
  <2>3. orders' \in [OrderIds -> OrderRow]
    BY ONLY <2>1, <2>2
  <2> QED BY <2>1, <2>3 DEF TypeOK
<1> QED BY <1>1, <1>2, <1>3, <1>4, TypeStart, TypeStep DEF Next

-----------------------------------------------------------------------------
(* The queue: rows on the way are on an open order with a line for them.   *)

\* The step gives the purchase order p this status and these quantities, and
\* leaves every other purchase order alone.
Changes(p, s, q) ==
    \A d \in PoIds : IF d = p THEN pos'[d].status = s /\ pos'[d].qty = q
                     ELSE pos'[d] = pos[d]

\* What each commit does to the purchase order of its request.
LEMMA PoEffects ==
  ASSUME TypeOK, NEW r \in Requests, NEW p \in PoIds, p = job[r].po
  PROVE  /\ SendClaim(r) => UNCHANGED pos \/ Changes(p, "sent", pos[p].qty)
         /\ SendRollback(r) => UNCHANGED pos \/ Changes(p, "draft", pos[p].qty)
         /\ CancelCommit(r) => Changes(p, "cancelled", pos[p].qty)
         /\ ReceiveCommit(r) => \E s \in {"received", "partially_received"} :
              Changes(p, s, pos[p].qty)
         /\ UnreceiveCommit(r) => \E s \in {"sent", "received", "partially_received"} :
              Changes(p, s, pos[p].qty)
         /\ EditCommit(r) => \/ UNCHANGED pos
              \/ Changes(p, "draft", [pos[p].qty EXCEPT ![job[r].line] = job[r].entry[job[r].line]])
         /\ RemoveCommit(r) => \/ UNCHANGED pos /\ UNCHANGED orders
              \/ /\ Changes(p, "draft", [pos[p].qty EXCEPT ![job[r].line] = 0])
                 /\ orders' = BackToQueue(Linked(p, "ordered", {job[r].line}))
<1> USE DEF TypeOK, PurchaseOrder, Changes
<1>1. SendClaim(r) => UNCHANGED pos \/ Changes(p, "sent", pos[p].qty)
  BY DEF SendClaim
<1>2. SendRollback(r) => UNCHANGED pos \/ Changes(p, "draft", pos[p].qty)
  BY DEF SendRollback
<1>3. CancelCommit(r) => Changes(p, "cancelled", pos[p].qty)
  BY DEF CancelCommit
<1>4. ReceiveCommit(r) => \E s \in {"received", "partially_received"} : Changes(p, s, pos[p].qty)
  BY DEF ReceiveCommit
<1>5. UnreceiveCommit(r) => \E s \in {"sent", "received", "partially_received"} :
        Changes(p, s, pos[p].qty)
  BY DEF UnreceiveCommit
<1>6. EditCommit(r) => \/ UNCHANGED pos
              \/ Changes(p, "draft", [pos[p].qty EXCEPT ![job[r].line] = job[r].entry[job[r].line]])
  <2>1. ASSUME NEW x, NEW n, NEW q, pos[p].status = "draft",
               pos' = [pos EXCEPT ![p].qty[x] = n, ![p].subtotal = q]
        PROVE  Changes(p, "draft", [pos[p].qty EXCEPT ![x] = n])
    <3>1. pos'[p] = [pos[p] EXCEPT !.qty[x] = n, !.subtotal = q]
      BY <2>1
    <3>2. pos'[p].qty = [pos[p].qty EXCEPT ![x] = n] /\ pos'[p].status = "draft"
      BY <2>1, <3>1
    <3> QED BY <2>1, <3>2
  <2>2. ASSUME EditCommit(r), ~ UNCHANGED pos
        PROVE  /\ pos[p].status = "draft"
               /\ pos' = [pos EXCEPT ![p].qty[job[r].line] = job[r].entry[job[r].line],
                   ![p].subtotal = [job[r].qty EXCEPT ![job[r].line] = job[r].entry[job[r].line]]]
    BY <2>2 DEF EditCommit, StillDraft
  <2> HIDE DEF Changes, TypeOK
  <2> QED BY <2>1, <2>2
<1>7. RemoveCommit(r) => \/ UNCHANGED pos /\ UNCHANGED orders
              \/ /\ Changes(p, "draft", [pos[p].qty EXCEPT ![job[r].line] = 0])
                 /\ orders' = BackToQueue(Linked(p, "ordered", {job[r].line}))
  <2>1. ASSUME NEW x, NEW q, pos[p].status = "draft",
               pos' = [pos EXCEPT ![p].qty[x] = 0, ![p].rcvd[x] = 0, ![p].subtotal = q]
        PROVE  Changes(p, "draft", [pos[p].qty EXCEPT ![x] = 0])
    <3>1. pos'[p] = [pos[p] EXCEPT !.qty[x] = 0, !.rcvd[x] = 0, !.subtotal = q]
      BY <2>1
    <3>a. DOMAIN pos[p] = {"status", "number", "qty", "rcvd", "subtotal"}
      BY DEF PurchaseOrder
    <3>b. pos'[p].qty = [pos[p].qty EXCEPT ![x] = 0]
      BY ONLY <3>1, <3>a
    <3>2. pos'[p].qty = [pos[p].qty EXCEPT ![x] = 0] /\ pos'[p].status = "draft"
      BY <2>1, <3>1, <3>b
    <3> QED BY <2>1, <3>2
  <2>2. ASSUME RemoveCommit(r), ~ UNCHANGED <<pos, orders>>
        PROVE  /\ pos[p].status = "draft"
               /\ pos' = [pos EXCEPT ![p].qty[job[r].line] = 0, ![p].rcvd[job[r].line] = 0,
                   ![p].subtotal = [job[r].qty EXCEPT ![job[r].line] = 0]]
               /\ orders' = BackToQueue(Linked(p, "ordered", {job[r].line}))
    BY <2>2 DEF RemoveCommit, StillDraft
  <2> HIDE DEF Changes, TypeOK
  <2> QED BY <2>1, <2>2
<1> QED BY <1>1, <1>2, <1>3, <1>4, <1>5, <1>6, <1>7

\* Ids are never given back: a purchase order or a queue row that exists goes
\* on existing (as "cancelled", as "deleted"), and a row keeps its product.
Kept ==
    /\ \A p \in PoIds : pos[p].status # "free" => pos'[p].status # "free"
    /\ \A o \in OrderIds : orders[o].status # "free" =>
         orders'[o].status # "free" /\ orders'[o].product = orders[o].product

\* Returning rows, or restating their status, keeps them and their products.
LEMMA RowsKept ==
  ASSUME TypeOK, NEW R, NEW s \in {"pending", "ordered", "completed"},
         orders' = BackToQueue(R) \/ orders' = WithStatus(R, s)
  PROVE  \A o \in OrderIds : orders[o].status # "free" =>
           orders'[o].status # "free" /\ orders'[o].product = orders[o].product
<1>1. \A o \in OrderIds :
        /\ [orders[o] EXCEPT !.status = "pending", !.po = Null].status # "free"
        /\ [orders[o] EXCEPT !.status = "pending", !.po = Null].product = orders[o].product
        /\ [orders[o] EXCEPT !.status = s].status # "free"
        /\ [orders[o] EXCEPT !.status = s].product = orders[o].product
  BY DEF TypeOK, OrderRow
<1>2. CASE orders' = BackToQueue(R)
  BY <1>1, <1>2 DEF BackToQueue
<1>3. CASE orders' = WithStatus(R, s)
  BY <1>1, <1>3 DEF WithStatus
<1> QED BY <1>2, <1>3

\* Every step keeps the ids it finds in use.
LEMMA KeptNext == TypeOK /\ JobShape /\ [Next]_vars => Kept
<1> SUFFICES ASSUME TypeOK, JobShape, [Next]_vars PROVE Kept
  OBVIOUS
<1>0. UNCHANGED <<orders, pos>> => Kept
  BY DEF Kept
<1>c. ASSUME NEW p \in PoIds, NEW s \in {"draft", "sent", "partially_received", "received", "cancelled"},
             NEW q, Changes(p, s, q)
      PROVE  \A d \in PoIds : pos[d].status # "free" => pos'[d].status # "free"
  BY <1>c DEF Changes
<1>1. ASSUME NEW r \in Requests, StartOf(r) PROVE Kept
  BY <1>1, <1>0, StartWrites
<1>2. ASSUME NEW r \in Requests, LockStepOf(r) \/ Abort(r) PROVE Kept
  BY <1>2, <1>0 DEF LockStepOf, CreateLock, ManualLock, NumberUnderLock, Abort
<1>3. ASSUME NEW o \in OrderIds, RemoveQueuedOrder(o) PROVE Kept
  BY <1>3 DEF RemoveQueuedOrder, Kept, TypeOK, OrderRow
<1>4. ASSUME NEW r \in Requests, QueueCommit(r) PROVE Kept
  <2>1. ASSUME NEW o \in OrderIds, NEW d \in OrderIds, NEW q
        PROVE  /\ [orders EXCEPT ![d].qty = q][o].product = orders[o].product
               /\ [orders EXCEPT ![d].qty = q][o].status = orders[o].status
    BY DEF TypeOK, OrderRow
  <2>2. job[r].rows \in SUBSET OrderIds
    BY DEF TypeOK, Job
  <2>3. UNCHANGED pos
    BY <1>4 DEF QueueCommit
  <2>4. ASSUME NEW o \in OrderIds, orders[o].status # "free"
        PROVE  orders'[o].status # "free" /\ orders'[o].product = orders[o].product
    <3>1. \/ UNCHANGED orders
          \/ \E d \in OrderIds, q \in {job[r].entry[job[r].line]} : orders' = [orders EXCEPT ![d].qty = q]
          \/ \E d \in OrderIds, v \in {PlannedRow(job[r].line, job[r].entry[job[r].line])} :
               orders[d].status = "free" /\ orders' = [orders EXCEPT ![d] = v]
      BY <1>4, <2>2 DEF QueueCommit
    <3>2. CASE \E d \in OrderIds, q \in {job[r].entry[job[r].line]} : orders' = [orders EXCEPT ![d].qty = q]
      BY <3>2, <2>1, <2>4
    <3> QED BY <3>1, <3>2, <2>4 DEF TypeOK
  <2> QED BY <2>3, <2>4 DEF Kept
<1>5. ASSUME NEW r \in Requests, CreateCommit(r) PROVE Kept
  <2>1. CASE UNCHANGED <<orders, pos>>
    BY <2>1, <1>0
  <2>2. CASE ~ UNCHANGED <<orders, pos>>
    <3>1. PICK p \in PoIds :
            /\ pos' = [pos EXCEPT ![p] = NewDraft(r)]
            /\ orders' = [o \in OrderIds |-> IF o \in job[r].rows
                 THEN [orders[o] EXCEPT !.status = "ordered", !.po = p] ELSE orders[o]]
      BY <1>5, <2>2 DEF CreateCommit
    <3>2. NewDraft(r).status # "free"
      BY DEF NewDraft
    <3>3. \A o \in OrderIds : orders[o].status # "free" =>
            orders'[o].status # "free" /\ orders'[o].product = orders[o].product
      <4>1. \A o \in OrderIds : orders[o] \in OrderRow
        BY DEF TypeOK
      <4> SUFFICES ASSUME NEW o \in OrderIds, orders[o].status # "free"
                   PROVE  orders'[o].status # "free" /\ orders'[o].product = orders[o].product
        OBVIOUS
      <4>2. CASE o \in job[r].rows
        <5>1. orders'[o] = [orders[o] EXCEPT !.status = "ordered", !.po = p]
          BY <3>1, <4>2
        <5>2. orders[o] \in OrderRow
          BY <4>1
        <5> QED BY ONLY <5>1, <5>2 DEF OrderRow
      <4>3. CASE o \notin job[r].rows
        BY <3>1, <4>3
      <4> QED BY <4>2, <4>3
    <3> QED BY <3>1, <3>2, <3>3 DEF Kept, TypeOK
  <2> QED BY <2>1, <2>2
<1>6. ASSUME NEW r \in Requests, ManualCommit(r) PROVE Kept
  <2>1. PICK p \in PoIds : pos' = [pos EXCEPT ![p] = NewDraft(r)]
    BY <1>6 DEF ManualCommit
  <2>2. NewDraft(r).status # "free"
    BY DEF NewDraft
  <2>3. \A o \in OrderIds : orders[o].status # "free" => orders'[o] = orders[o]
    BY <1>6 DEF ManualCommit
  <2> QED BY <2>1, <2>2, <2>3 DEF Kept, TypeOK
<1>7. ASSUME NEW r \in Requests, EmailAccepted(r) \/ EmailThrows(r) PROVE Kept
  BY <1>7, <1>0 DEF EmailAccepted, EmailThrows
<1>8. ASSUME NEW r \in Requests,
             SendClaim(r) \/ SendRollback(r) \/ EditCommit(r)
      PROVE  Kept
  <2>1. job[r].po \in PoIds /\ UNCHANGED orders
    BY <1>8 DEF SendClaim, SendRollback, EditCommit, JobShape, JobShapeOf
  <2>2. \A d \in PoIds : pos[d].status # "free" => pos'[d].status # "free"
    BY <1>8, <1>c, <2>1, PoEffects
  <2> QED BY <2>1, <2>2 DEF Kept
<1>9. ASSUME NEW r \in Requests,
             CancelCommit(r) \/ ReceiveCommit(r) \/ UnreceiveCommit(r) \/ RemoveCommit(r)
      PROVE  Kept
  <2>1. job[r].po \in PoIds
    BY <1>9 DEF CancelCommit, ReceiveCommit, UnreceiveCommit, RemoveCommit, JobShape, JobShapeOf
  <2>2. \A d \in PoIds : pos[d].status # "free" => pos'[d].status # "free"
    <3>1. CASE CancelCommit(r)
      BY <3>1, <1>c, <2>1, PoEffects
    <3>2. CASE ReceiveCommit(r)
      <4>1. PICK s \in {"received", "partially_received"} :
              Changes(job[r].po, s, pos[job[r].po].qty)
        BY <3>2, <2>1, PoEffects
      <4> QED BY <4>1, <2>1, <1>c
    <3>3. CASE UnreceiveCommit(r)
      <4>1. PICK s \in {"sent", "received", "partially_received"} :
              Changes(job[r].po, s, pos[job[r].po].qty)
        BY <3>3, <2>1, PoEffects
      <4> QED BY <4>1, <2>1, <1>c
    <3>4. CASE RemoveCommit(r)
      BY <3>4, <1>c, <2>1, PoEffects
    <3> QED BY <1>9, <3>1, <3>2, <3>3, <3>4
  <2>3. \/ UNCHANGED orders
        \/ \E R : \/ orders' = BackToQueue(R)
                  \/ \E s \in {"ordered", "completed"} : orders' = WithStatus(R, s)
    BY <1>9, <2>1, PoEffects DEF CancelCommit, ReceiveCommit, UnreceiveCommit
  <2>4. \A o \in OrderIds : orders[o].status # "free" =>
           orders'[o].status # "free" /\ orders'[o].product = orders[o].product
    BY <2>3, RowsKept
  <2> QED BY <2>2, <2>4 DEF Kept
<1>10. UNCHANGED vars => Kept
  BY <1>0 DEF vars
<1> QED BY <1>1, <1>2, <1>3, <1>4, <1>5, <1>6, <1>7, <1>8, <1>9, <1>10 DEF Next, StepOf

\* A request that takes no step keeps its shape; one that ends has no shape
\* to keep.
LEMMA ShapeKept ==
  ASSUME TypeOK, Kept, NEW s \in Requests, JobShapeOf(s), job'[s] = job[s]
  PROVE  JobShapeOf(s)'
<1>1. job[s].rows \in SUBSET OrderIds
  BY DEF TypeOK, Job
<1> QED BY <1>1 DEF JobShapeOf, Kept

\* A request that does nothing remembers nothing that could become stale.
LEMMA IdleShape ==
  ASSUME NEW s \in Requests, job'[s] = Idle
  PROVE  JobShapeOf(s)'
  BY DEF JobShapeOf, Idle

\* What a request reads when it starts has the shape its later steps rely on.
LEMMA ShapeStart ==
  ASSUME TypeOK, RowShape, Kept, NEW r \in Requests, StartOf(r)
  PROVE  JobShapeOf(r)'
<1> USE ConstantsAssumption
<1>1. ASSUME NEW x \in Products, NEW q \in 1..MaxQty, QueueRead(r, x, q) PROVE JobShapeOf(r)'
  <2>1. PICK rows \in SUBSET {o \in OrderIds : orders[o].status = "pending"} :
          job' = [job EXCEPT ![r] = [Idle EXCEPT !.pc = "queue", !.rows = rows,
                    !.line = x, !.entry = Only(x, q)]]
    BY <1>1 DEF QueueRead, Starts
  <2>2. job'[r].pc = "queue" /\ job'[r].rows = rows /\ job'[r].line = x /\ job'[r].entry = Only(x, q)
    BY <2>1 DEF TypeOK, Idle
  <2>3. Only(x, q)[x] \in 1..MaxQty
    BY DEF Only, NoLines
  <2>4. UNCHANGED orders
    BY <1>1 DEF QueueRead
  <2> QED BY <2>2, <2>3, <2>4 DEF JobShapeOf
<1>2. ASSUME NEW ids \in SUBSET OrderIds, CreateRead(r, ids) PROVE JobShapeOf(r)'
  <2> DEFINE rows == {o \in ids : orders[o].status = "pending"}
  <2>1. PICK q \in Quantities :
          /\ q = BuildPoLines(rows)
          /\ job' = [job EXCEPT ![r] = [Idle EXCEPT !.pc = "createWait", !.rows = rows, !.qty = q]]
    BY <1>2 DEF CreateRead, Starts
  <2>2. job'[r].pc = "createWait" /\ job'[r].rows = rows /\ job'[r].qty = q
    BY <2>1 DEF TypeOK, Idle
  <2>3. UNCHANGED orders
    BY <1>2 DEF CreateRead
  <2>4. ASSUME NEW o \in rows
        PROVE  orders[o].status # "free" /\ orders[o].product \in Products /\ q[orders[o].product] > 0
    <3>1. orders[o].product \in Products
      BY DEF RowShape, RowShapeOf
    <3>2. q[orders[o].product] = ApplyMoq(MergedQty(rows, orders[o].product))
      BY <2>1, <3>1 DEF BuildPoLines
    <3>3. q[orders[o].product] \in Nat
      BY <3>1 DEF Quantities
    <3>4. q[orders[o].product] > 0
      BY <3>2, <3>3 DEF ApplyMoq
    <3> QED BY <3>1, <3>4
  <2> QED BY <2>2, <2>3, <2>4 DEF JobShapeOf
<1>3. ASSUME NEW items \in Quantities, ManualStart(r, items) PROVE JobShapeOf(r)'
  <2>1. job'[r].pc = "manualWait"
    BY <1>3 DEF ManualStart, Starts, TypeOK, Idle
  <2> QED BY <2>1 DEF JobShapeOf
<1>4. ASSUME NEW p \in PoIds, SendRead(r, p) PROVE JobShapeOf(r)'
  <2>1. job'[r].pc = "send" /\ job'[r].po = p /\ pos[p].status = "draft"
    BY <1>4 DEF SendRead, Starts, TypeOK, Idle
  <2> QED BY <2>1 DEF JobShapeOf, Kept
<1>5. ASSUME NEW p \in PoIds, CancelRead(r, p) PROVE JobShapeOf(r)'
  <2>1. job'[r].pc = "cancel" /\ job'[r].po = p /\ pos[p].status \in {"draft", "sent"}
    BY <1>5 DEF CancelRead, Starts, TypeOK, Idle
  <2> QED BY <2>1 DEF JobShapeOf, Kept
<1>6. ASSUME NEW p \in PoIds, NEW e \in Totals, NEW l \in Locations, ReceiveRead(r, p, e, l)
      PROVE  JobShapeOf(r)'
  <2>1. job'[r].pc = "receive" /\ job'[r].po = p /\ pos[p].status \in {"sent", "partially_received"}
    BY <1>6 DEF ReceiveRead, Starts, TypeOK, Idle
  <2> QED BY <2>1 DEF JobShapeOf, Kept
<1>7. ASSUME NEW p \in PoIds, NEW e \in Totals, NEW l \in Locations, UnreceiveRead(r, p, e, l)
      PROVE  JobShapeOf(r)'
  <2>1. /\ job'[r].pc = "unreceive" /\ job'[r].po = p
        /\ pos[p].status \in {"received", "partially_received"}
    BY <1>7 DEF UnreceiveRead, Starts, TypeOK, Idle
  <2> QED BY <2>1 DEF JobShapeOf, Kept
<1>8. ASSUME NEW p \in PoIds, NEW x \in Products, NEW q \in 1..MaxQty, EditRead(r, p, x, q)
      PROVE  JobShapeOf(r)'
  <2>1. /\ job'[r].pc = "edit" /\ job'[r].po = p /\ job'[r].line = x
        /\ job'[r].entry = Only(x, q) /\ pos[p].status = "draft"
    BY <1>8 DEF EditRead, Starts, TypeOK, Idle
  <2>2. Only(x, q)[x] \in 1..MaxQty
    BY DEF Only, NoLines
  <2> QED BY <2>1, <2>2 DEF JobShapeOf, Kept
<1>9. ASSUME NEW p \in PoIds, NEW x \in Products, RemoveRead(r, p, x) PROVE JobShapeOf(r)'
  <2>1. job'[r].pc = "remove" /\ job'[r].po = p /\ job'[r].line = x /\ pos[p].status = "draft"
    BY <1>9 DEF RemoveRead, Starts, TypeOK, Idle
  <2> QED BY <2>1 DEF JobShapeOf, Kept
<1> QED BY <1>1, <1>2, <1>3, <1>4, <1>5, <1>6, <1>7, <1>8, <1>9 DEF StartOf

\* Every step keeps what requests remember meaningful.
LEMMA ShapeNext == TypeOK /\ JobShape /\ RowShape /\ [Next]_vars => JobShape'
<1> SUFFICES ASSUME TypeOK, JobShape, RowShape, [Next]_vars, NEW s \in Requests
             PROVE  JobShapeOf(s)'
  BY DEF JobShape
<1>k. Kept /\ JobShapeOf(s)
  BY KeptNext DEF JobShape
<1>1. CASE job'[s] = job[s]
  BY <1>1, <1>k, ShapeKept
<1>2. ASSUME NEW r \in Requests, StartOf(r), job'[s] # job[s] PROVE JobShapeOf(s)'
  <2>1. r = s
    BY <1>2, StartWrites DEF TypeOK
  <2> QED BY <1>2, <2>1, <1>k, ShapeStart
<1>3. ASSUME NEW r \in Requests, LockStepOf(r), job'[s] # job[s] PROVE JobShapeOf(s)'
  <2>1. PICK n \in 1..MaxNumber :
          /\ \/ job[r].pc = "createWait" /\ job' = [job EXCEPT ![r].pc = "create", ![r].number = n]
             \/ job[r].pc = "manualWait" /\ job' = [job EXCEPT ![r].pc = "manual", ![r].number = n]
          /\ UNCHANGED <<orders, pos>>
    BY <1>3 DEF LockStepOf, CreateLock, ManualLock, NumberUnderLock
  <2>2. r = s
    BY <1>3, <2>1 DEF TypeOK
  <2>3. /\ \/ job[s].pc = "createWait" /\ job'[s].pc = "create"
           \/ job[s].pc = "manualWait" /\ job'[s].pc = "manual"
        /\ job'[s].rows = job[s].rows /\ job'[s].qty = job[s].qty
    BY <2>1, <2>2 DEF TypeOK, Job
  <2> QED BY <1>k, <2>1, <2>3 DEF JobShapeOf
<1>4. ASSUME NEW r \in Requests, SendClaim(r) \/ EmailThrows(r), job'[s] # job[s]
      PROVE  JobShapeOf(s)'
  <2>1. \/ job' = [job EXCEPT ![r] = Idle]
        \/ job' = [job EXCEPT ![r].pc = "emailing"] /\ job[r].pc = "send"
        \/ job' = [job EXCEPT ![r].pc = "rollback"] /\ job[r].pc = "emailing"
    BY <1>4 DEF SendClaim, EmailThrows, Finishes
  <2>2. r = s
    BY <1>4, <2>1 DEF TypeOK
  <2>3. \/ job'[s] = Idle
        \/ /\ job'[s].pc \in {"emailing", "rollback"} /\ job'[s].po = job[s].po
           /\ job[s].pc \in {"send", "emailing"}
    BY <2>1, <2>2 DEF TypeOK, Job
  <2> QED BY <1>k, <2>3, IdleShape DEF JobShapeOf, Kept
<1>5. ASSUME NEW r \in Requests, Finishes(r), job'[s] # job[s] PROVE JobShapeOf(s)'
  <2>1. job'[s] = Idle
    BY <1>5 DEF Finishes, TypeOK
  <2> QED BY <2>1, IdleShape
<1>6. ASSUME NEW r \in Requests, StepOf(r) PROVE SendClaim(r) \/ EmailThrows(r) \/ Finishes(r)
  BY <1>6 DEF StepOf, QueueCommit, CreateCommit, ManualCommit, EmailAccepted, SendRollback,
     CancelCommit, ReceiveCommit, UnreceiveCommit, EditCommit, RemoveCommit
<1>7. ASSUME NEW o \in OrderIds, RemoveQueuedOrder(o) PROVE UNCHANGED job
  BY <1>7 DEF RemoveQueuedOrder
<1> QED BY <1>1, <1>2, <1>3, <1>4, <1>5, <1>6, <1>7 DEF Next, Abort, vars

\* A row the step does not touch stays on the way, or off it: its purchase
\* order is not closed and keeps the line.
LEMMA RowStays ==
  ASSUME TypeOK, RowShape, OnTheWayIsReal, NEW o \in OrderIds,
         orders'[o].status = orders[o].status, orders'[o].product = orders[o].product,
         orders'[o].po = orders[o].po,
         \A p \in PoIds : pos[p].status # "free" => pos'[p].status # "free",
         \A p \in PoIds : orders[o].status = "ordered" /\ orders[o].po = p =>
           pos'[p].status \in Open /\ pos'[p].qty[orders[o].product] > 0
  PROVE  RowShapeOf(o)' /\ OnTheWayOf(o)'
<1>1. RowShapeOf(o) /\ OnTheWayOf(o)
  BY DEF RowShape, OnTheWayIsReal
<1>2. orders[o].po \in PoIds \cup {Null}
  BY DEF TypeOK, OrderRow
<1> QED BY <1>1, <1>2 DEF RowShapeOf, OnTheWayOf

\* A row put back in the queue is on no purchase order.
LEMMA RowReturned ==
  ASSUME TypeOK, RowShape, NEW o \in OrderIds, orders[o].status # "free",
         orders'[o] = [orders[o] EXCEPT !.status = "pending", !.po = Null]
  PROVE  RowShapeOf(o)' /\ OnTheWayOf(o)'
<1>1. orders'[o].status = "pending" /\ orders'[o].po = Null /\ orders'[o].product = orders[o].product
  BY DEF TypeOK, OrderRow
<1> QED BY <1>1 DEF RowShape, RowShapeOf, OnTheWayOf

\* A commit that changes one purchase order's status to an open one, and keeps
\* its lines, leaves the rows on the way as they were.
LEMMA RowsStayOpen ==
  ASSUME TypeOK, RowShape, OnTheWayIsReal, NEW p \in PoIds, NEW s \in Open,
         Changes(p, s, pos[p].qty), UNCHANGED orders
  PROVE  RowShape' /\ OnTheWayIsReal'
<1> SUFFICES ASSUME NEW o \in OrderIds PROVE RowShapeOf(o)' /\ OnTheWayOf(o)'
  BY DEF RowShape, OnTheWayIsReal
<1>1. \A d \in PoIds : pos[d].status # "free" => pos'[d].status # "free"
  BY DEF Changes, Open
<1>2. \A d \in PoIds : orders[o].status = "ordered" /\ orders[o].po = d =>
           pos'[d].status \in Open /\ pos'[d].qty[orders[o].product] > 0
  BY DEF Changes, OnTheWayIsReal, OnTheWayOf
<1> QED BY <1>1, <1>2, RowStays

\* A commit that changes one purchase order, and restates the status of rows
\* that are on it, leaves every row rightly on the way or off it.
LEMMA RowsRestated ==
  ASSUME TypeOK, RowShape, OnTheWayIsReal, NEW p \in PoIds, NEW s \in Open,
         Changes(p, s, pos[p].qty), NEW R \in SUBSET OrderIds,
         NEW t \in {"ordered", "completed"}, orders' = WithStatus(R, t),
         \A o \in R : orders[o].po = p /\ orders[o].status \in {"ordered", "completed"},
         t = "ordered" => \A o \in R : pos[p].qty[orders[o].product] > 0
  PROVE  RowShape' /\ OnTheWayIsReal'
<1> SUFFICES ASSUME NEW o \in OrderIds PROVE RowShapeOf(o)' /\ OnTheWayOf(o)'
  BY DEF RowShape, OnTheWayIsReal
<1>1. \A d \in PoIds : pos[d].status # "free" => pos'[d].status # "free"
  BY DEF Changes, Open
<1>2. CASE o \notin R
  <2>1. orders'[o] = orders[o]
    BY <1>2 DEF WithStatus
  <2>2. \A d \in PoIds : orders[o].status = "ordered" /\ orders[o].po = d =>
           pos'[d].status \in Open /\ pos'[d].qty[orders[o].product] > 0
    BY DEF Changes, OnTheWayIsReal, OnTheWayOf
  <2> QED BY <1>1, <2>1, <2>2, RowStays
<1>3. CASE o \in R
  <2>1. /\ orders'[o].status = t /\ orders'[o].po = p
        /\ orders'[o].product = orders[o].product /\ orders[o].product \in Products
    BY <1>3 DEF WithStatus, TypeOK, OrderRow, RowShape, RowShapeOf
  <2>2. pos'[p].status \in Open /\ pos'[p].qty = pos[p].qty /\ pos'[p].status # "free"
    BY DEF Changes, Open
  <2>3. p # Null
    BY ConstantsAssumption
  <2> QED BY <1>3, <2>1, <2>2, <2>3 DEF RowShapeOf, OnTheWayOf
<1> QED BY <1>2, <1>3

\* Every step keeps the rows rightly on the way or off it.
LEMMA RowNext ==
  TypeOK /\ JobShape /\ RowShape /\ OnTheWayIsReal /\ [Next]_vars => RowShape' /\ OnTheWayIsReal'
<1> SUFFICES ASSUME TypeOK, JobShape, RowShape, OnTheWayIsReal, [Next]_vars
             PROVE  RowShape' /\ OnTheWayIsReal'
  OBVIOUS
<1>p. \A r \in Requests : /\ job[r] \in Job /\ JobShapeOf(r)
                          /\ job[r].pc \in {"send", "rollback", "cancel", "receive", "unreceive",
                                            "edit", "remove"} => job[r].po \in PoIds
  BY DEF TypeOK, JobShape, JobShapeOf
<1>k. \A p \in PoIds : pos[p].status # "free" => pos'[p].status # "free"
  BY KeptNext DEF Kept
<1>0. UNCHANGED <<orders, pos>> => RowShape' /\ OnTheWayIsReal'
  BY DEF RowShape, RowShapeOf, OnTheWayIsReal, OnTheWayOf
<1>1. ASSUME NEW r \in Requests, StartOf(r) PROVE RowShape' /\ OnTheWayIsReal'
  BY <1>1, <1>0, StartWrites
<1>2. ASSUME NEW r \in Requests,
             LockStepOf(r) \/ Abort(r) \/ EmailAccepted(r) \/ EmailThrows(r)
      PROVE  RowShape' /\ OnTheWayIsReal'
  BY <1>2, <1>0 DEF LockStepOf, CreateLock, ManualLock, NumberUnderLock, Abort, EmailAccepted, EmailThrows
<1>3. ASSUME NEW d \in OrderIds, RemoveQueuedOrder(d) PROVE RowShape' /\ OnTheWayIsReal'
  <2> SUFFICES ASSUME NEW o \in OrderIds PROVE RowShapeOf(o)' /\ OnTheWayOf(o)'
    BY DEF RowShape, OnTheWayIsReal
  <2>1. UNCHANGED pos /\ RowShapeOf(o) /\ OnTheWayOf(o)
    BY <1>3 DEF RemoveQueuedOrder, RowShape, OnTheWayIsReal
  <2>2. \/ orders'[o] = orders[o]
        \/ /\ orders[o].status = "pending" /\ orders'[o].status = "deleted"
           /\ orders'[o].product = orders[o].product /\ orders'[o].po = orders[o].po
    BY <1>3 DEF RemoveQueuedOrder, TypeOK, OrderRow
  <2> QED BY <2>1, <2>2 DEF RowShapeOf, OnTheWayOf
<1>4. ASSUME NEW r \in Requests, QueueCommit(r) PROVE RowShape' /\ OnTheWayIsReal'
  <2> SUFFICES ASSUME NEW o \in OrderIds PROVE RowShapeOf(o)' /\ OnTheWayOf(o)'
    BY DEF RowShape, OnTheWayIsReal
  <2>1. UNCHANGED pos /\ RowShapeOf(o) /\ OnTheWayOf(o) /\ job[r].line \in Products
    BY <1>4, <1>p DEF QueueCommit, RowShape, OnTheWayIsReal, JobShapeOf
  <2>2. \/ UNCHANGED orders
        \/ \E d \in OrderIds, q \in {job[r].entry[job[r].line]} : orders' = [orders EXCEPT ![d].qty = q]
        \/ \E d \in OrderIds, v \in {PlannedRow(job[r].line, job[r].entry[job[r].line])} :
             orders[d].status = "free" /\ orders' = [orders EXCEPT ![d] = v]
    BY <1>4, <1>p DEF QueueCommit, Job
  <2>3. \/ /\ orders'[o].status = orders[o].status
           /\ orders'[o].product = orders[o].product /\ orders'[o].po = orders[o].po
        \/ orders'[o] = PlannedRow(job[r].line, job[r].entry[job[r].line])
    BY <2>2 DEF TypeOK, OrderRow
  <2> QED BY <2>1, <2>3 DEF RowShapeOf, OnTheWayOf, PlannedRow
<1>5. ASSUME NEW r \in Requests, CreateCommit(r) PROVE RowShape' /\ OnTheWayIsReal'
  <2>1. CASE UNCHANGED <<orders, pos>>
    BY <2>1, <1>0
  <2>2. CASE ~ UNCHANGED <<orders, pos>>
    <3> SUFFICES ASSUME NEW o \in OrderIds PROVE RowShapeOf(o)' /\ OnTheWayOf(o)'
      BY DEF RowShape, OnTheWayIsReal
    <3>1. PICK p \in PoIds :
            /\ pos[p].status = "free"
            /\ pos' = [pos EXCEPT ![p] = NewDraft(r)]
            /\ orders' = [d \in OrderIds |-> IF d \in job[r].rows
                 THEN [orders[d] EXCEPT !.status = "ordered", !.po = p] ELSE orders[d]]
      BY <1>5, <2>2 DEF CreateCommit
    <3>2. pos'[p].status = "draft" /\ pos'[p].qty = job[r].qty
      BY <3>1 DEF TypeOK, NewDraft
    <3>3. CASE o \in job[r].rows
      <4>1. /\ orders'[o].status = "ordered" /\ orders'[o].po = p
            /\ orders'[o].product = orders[o].product
        <5>1. orders[o] \in OrderRow
          BY DEF TypeOK
        <5>2. orders'[o] = [orders[o] EXCEPT !.status = "ordered", !.po = p]
          BY <3>1, <3>3
        <5> QED BY ONLY <5>1, <5>2 DEF OrderRow
      <4>2. orders[o].product \in Products /\ job[r].qty[orders[o].product] > 0
        BY <1>5, <1>p, <3>3 DEF CreateCommit, JobShapeOf
      <4>3. p # Null
        BY ConstantsAssumption
      <4> QED BY <3>2, <4>1, <4>2, <4>3 DEF RowShapeOf, OnTheWayOf, Open
    <3>4. CASE o \notin job[r].rows
      <4>1. orders'[o] = orders[o]
        BY <3>1, <3>4
      <4>2. \A d \in PoIds : orders[o].status = "ordered" /\ orders[o].po = d =>
              pos'[d].status \in Open /\ pos'[d].qty[orders[o].product] > 0
        BY <3>1 DEF OnTheWayIsReal, OnTheWayOf, Open, TypeOK
      <4> QED BY <1>k, <4>1, <4>2, RowStays
    <3> QED BY <3>3, <3>4
  <2> QED BY <2>1, <2>2
<1>6. ASSUME NEW r \in Requests, ManualCommit(r) PROVE RowShape' /\ OnTheWayIsReal'
  <2> SUFFICES ASSUME NEW o \in OrderIds PROVE RowShapeOf(o)' /\ OnTheWayOf(o)'
    BY DEF RowShape, OnTheWayIsReal
  <2>1. PICK p \in PoIds :
          /\ pos[p].status = "free"
          /\ pos' = [pos EXCEPT ![p] = NewDraft(r)]
          /\ \E ids \in SUBSET {d \in OrderIds : orders[d].status = "free"} :
             \E line \in Bijection(ids, LinesOf(job[r].qty)) :
              orders' = [d \in OrderIds |-> IF d \in ids
                THEN [status |-> "ordered", product |-> line[d], po |-> p,
                      qty |-> job[r].qty[line[d]], origin |-> "manual"]
                ELSE orders[d]]
    BY <1>6 DEF ManualCommit
  <2>2. PICK ids \in SUBSET {d \in OrderIds : orders[d].status = "free"} :
             \E line \in Bijection(ids, LinesOf(job[r].qty)) :
              orders' = [d \in OrderIds |-> IF d \in ids
                THEN [status |-> "ordered", product |-> line[d], po |-> p,
                      qty |-> job[r].qty[line[d]], origin |-> "manual"]
                ELSE orders[d]]
    BY <2>1
  <2>3. Bijection(ids, LinesOf(job[r].qty)) \subseteq [ids -> LinesOf(job[r].qty)]
    BY DEF Bijection, Injection, Surjection, IsInjective
  <2>4. PICK line \in [ids -> LinesOf(job[r].qty)] :
              orders' = [d \in OrderIds |-> IF d \in ids
                THEN [status |-> "ordered", product |-> line[d], po |-> p,
                      qty |-> job[r].qty[line[d]], origin |-> "manual"]
                ELSE orders[d]]
    BY <2>2, <2>3
  <2>5. pos'[p].status = "draft" /\ pos'[p].qty = job[r].qty
    BY <2>1 DEF TypeOK, NewDraft
  <2>6. CASE o \in ids
    <3>1. /\ orders'[o].status = "ordered" /\ orders'[o].po = p
          /\ orders'[o].product = line[o] /\ line[o] \in LinesOf(job[r].qty)
      BY <2>4, <2>6
    <3>2. line[o] \in Products /\ job[r].qty[line[o]] > 0
      BY <3>1 DEF LinesOf
    <3>3. p # Null
      BY ConstantsAssumption
    <3> QED BY <2>5, <3>1, <3>2, <3>3 DEF RowShapeOf, OnTheWayOf, Open
  <2>7. CASE o \notin ids
    <3>1. orders'[o] = orders[o]
      BY <2>4, <2>7
    <3>2. \A d \in PoIds : orders[o].status = "ordered" /\ orders[o].po = d =>
            pos'[d].status \in Open /\ pos'[d].qty[orders[o].product] > 0
      BY <2>1 DEF OnTheWayIsReal, OnTheWayOf, Open, TypeOK
    <3> QED BY <1>k, <3>1, <3>2, RowStays
  <2> QED BY <2>6, <2>7
<1>7. ASSUME NEW r \in Requests, SendClaim(r) \/ SendRollback(r) PROVE RowShape' /\ OnTheWayIsReal'
  <2>1. job[r].po \in PoIds /\ UNCHANGED orders
    BY <1>7, <1>p DEF SendClaim, SendRollback
  <2>2. \/ UNCHANGED pos
        \/ \E s \in {"draft", "sent"} : Changes(job[r].po, s, pos[job[r].po].qty)
    BY <1>7, <2>1, PoEffects
  <2> QED BY <1>0, <2>1, <2>2, RowsStayOpen DEF Open
<1>8. ASSUME NEW r \in Requests, CancelCommit(r) PROVE RowShape' /\ OnTheWayIsReal'
  <2> SUFFICES ASSUME NEW o \in OrderIds PROVE RowShapeOf(o)' /\ OnTheWayOf(o)'
    BY DEF RowShape, OnTheWayIsReal
  <2> DEFINE p == job[r].po  R == Linked(p, "ordered", Products)
  <2>1. p \in PoIds /\ orders' = BackToQueue(R)
    BY <1>8, <1>p DEF CancelCommit
  <2>2. Changes(p, "cancelled", pos[p].qty)
    BY <1>8, <2>1, PoEffects
  <2>3. CASE o \in R
    <3>1. orders'[o] = [orders[o] EXCEPT !.status = "pending", !.po = Null]
      BY <2>1, <2>3 DEF BackToQueue
    <3>2. orders[o].status # "free"
      BY <2>3 DEF Linked
    <3> QED BY <3>1, <3>2, RowReturned
  <2>4. CASE o \notin R
    <3>1. orders'[o] = orders[o]
      BY <2>1, <2>4 DEF BackToQueue
    <3>2. orders[o].status = "ordered" => orders[o].po # p
      BY <2>4 DEF Linked, RowShape, RowShapeOf
    <3>3. \A d \in PoIds : orders[o].status = "ordered" /\ orders[o].po = d =>
            pos'[d].status \in Open /\ pos'[d].qty[orders[o].product] > 0
      BY <2>2, <3>2 DEF Changes, OnTheWayIsReal, OnTheWayOf
    <3> QED BY <1>k, <3>1, <3>3, RowStays
  <2> QED BY <2>3, <2>4
<1>9. ASSUME NEW r \in Requests, ReceiveCommit(r) PROVE RowShape' /\ OnTheWayIsReal'
  <2>1. job[r].po \in PoIds
    BY <1>9, <1>p DEF ReceiveCommit
  <2>2. PICK s \in {"received", "partially_received"} : Changes(job[r].po, s, pos[job[r].po].qty)
    BY <1>9, <2>1, PoEffects
  <2>3. \E S : orders' = WithStatus(Linked(job[r].po, "ordered", S), "completed")
    BY <1>9 DEF ReceiveCommit
  <2>4. \A S : /\ Linked(job[r].po, "ordered", S) \in SUBSET OrderIds
               /\ \A o \in Linked(job[r].po, "ordered", S) :
                    orders[o].po = job[r].po /\ orders[o].status = "ordered"
    BY DEF Linked
  <2>5. s \in Open
    BY DEF Open
  <2> QED BY <2>1, <2>2, <2>3, <2>4, <2>5, RowsRestated
<1>10. ASSUME NEW r \in Requests, UnreceiveCommit(r) PROVE RowShape' /\ OnTheWayIsReal'
  <2>1. job[r].po \in PoIds /\ LinesStillThere(r)
    BY <1>10, <1>p DEF UnreceiveCommit
  <2>2. PICK s \in {"sent", "received", "partially_received"} : Changes(job[r].po, s, pos[job[r].po].qty)
    BY <1>10, <2>1, PoEffects
  <2>3. PICK S \in SUBSET LinesOf(job[r].entry) :
          orders' = WithStatus(Linked(job[r].po, "completed", S), "ordered")
    BY <1>10 DEF UnreceiveCommit
  <2>4. /\ Linked(job[r].po, "completed", S) \in SUBSET OrderIds
        /\ \A o \in Linked(job[r].po, "completed", S) :
             /\ orders[o].po = job[r].po /\ orders[o].status = "completed"
             /\ pos[job[r].po].qty[orders[o].product] > 0
    BY <2>1 DEF Linked, LinesStillThere
  <2>5. s \in Open
    BY DEF Open
  <2> QED BY <2>1, <2>2, <2>3, <2>4, <2>5, RowsRestated
<1>11. ASSUME NEW r \in Requests, EditCommit(r) PROVE RowShape' /\ OnTheWayIsReal'
  <2> DEFINE p == job[r].po  x == job[r].line
  <2>1. p \in PoIds /\ UNCHANGED orders /\ x \in Products /\ job[r].entry[x] > 0
    BY <1>11, <1>p DEF EditCommit, JobShapeOf
  <2>2. UNCHANGED pos \/ Changes(p, "draft", [pos[p].qty EXCEPT ![x] = job[r].entry[x]])
    BY <1>11, <2>1, PoEffects
  <2>3. ASSUME Changes(p, "draft", [pos[p].qty EXCEPT ![x] = job[r].entry[x]]),
               NEW o \in OrderIds
        PROVE  RowShapeOf(o)' /\ OnTheWayOf(o)'
    <3>1. ASSUME NEW d \in PoIds, orders[o].status = "ordered", orders[o].po = d
          PROVE  pos'[d].status \in Open /\ pos'[d].qty[orders[o].product] > 0
      <4>1. pos[d].status \in Open /\ pos[d].qty[orders[o].product] > 0
        BY <3>1 DEF OnTheWayIsReal, OnTheWayOf
      <4>2. orders[o].product \in Products
        BY <3>1 DEF RowShape, RowShapeOf
      <4>3. pos[p].qty \in [Products -> 0..MaxQty]
        BY <2>1 DEF TypeOK, PurchaseOrder, Quantities
      <4>4. CASE d = p
        <5>1. pos'[d].status = "draft" /\ pos'[d].qty = [pos[p].qty EXCEPT ![x] = job[r].entry[x]]
          BY <2>3, <4>4 DEF Changes
        <5>2. [pos[p].qty EXCEPT ![x] = job[r].entry[x]][orders[o].product] > 0
          BY <2>1, <4>1, <4>2, <4>3, <4>4
        <5> QED BY <5>1, <5>2 DEF Open
      <4>5. CASE d # p
        BY <2>3, <4>1, <4>5 DEF Changes
      <4> QED BY <4>4, <4>5
    <3> QED BY <1>k, <2>1, <3>1, RowStays
  <2> QED BY <1>0, <2>1, <2>2, <2>3 DEF RowShape, OnTheWayIsReal
<1>12. ASSUME NEW r \in Requests, RemoveCommit(r) PROVE RowShape' /\ OnTheWayIsReal'
  <2> DEFINE p == job[r].po  x == job[r].line  R == Linked(p, "ordered", {x})
  <2>1. p \in PoIds /\ x \in Products
    BY <1>12, <1>p DEF RemoveCommit, JobShapeOf
  <2>2. \/ UNCHANGED <<pos, orders>>
        \/ Changes(p, "draft", [pos[p].qty EXCEPT ![x] = 0]) /\ orders' = BackToQueue(R)
    BY <1>12, <2>1, PoEffects
  <2>3. ASSUME Changes(p, "draft", [pos[p].qty EXCEPT ![x] = 0]), orders' = BackToQueue(R),
               NEW o \in OrderIds
        PROVE  RowShapeOf(o)' /\ OnTheWayOf(o)'
    <3>1. CASE o \in R
      <4>1. orders'[o] = [orders[o] EXCEPT !.status = "pending", !.po = Null]
        BY <2>3, <3>1 DEF BackToQueue
      <4>2. orders[o].status # "free"
        BY <3>1 DEF Linked
      <4> QED BY <4>1, <4>2, RowReturned
    <3>2. CASE o \notin R
      <4>1. orders'[o] = orders[o]
        BY <2>3, <3>2 DEF BackToQueue
      <4>2. ASSUME NEW d \in PoIds, orders[o].status = "ordered", orders[o].po = d
            PROVE  pos'[d].status \in Open /\ pos'[d].qty[orders[o].product] > 0
        <5>1. pos[d].status \in Open /\ pos[d].qty[orders[o].product] > 0
          BY <4>2 DEF OnTheWayIsReal, OnTheWayOf
        <5>2. orders[o].product \in Products
          BY <4>2 DEF RowShape, RowShapeOf
        <5>3. pos[p].qty \in [Products -> 0..MaxQty]
          BY <2>1 DEF TypeOK, PurchaseOrder, Quantities
        <5>4. CASE d = p
          <6>1. orders[o].product # x
            BY <3>2, <4>2, <5>4 DEF Linked
          <6>2. [pos[p].qty EXCEPT ![x] = 0][orders[o].product] = pos[p].qty[orders[o].product]
            BY <5>2, <5>3, <6>1
          <6>3. pos'[d].status = "draft" /\ pos'[d].qty = [pos[p].qty EXCEPT ![x] = 0]
            BY <2>3, <5>4 DEF Changes
          <6> QED BY <5>1, <5>4, <6>2, <6>3 DEF Open
        <5>5. CASE d # p
          BY <2>3, <5>1, <5>5 DEF Changes
        <5> QED BY <5>4, <5>5
      <4> QED BY <1>k, <4>1, <4>2, RowStays
    <3> QED BY <3>1, <3>2
  <2> QED BY <1>0, <2>2, <2>3 DEF RowShape, OnTheWayIsReal
<1>13. UNCHANGED vars => RowShape' /\ OnTheWayIsReal'
  BY <1>0 DEF vars
<1> QED BY <1>1, <1>2, <1>3, <1>4, <1>5, <1>6, <1>7, <1>8, <1>9, <1>10, <1>11, <1>12, <1>13
    DEF Next, StepOf

\* The queue invariant holds at the start and is kept by every step.
LEMMA QueueInvInit == Init => QueueInv
<1> SUFFICES ASSUME Init PROVE QueueInv
  OBVIOUS
<1>1. TypeOK
  BY TypeInit
<1>2. \A r \in Requests : job[r] = Idle
  BY DEF Init
<1>3. JobShape
  BY <1>2 DEF JobShape, JobShapeOf, Idle
<1>4. \A o \in OrderIds : \/ orders[o] = FreeOrder
                          \/ \E x \in Products : orders[o] = PlannedRow(x, 1)
  BY ConstantsAssumption DEF Init
<1>5. ASSUME NEW o \in OrderIds PROVE RowShapeOf(o) /\ OnTheWayOf(o)
  <2>1. CASE orders[o] = FreeOrder
    BY <2>1 DEF RowShapeOf, OnTheWayOf, FreeOrder
  <2>2. CASE \E x \in Products : orders[o] = PlannedRow(x, 1)
    BY <2>2 DEF RowShapeOf, OnTheWayOf, PlannedRow
  <2> QED BY <1>4, <2>1, <2>2
<1>6. RowShape /\ OnTheWayIsReal
  BY <1>5 DEF RowShape, OnTheWayIsReal
<1> QED BY <1>1, <1>3, <1>6 DEF QueueInv

LEMMA QueueInvNext == QueueInv /\ [Next]_vars => QueueInv'
  BY TypeNext, ShapeNext, RowNext DEF QueueInv

THEOREM QueueInvariant == Spec => []QueueInv
  BY QueueInvInit, QueueInvNext, PTL DEF Spec

\* Type correctness of the purchase-order tables, for any number of requests,
\* products, purchase orders and queue rows.
THEOREM TypesHold == Spec => []TypeOK
<1>1. QueueInv => TypeOK
  BY DEF QueueInv
<1> QED BY <1>1, QueueInvariant, PTL

\* Whatever creates, sends, cancellations, receipts, reversals and edits race,
\* a queue row marked "ordered" is on an open purchase order with a line for
\* its product, and a row back in the queue is on none (OnTheWayIsReal).
THEOREM NothingLostOnTheWay == Spec => []OnTheWayIsReal
<1>1. QueueInv => OnTheWayIsReal
  BY DEF QueueInv
<1> QED BY <1>1, QueueInvariant, PTL

-----------------------------------------------------------------------------
(* What rests on the two locks and on the claim: numbers, deliveries,      *)
(* frozen lines and receipts.                                              *)

\* The steps that write purchase orders; the others leave pos alone.
WritesPos(r) ==
    \/ CreateCommit(r) \/ ManualCommit(r) \/ SendClaim(r) \/ SendRollback(r)
    \/ CancelCommit(r) \/ ReceiveCommit(r) \/ UnreceiveCommit(r)
    \/ EditCommit(r) \/ RemoveCommit(r)

\* A step belongs to one request, or to none; the jobs of the others stay.
LEMMA OneStepper ==
  ASSUME TypeOK, [Next]_vars
  PROVE  \/ UNCHANGED vars
         \/ \E o \in OrderIds : RemoveQueuedOrder(o)
         \/ \E r \in Requests :
              /\ StartOf(r) \/ StepOf(r) \/ LockStepOf(r) \/ Abort(r)
              /\ \A s \in Requests \ {r} : job'[s] = job[s]
<1>1. ASSUME NEW r \in Requests, StartOf(r)
      PROVE  \A s \in Requests \ {r} : job'[s] = job[s]
  BY <1>1, StartWrites DEF TypeOK
<1>2. ASSUME NEW r \in Requests, StepOf(r)
      PROVE  \A s \in Requests \ {r} : job'[s] = job[s]
  BY <1>2 DEF TypeOK, StepOf, Finishes, QueueCommit, CreateCommit, ManualCommit, SendClaim,
     EmailAccepted, EmailThrows, SendRollback, CancelCommit, ReceiveCommit,
     UnreceiveCommit, EditCommit, RemoveCommit
<1>3. ASSUME NEW r \in Requests, LockStepOf(r) \/ Abort(r)
      PROVE  \A s \in Requests \ {r} : job'[s] = job[s]
  BY <1>3 DEF TypeOK, LockStepOf, CreateLock, ManualLock, NumberUnderLock, Abort, Finishes
<1> QED BY <1>1, <1>2, <1>3 DEF Next

\* Where a request starts, it is at one of these places, and pos stays.
LEMMA Started ==
  ASSUME TypeOK, NEW r \in Requests, StartOf(r)
  PROVE  /\ job[r] = Idle
         /\ job'[r].pc \in {"queue", "createWait", "manualWait", "send", "cancel",
                            "receive", "unreceive", "edit", "remove"}
         /\ UNCHANGED <<orders, pos, level, mail>>
         /\ job'[r].pc \in {"receive", "unreceive"} =>
              \E p \in PoIds, entry \in Totals, l \in Locations :
                ReceiveRead(r, p, entry, l) \/ UnreceiveRead(r, p, entry, l)
<1>1. job[r] = Idle /\ UNCHANGED <<orders, pos, level, mail>>
  BY StartWrites
<1>2. ASSUME NEW x \in Products, NEW q \in 1..MaxQty, QueueRead(r, x, q)
      PROVE  job'[r].pc = "queue"
  BY <1>2 DEF QueueRead, Starts, Idle, TypeOK
<1>3. ASSUME NEW ids \in SUBSET OrderIds, CreateRead(r, ids)
      PROVE  job'[r].pc = "createWait"
  BY <1>3 DEF CreateRead, Starts, Idle, TypeOK
<1>4. ASSUME NEW items \in Quantities, ManualStart(r, items)
      PROVE  job'[r].pc = "manualWait"
  BY <1>4 DEF ManualStart, Starts, Idle, TypeOK
<1>5. ASSUME NEW p \in PoIds, SendRead(r, p)
      PROVE  job'[r].pc = "send"
  BY <1>5 DEF SendRead, Starts, Idle, TypeOK
<1>6. ASSUME NEW p \in PoIds, CancelRead(r, p)
      PROVE  job'[r].pc = "cancel"
  BY <1>6 DEF CancelRead, Starts, Idle, TypeOK
<1>7. ASSUME NEW p \in PoIds, NEW entry \in Totals, NEW l \in Locations, ReceiveRead(r, p, entry, l)
      PROVE  job'[r].pc = "receive"
  BY <1>7 DEF ReceiveRead, Starts, Idle, TypeOK
<1>8. ASSUME NEW p \in PoIds, NEW entry \in Totals, NEW l \in Locations, UnreceiveRead(r, p, entry, l)
      PROVE  job'[r].pc = "unreceive"
  BY <1>8 DEF UnreceiveRead, Starts, Idle, TypeOK
<1>9. ASSUME NEW p \in PoIds, NEW x \in Products, NEW q \in 1..MaxQty, EditRead(r, p, x, q)
      PROVE  job'[r].pc = "edit"
  BY <1>9 DEF EditRead, Starts, Idle, TypeOK
<1>10. ASSUME NEW p \in PoIds, NEW x \in Products, RemoveRead(r, p, x)
      PROVE  job'[r].pc = "remove"
  BY <1>10 DEF RemoveRead, Starts, Idle, TypeOK
<1> QED BY <1>1, <1>2, <1>3, <1>4, <1>5, <1>6, <1>7, <1>8, <1>9, <1>10 DEF StartOf

\* A step changes purchase orders only by one of the commits that write them.
LEMMA Writers ==
  ASSUME TypeOK, [Next]_vars
  PROVE  UNCHANGED pos \/ \E r \in Requests : WritesPos(r)
<1>1. CASE UNCHANGED vars \/ \E o \in OrderIds : RemoveQueuedOrder(o)
  BY <1>1 DEF vars, RemoveQueuedOrder
<1>2. ASSUME NEW r \in Requests, StartOf(r) PROVE UNCHANGED pos
  BY <1>2, Started
<1>3. ASSUME NEW r \in Requests, LockStepOf(r) \/ Abort(r) PROVE UNCHANGED pos
  BY <1>3 DEF LockStepOf, CreateLock, ManualLock, NumberUnderLock, Abort
<1>4. ASSUME NEW r \in Requests, StepOf(r) PROVE UNCHANGED pos \/ WritesPos(r)
  BY <1>4 DEF StepOf, WritesPos, QueueCommit, EmailAccepted, EmailThrows
<1> QED BY <1>1, <1>2, <1>3, <1>4 DEF Next

-----------------------------------------------------------------------------
(* Numbers.                                                                *)

Numbering == {"create", "manual"}

\* No step but a create's commit writes a number.
LEMMA NumbersKept ==
  ASSUME TypeOK, JobShape, NEW r \in Requests, WritesPos(r),
         ~ CreateCommit(r), ~ ManualCommit(r)
  PROVE  \A p \in PoIds : pos'[p].number = pos[p].number
<1>1. job[r].po \in PoIds
  BY DEF JobShape, JobShapeOf, WritesPos, SendClaim, SendRollback, CancelCommit,
     ReceiveCommit, UnreceiveCommit, EditCommit, RemoveCommit
<1>2. pos[job[r].po] \in PurchaseOrder
  BY <1>1 DEF TypeOK
<1>3. CASE SendClaim(r) \/ SendRollback(r) \/ CancelCommit(r)
  BY <1>1, <1>3 DEF SendClaim, SendRollback, CancelCommit, TypeOK, PurchaseOrder
<1>4. CASE ReceiveCommit(r)
  BY <1>1, <1>4 DEF ReceiveCommit, TypeOK, PurchaseOrder
<1>5. CASE UnreceiveCommit(r)
  BY <1>1, <1>5 DEF UnreceiveCommit, TypeOK, PurchaseOrder
<1>6. CASE EditCommit(r)
  <2> DEFINE x == job[r].line  n == job[r].entry[x]  q == [job[r].qty EXCEPT ![x] = n]
  <2>1. \/ UNCHANGED pos
        \/ pos' = [pos EXCEPT ![job[r].po].qty[x] = n, ![job[r].po].subtotal = q]
    BY <1>6 DEF EditCommit
  <2> HIDE DEF x, n, q
  <2>2. ASSUME pos' = [pos EXCEPT ![job[r].po].qty[x] = n, ![job[r].po].subtotal = q]
        PROVE  \A p \in PoIds : pos'[p].number = pos[p].number
    BY <1>1, <2>2 DEF TypeOK, PurchaseOrder
  <2> QED BY <2>1, <2>2
<1>7. CASE RemoveCommit(r)
  <2> DEFINE x == job[r].line  q == [job[r].qty EXCEPT ![x] = 0]
  <2>1. \/ UNCHANGED pos
        \/ pos' = [pos EXCEPT ![job[r].po].qty[x] = 0, ![job[r].po].rcvd[x] = 0,
                                  ![job[r].po].subtotal = q]
    BY <1>7 DEF RemoveCommit
  <2> HIDE DEF x, q
  <2>2. ASSUME pos' = [pos EXCEPT ![job[r].po].qty[x] = 0, ![job[r].po].rcvd[x] = 0,
                                  ![job[r].po].subtotal = q]
        PROVE  \A p \in PoIds : pos'[p].number = pos[p].number
    BY <1>1, <2>2 DEF TypeOK, PurchaseOrder
  <2> QED BY <2>1, <2>2
<1> QED BY <1>3, <1>4, <1>5, <1>6, <1>7 DEF WritesPos

\* A request that is not numbering takes no number, whatever step it takes.
LEMMA NumbersStep ==
  ASSUME TypeOK, JobShape, NumbersNeverCollide, [Next]_vars
  PROVE  NumbersNeverCollide'
<1> DEFINE Quiet == /\ \A p \in PoIds : pos'[p].number = pos[p].number
                    /\ \A s \in Requests : job'[s].pc \in Numbering => job'[s] = job[s]
<1>0. ASSUME Quiet PROVE NumbersNeverCollide'
  BY <1>0 DEF NumbersNeverCollide, Numbering
<1> HIDE DEF Quiet
<1>1. CASE UNCHANGED vars \/ \E o \in OrderIds : RemoveQueuedOrder(o)
  <2>1. UNCHANGED <<pos, job>>
    BY <1>1 DEF vars, RemoveQueuedOrder
  <2> QED BY <1>0, <2>1 DEF Quiet
<1>2. ASSUME NEW r \in Requests, \A s \in Requests \ {r} : job'[s] = job[s],
             UNCHANGED pos, job'[r].pc \notin Numbering
      PROVE  NumbersNeverCollide'
  BY <1>0, <1>2 DEF Quiet
<1>3. ASSUME NEW r \in Requests, \A s \in Requests \ {r} : job'[s] = job[s], StartOf(r)
      PROVE  NumbersNeverCollide'
  BY <1>2, <1>3, Started DEF Numbering
<1>4. ASSUME NEW r \in Requests, \A s \in Requests \ {r} : job'[s] = job[s], Abort(r)
      PROVE  NumbersNeverCollide'
  BY <1>2, <1>4 DEF Abort, Finishes, Idle, Numbering, TypeOK
<1>5. ASSUME NEW r \in Requests, \A s \in Requests \ {r} : job'[s] = job[s], LockStepOf(r)
      PROVE  NumbersNeverCollide'
  <2>1. PICK n \in 1..MaxNumber, to \in Numbering :
          /\ NumberLockFree /\ IsNextPoNumber(n) /\ UNCHANGED pos
          /\ job' = [job EXCEPT ![r].pc = to, ![r].number = n]
    BY <1>5 DEF LockStepOf, CreateLock, ManualLock, NumberUnderLock, Numbering
  <2>2. job'[r].number = n /\ \A p \in PoIds : n > pos[p].number
    BY <2>1 DEF TypeOK, Job, IsNextPoNumber
  <2>3. \A s \in Requests : job'[s].pc \in Numbering => s = r
    BY <1>5, <2>1 DEF NumberLockFree, Numbering
  <2> QED BY <2>1, <2>2, <2>3 DEF NumbersNeverCollide, Numbering
<1>6. ASSUME NEW r \in Requests, \A s \in Requests \ {r} : job'[s] = job[s],
             CreateCommit(r) \/ ManualCommit(r)
      PROVE  NumbersNeverCollide'
  <2>1. job[r].pc \in Numbering /\ job'[r] = Idle
    BY <1>6 DEF CreateCommit, ManualCommit, Finishes, Numbering, TypeOK
  <2>2. \A s \in Requests : job'[s].pc \notin Numbering
    BY <1>6, <2>1 DEF NumbersNeverCollide, Numbering, Idle
  <2> QED BY <2>2 DEF NumbersNeverCollide, Numbering
<1>7. ASSUME NEW r \in Requests, \A s \in Requests \ {r} : job'[s] = job[s],
             StepOf(r), ~ CreateCommit(r), ~ ManualCommit(r)
      PROVE  NumbersNeverCollide'
  <2>1. \A p \in PoIds : pos'[p].number = pos[p].number
    <3>1. CASE WritesPos(r)
      BY <1>7, <3>1, NumbersKept
    <3>2. CASE ~ WritesPos(r)
      BY <1>7, <3>2 DEF StepOf, WritesPos, QueueCommit, EmailAccepted, EmailThrows
    <3> QED BY <3>1, <3>2
  <2>2. job'[r] = Idle \/ job'[r].pc \in {"emailing", "rollback"}
    <3>1. CASE SendClaim(r) \/ EmailThrows(r)
      BY <3>1 DEF SendClaim, EmailThrows, Finishes, TypeOK, Job
    <3>2. CASE ~ SendClaim(r) /\ ~ EmailThrows(r)
      BY <1>7, <3>2 DEF StepOf, Finishes, TypeOK, QueueCommit, EmailAccepted,
         SendRollback, CancelCommit, ReceiveCommit, UnreceiveCommit, EditCommit, RemoveCommit
    <3> QED BY <3>1, <3>2
  <2>3. job'[r].pc \notin Numbering
    BY <2>2 DEF Idle, Numbering
  <2> QED BY <1>0, <1>7, <2>1, <2>3 DEF Quiet
<1> QED BY <1>1, <1>3, <1>4, <1>5, <1>6, <1>7, OneStepper

\* The caller "serialises creation (advisory lock) so max+1 stays race-free" (po-number.ts):
\* however many creates are under way, the number one of them holds is larger
\* than every number issued, and no other holds one.
THEOREM NumbersAreUnique == Spec => []NumbersNeverCollide
<1>1. Init => NumbersNeverCollide
  BY DEF Init, NumbersNeverCollide, Idle
<1>2. QueueInv /\ NumbersNeverCollide /\ [Next]_vars => NumbersNeverCollide'
  BY NumbersStep DEF QueueInv
<1> QED BY <1>1, <1>2, QueueInvariant, PTL DEF Spec

-----------------------------------------------------------------------------
(* Deliveries and frozen lines.                                            *)

PastClaim == {"emailing", "rollback"}

\* A purchase order that has left draft, and has not just been created.
Left(p) == pos[p].status \notin {"free", "draft"}

\* An order that left draft keeps its lines, and goes back to draft only when
\* its sender hands it back.
LEMMA LeftStays ==
  ASSUME TypeOK, JobShape, [Next]_vars, NEW p \in PoIds, Left(p)
  PROVE  /\ pos'[p].qty = pos[p].qty
         /\ Left(p)' \/ \E r \in Requests : job[r].po = p /\ SendRollback(r)
<1>1. CASE UNCHANGED pos
  BY <1>1 DEF Left
<1>2. ASSUME NEW r \in Requests, WritesPos(r)
      PROVE  /\ pos'[p].qty = pos[p].qty
             /\ Left(p)' \/ \E s \in Requests : job[s].po = p /\ SendRollback(s)
  <2>1. CASE CreateCommit(r) \/ ManualCommit(r)
    <3>1. pos'[p] = pos[p]
      BY <2>1 DEF CreateCommit, ManualCommit, Left, TypeOK
    <3> QED BY <3>1 DEF Left
  <2>2. CASE EditCommit(r) \/ RemoveCommit(r)
    <3>1. pos'[p] = pos[p]
      BY <2>2 DEF EditCommit, RemoveCommit, StillDraft, Left, TypeOK
    <3> QED BY <3>1 DEF Left
  <2>3. CASE SendClaim(r) \/ SendRollback(r) \/ CancelCommit(r) \/ ReceiveCommit(r)
             \/ UnreceiveCommit(r)
    <3>1. job[r].po \in PoIds
      BY <2>3 DEF JobShape, JobShapeOf, SendClaim, SendRollback, CancelCommit,
         ReceiveCommit, UnreceiveCommit
    <3>2. \/ UNCHANGED pos
          \/ \E s \in {"sent", "cancelled", "received", "partially_received"} :
               Changes(job[r].po, s, pos[job[r].po].qty)
          \/ SendRollback(r) /\ Changes(job[r].po, "draft", pos[job[r].po].qty)
      BY <2>3, <3>1, PoEffects
    <3> QED BY <1>1, <3>1, <3>2 DEF Changes, Left
  <2> QED BY <1>2, <2>1, <2>2, <2>3 DEF WritesPos
<1> QED BY <1>1, <1>2, Writers

\* "A sent order is changed by talking to the supplier" (edit-po-lines.ts):
\* no step of anybody changes the lines of an order that has left draft.
THEOREM LinesFreeze == Spec => SentLinesFrozen
<1>1. QueueInv /\ [Next]_vars =>
        [\A p \in PoIds : pos[p].status \notin {"free", "draft"} =>
           pos'[p].qty = pos[p].qty]_vars
  BY LeftStays DEF QueueInv, Left
<1> QED BY <1>1, QueueInvariant, PTL DEF Spec, SentLinesFrozen

Sender(r, p) == job[r].po = p /\ job[r].pc \in PastClaim

\* SenderInv, for one purchase order.
SenderOf(p) ==
    /\ \A r \in Requests : Sender(r, p) => Left(p)
    /\ \A r, s \in Requests : Sender(r, p) /\ Sender(s, p) => r = s
    /\ mail[p].accepted > 0 => Left(p) /\ \A r \in Requests : ~ Sender(r, p)
    /\ mail[p].accepted <= 1

LEMMA SenderParts == SenderInv <=> \A p \in PoIds : SenderOf(p)
  BY DEF SenderInv, SenderOf, Sender, Left, PastClaim

\* A step that makes nobody a sender and delivers nothing keeps the invariant,
\* if the order does not return to draft.
LEMMA SenderQuiet ==
  ASSUME NEW p \in PoIds, SenderOf(p), Left(p) => Left(p)',
         \A r \in Requests : Sender(r, p)' => Sender(r, p),
         mail'[p].accepted = mail[p].accepted
  PROVE  SenderOf(p)'
  BY DEF SenderOf

LEMMA SenderStep ==
  ASSUME TypeOK, JobShape, SenderInv, [Next]_vars
  PROVE  SenderInv'
<1> SUFFICES ASSUME NEW p \in PoIds PROVE SenderOf(p)'
  BY DEF SenderInv, SenderOf, Sender, Left, PastClaim
<1>0. SenderOf(p)
  BY SenderParts
<1>1. CASE UNCHANGED vars \/ \E o \in OrderIds : RemoveQueuedOrder(o)
  <2>1. UNCHANGED <<pos, job, mail>>
    BY <1>1 DEF vars, RemoveQueuedOrder
  <2> QED BY <1>0, <2>1 DEF SenderOf, Sender, Left
<1>2. ASSUME NEW r \in Requests, \A s \in Requests \ {r} : job'[s] = job[s],
             job'[r].pc \notin PastClaim,
             ~ SendRollback(r), mail' = mail
      PROVE  SenderOf(p)'
  <2>1. \A s \in Requests : Sender(s, p)' => Sender(s, p)
    BY <1>2 DEF Sender
  <2>2. Left(p) => Left(p)'
    <3>1. ASSUME NEW s \in Requests, SendRollback(s) PROVE s = r
      <4>1. job[s].pc = "rollback" /\ job'[s] = Idle
        BY <3>1 DEF SendRollback, Finishes, TypeOK
      <4> QED BY <1>2, <4>1 DEF Idle
    <3> QED BY <1>2, <3>1, LeftStays
  <2> QED BY <1>0, <1>2, <2>1, <2>2, SenderQuiet
<1>3. ASSUME NEW r \in Requests, \A s \in Requests \ {r} : job'[s] = job[s],
             StartOf(r) \/ LockStepOf(r) \/ Abort(r)
      PROVE  SenderOf(p)'
  <2>1. CASE StartOf(r)
    <3>1. job'[r].pc \notin PastClaim /\ mail' = mail /\ job[r] = Idle
      BY <2>1, Started DEF PastClaim
    <3>2. ~ SendRollback(r)
      BY <3>1 DEF SendRollback, Idle
    <3> QED BY <1>2, <1>3, <3>1, <3>2
  <2>2. CASE LockStepOf(r)
    <3>1. /\ job'[r].pc \in Numbering /\ mail' = mail
          /\ job[r].pc \in {"createWait", "manualWait"}
      BY <2>2 DEF LockStepOf, CreateLock, ManualLock, NumberUnderLock, Numbering, TypeOK, Job
    <3> QED BY <1>2, <1>3, <3>1 DEF SendRollback, Numbering, PastClaim
  <2>3. CASE Abort(r)
    <3>1. job'[r] = Idle /\ UNCHANGED <<mail, pos>>
      BY <2>3 DEF Abort, Finishes, TypeOK
    <3>2. \A s \in Requests : Sender(s, p)' => Sender(s, p)
      BY <1>3, <3>1 DEF Sender, Idle, PastClaim
    <3> QED BY <1>0, <3>1, <3>2, SenderQuiet DEF Left
  <2> QED BY <1>3, <2>1, <2>2, <2>3
<1>4. ASSUME NEW r \in Requests, \A s \in Requests \ {r} : job'[s] = job[s], SendClaim(r)
      PROVE  SenderOf(p)'
  <2>1. CASE StillDraft(job[r].po)
    <3>1. /\ pos' = [pos EXCEPT ![job[r].po].status = "sent"] /\ mail' = mail
          /\ job' = [job EXCEPT ![r].pc = "emailing"]
      BY <1>4, <2>1 DEF SendClaim
    <3>2. job'[r].po = job[r].po
      BY <3>1 DEF TypeOK, Job
    <3>3. CASE job[r].po = p
      <4>1. Left(p)'
        BY <3>1, <3>3 DEF Left, TypeOK, PurchaseOrder
      <4>2. ~ Left(p)
        BY <2>1, <3>3 DEF Left, StillDraft
      <4>3. /\ \A s \in Requests : ~ Sender(s, p)
            /\ ~ mail[p].accepted > 0 /\ mail[p].accepted <= 1
        BY <1>0, <4>2 DEF SenderOf
      <4>4. \A s \in Requests : Sender(s, p)' => s = r
        BY <1>4, <4>3 DEF Sender
      <4> QED BY <3>1, <4>1, <4>3, <4>4 DEF SenderOf
    <3>4. CASE job[r].po # p
      <4>1. \A s \in Requests : Sender(s, p)' => Sender(s, p)
        BY <1>4, <3>2, <3>4 DEF Sender
      <4>2. pos'[p] = pos[p]
        BY <3>1, <3>4 DEF TypeOK
      <4> QED BY <1>0, <3>1, <4>1, <4>2, SenderQuiet DEF Left
    <3> QED BY <3>3, <3>4
  <2>2. CASE ~ StillDraft(job[r].po)
    <3>1. job'[r] = Idle /\ mail' = mail /\ job[r].pc = "send"
      BY <1>4, <2>2 DEF SendClaim, Finishes, TypeOK
    <3>2. job'[r].pc \notin PastClaim /\ ~ SendRollback(r)
      BY <3>1 DEF SendRollback, Idle, PastClaim
    <3> QED BY <1>2, <1>4, <3>1, <3>2
  <2> QED BY <2>1, <2>2
<1>5. ASSUME NEW r \in Requests, \A s \in Requests \ {r} : job'[s] = job[s], EmailAccepted(r)
      PROVE  SenderOf(p)'
  <2>1. /\ job[r].pc = "emailing" /\ job'[r] = Idle /\ UNCHANGED pos
        /\ mail' = [mail EXCEPT ![job[r].po] = [accepted |-> @.accepted + 1, doc |-> job[r].qty]]
    BY <1>5 DEF EmailAccepted, Finishes, TypeOK
  <2>2. CASE job[r].po = p
    <3>1. Sender(r, p)
      BY <2>1, <2>2 DEF Sender, PastClaim
    <3>2. /\ Left(p) /\ ~ mail[p].accepted > 0
          /\ \A s \in Requests : Sender(s, p) => s = r
      BY <1>0, <3>1 DEF SenderOf
    <3>3. \A s \in Requests : ~ Sender(s, p)'
      BY <1>5, <2>1, <3>2 DEF Sender, Idle, PastClaim
    <3>4. mail'[p].accepted = mail[p].accepted + 1 /\ mail[p].accepted \in Nat
      BY <2>1, <2>2 DEF TypeOK
    <3> QED BY <2>1, <3>2, <3>3, <3>4 DEF SenderOf, Left
  <2>3. CASE job[r].po # p
    <3>1. mail'[p] = mail[p]
      BY <2>1, <2>3 DEF TypeOK
    <3>2. \A s \in Requests : Sender(s, p)' => Sender(s, p)
      BY <1>5, <2>1 DEF Sender, Idle, PastClaim
    <3> QED BY <1>0, <2>1, <3>1, <3>2, SenderQuiet DEF Left
  <2> QED BY <2>2, <2>3
<1>6. ASSUME NEW r \in Requests, \A s \in Requests \ {r} : job'[s] = job[s], EmailThrows(r)
      PROVE  SenderOf(p)'
  <2>1. /\ job[r].pc = "emailing" /\ UNCHANGED pos
        /\ job' = [job EXCEPT ![r].pc = "rollback"]
        /\ \/ mail' = mail
           \/ mail' = [mail EXCEPT ![job[r].po].doc = job[r].qty]
    BY <1>6 DEF EmailThrows
  <2>2. mail'[p].accepted = mail[p].accepted
    BY <2>1 DEF TypeOK
  <2>3. job'[r].po = job[r].po
    BY <2>1 DEF TypeOK, Job
  <2>4. \A s \in Requests : Sender(s, p)' => Sender(s, p)
    BY <1>6, <2>1, <2>3 DEF Sender, PastClaim
  <2> QED BY <1>0, <2>1, <2>2, <2>4, SenderQuiet DEF Left
<1>7. ASSUME NEW r \in Requests, \A s \in Requests \ {r} : job'[s] = job[s], SendRollback(r)
      PROVE  SenderOf(p)'
  <2>1. /\ job[r].pc = "rollback" /\ job'[r] = Idle /\ mail' = mail
        /\ \/ UNCHANGED pos
           \/ pos' = [pos EXCEPT ![job[r].po].status = "draft"]
    BY <1>7 DEF SendRollback, Finishes, TypeOK
  <2>2. CASE job[r].po = p
    <3>1. Sender(r, p)
      BY <2>1, <2>2 DEF Sender, PastClaim
    <3>2. /\ ~ mail[p].accepted > 0 /\ mail[p].accepted <= 1
          /\ \A s \in Requests : Sender(s, p) => s = r
      BY <1>0, <3>1 DEF SenderOf
    <3>3. \A s \in Requests : ~ Sender(s, p)'
      BY <1>7, <2>1, <3>2 DEF Sender, Idle, PastClaim
    <3> QED BY <2>1, <3>2, <3>3 DEF SenderOf
  <2>3. CASE job[r].po # p
    <3>1. pos'[p] = pos[p]
      BY <2>1, <2>3 DEF TypeOK
    <3>2. \A s \in Requests : Sender(s, p)' => Sender(s, p)
      BY <1>7, <2>1 DEF Sender, Idle, PastClaim
    <3> QED BY <1>0, <2>1, <3>1, <3>2, SenderQuiet DEF Left
  <2> QED BY <2>2, <2>3
<1>8. ASSUME NEW r \in Requests, \A s \in Requests \ {r} : job'[s] = job[s],
             \/ QueueCommit(r) \/ CreateCommit(r) \/ ManualCommit(r) \/ CancelCommit(r)
             \/ ReceiveCommit(r) \/ UnreceiveCommit(r) \/ EditCommit(r) \/ RemoveCommit(r)
      PROVE  SenderOf(p)'
  <2>1. job'[r] = Idle /\ mail' = mail /\ job[r].pc # "rollback"
    BY <1>8 DEF Finishes, TypeOK, QueueCommit, CreateCommit, ManualCommit, CancelCommit,
       ReceiveCommit, UnreceiveCommit, EditCommit, RemoveCommit
  <2>2. job'[r].pc \notin PastClaim /\ ~ SendRollback(r)
    BY <2>1 DEF SendRollback, Idle, PastClaim
  <2> QED BY <1>2, <1>8, <2>1, <2>2
<1> QED BY <1>1, <1>3, <1>4, <1>5, <1>6, <1>7, <1>8, OneStepper DEF StepOf

\* The claim decides who sends (sendPoToSupplier, send-po.ts): whatever sends, failures, hand-backs
\* and crashes there are, the supplier accepts an order at most once, and no
\* two requests are past its claim.
THEOREM SentOnce == Spec => []DeliveredOnce
<1>1. Init => SenderInv
  <2> SUFFICES ASSUME Init, NEW p \in PoIds PROVE SenderOf(p)
    BY SenderParts
  <2>1. \A r \in Requests : ~ Sender(r, p)
    BY DEF Init, Sender, Idle, PastClaim
  <2>2. mail[p].accepted = 0
    BY DEF Init
  <2> QED BY <2>1, <2>2 DEF SenderOf
<1>2. QueueInv /\ SenderInv /\ [Next]_vars => SenderInv'
  BY SenderStep DEF QueueInv
<1>3. SenderInv => DeliveredOnce
  BY SenderParts DEF SenderOf, Sender, PastClaim, DeliveredOnce
<1> QED BY <1>1, <1>2, <1>3, QueueInvariant, PTL DEF Spec

-----------------------------------------------------------------------------
(* Receipts.  While email does not fail nobody hands an order back, and an *)
(* order that left draft stays so: what is read under the lock is current. *)

NoHandBack == \A r \in Requests : job[r].pc # "rollback"

Holder(r) == job[r].pc \in {"receive", "unreceive"}

\* LockedReadIsCurrent, for one request.
LockedOf(r) ==
    Holder(r) =>
      /\ \A s \in Requests : Holder(s) /\ job[s].po = job[r].po => s = r
      /\ Left(job[r].po)
      /\ job[r].qty = pos[job[r].po].qty
      /\ job[r].rcvd = pos[job[r].po].rcvd
      /\ LinesOf(job[r].entry) # {}
      /\ job[r].pc = "receive" => EachReceiptFits(job[r].po, job[r].entry)
      /\ job[r].pc = "unreceive" => EachReversalFits(job[r].po, job[r].entry)

LEMMA LockedParts == LockedReadIsCurrent <=> \A r \in Requests : LockedOf(r)
  BY DEF LockedReadIsCurrent, LockedOf, Holder, Left

\* StatusReflectsReceipts, for one purchase order; and what is not a line of
\* the order has nothing in.
PoOk(p) ==
    /\ \A x \in Products : pos[p].qty[x] = 0 => pos[p].rcvd[x] = 0
    /\ pos[p].status \in {"free", "draft", "sent"} => \A x \in Products : pos[p].rcvd[x] = 0
    /\ pos[p].status = "received" => \E x \in Products : pos[p].rcvd[x] # 0
    /\ pos[p].status = "received" => \A x \in Products : pos[p].rcvd[x] >= pos[p].qty[x]
    /\ pos[p].status = "partially_received" =>
         ~ \A x \in Products : pos[p].rcvd[x] >= pos[p].qty[x]

\* QueueFollowsReceipts, for one row and one order; and a row is only
\* completed by units that came in.
RowOk(o, p) ==
    LET x == orders[o].product
        full == pos[p].rcvd[x] >= pos[p].qty[x]
    IN orders[o].po = p => /\ orders[o].status = "completed" => full /\ pos[p].qty[x] > 0
                           /\ orders[o].status = "ordered" => ~full

ReceiptInv ==
    /\ NoHandBack
    /\ \A r \in Requests : LockedOf(r)
    /\ \A p \in PoIds : PoOk(p)
    /\ \A o \in OrderIds, p \in PoIds : RowOk(o, p)

\* Quantities are numbers.
LEMMA Numeric ==
  ASSUME TypeOK
  PROVE  /\ \A p \in PoIds, x \in Products : pos[p].qty[x] \in Nat /\ pos[p].rcvd[x] \in Int
         /\ \A r \in Requests, x \in Products :
              job[r].qty[x] \in Nat /\ job[r].rcvd[x] \in Int /\ job[r].entry[x] \in Nat
<1>1. \A q \in Quantities, x \in Products : q[x] \in Nat
  BY ConstantsAssumption DEF Quantities
<1>2. \A p \in PoIds : pos[p].qty \in Quantities /\ pos[p].rcvd \in [Products -> Int]
  BY DEF TypeOK, PurchaseOrder
<1>3. \A r \in Requests : /\ job[r].qty \in Quantities /\ job[r].entry \in [Products -> Nat]
                          /\ job[r].rcvd \in [Products -> Int]
  BY DEF TypeOK, Job
<1> QED BY <1>1, <1>2, <1>3

\* A receipt adds what was entered to what the order has in, and leaves the
\* status that says so; every other order stays.
LEMMA ReceiptWritten ==
  ASSUME TypeOK, JobShape, NEW r \in Requests, LockedOf(r), ReceiveCommit(r)
  PROVE  /\ job[r].po \in PoIds
         /\ \A d \in PoIds \ {job[r].po} : pos'[d] = pos[d]
         /\ pos'[job[r].po].qty = pos[job[r].po].qty
         /\ \A x \in Products : pos'[job[r].po].rcvd[x] = pos[job[r].po].rcvd[x] + job[r].entry[x]
         /\ pos'[job[r].po].status =
              IF AllFull(pos[job[r].po].qty, pos'[job[r].po].rcvd)
              THEN "received" ELSE "partially_received"
         /\ orders' = WithStatus(Linked(job[r].po, "ordered",
              {x \in LinesOf(job[r].entry) : pos'[job[r].po].rcvd[x] >= pos[job[r].po].qty[x]}),
              "completed")
<1> DEFINE p == job[r].po  q == pos[p].qty  rcvd == RcvdAfterReceipt(r)
           w == WrittenRcvd(r, rcvd)
           st == IF AllFull(q, rcvd) THEN "received" ELSE "partially_received"
<1>1. /\ p \in PoIds /\ job[r].qty = q /\ job[r].rcvd = pos[p].rcvd
      /\ pos' = [pos EXCEPT ![p].rcvd = w, ![p].status = st]
      /\ orders' = WithStatus(Linked(p, "ordered",
           {x \in LinesOf(job[r].entry) : rcvd[x] >= q[x]}), "completed")
  BY DEF ReceiveCommit, JobShape, JobShapeOf, LockedOf, Holder
<1>2. \A x \in Products : /\ w[x] = pos[p].rcvd[x] + job[r].entry[x]
                          /\ rcvd[x] = w[x]
  <2> SUFFICES ASSUME NEW x \in Products
               PROVE  w[x] = pos[p].rcvd[x] + job[r].entry[x] /\ rcvd[x] = w[x]
    OBVIOUS
  <2>1. /\ pos[p].rcvd[x] \in Int /\ job[r].entry[x] \in Nat
        /\ job[r].rcvd[x] = pos[p].rcvd[x]
    BY <1>1, Numeric
  <2>2. rcvd[x] = job[r].rcvd[x] + job[r].entry[x]
    BY DEF RcvdAfterReceipt
  <2>3. w[x] = IF job[r].entry[x] > 0 THEN rcvd[x] ELSE pos[p].rcvd[x]
    BY DEF WrittenRcvd
  <2> HIDE DEF p, w, rcvd
  <2> QED BY <2>1, <2>2, <2>3
<1>3. AllFull(q, rcvd) <=> AllFull(q, w)
  BY <1>2 DEF AllFull, LinesOf
<1>4. {x \in LinesOf(job[r].entry) : rcvd[x] >= q[x]} = {x \in LinesOf(job[r].entry) : w[x] >= q[x]}
  BY <1>2 DEF LinesOf
<1> HIDE DEF p, q, rcvd, w, st
<1>5. /\ pos'[p].rcvd = w /\ pos'[p].status = st /\ pos'[p].qty = pos[p].qty
      /\ \A d \in PoIds \ {p} : pos'[d] = pos[d]
  BY <1>1 DEF TypeOK, PurchaseOrder
<1>6. st = IF AllFull(q, w) THEN "received" ELSE "partially_received"
  BY <1>3 DEF st
<1>7. orders' = WithStatus(Linked(p, "ordered",
        {x \in LinesOf(job[r].entry) : pos'[p].rcvd[x] >= q[x]}), "completed")
  BY <1>1, <1>4, <1>5
<1>8. /\ \A x \in Products : pos'[p].rcvd[x] = pos[p].rcvd[x] + job[r].entry[x]
      /\ pos'[p].status = IF AllFull(q, pos'[p].rcvd)
                          THEN "received" ELSE "partially_received"
  BY <1>2, <1>5, <1>6
<1> QED BY <1>1, <1>5, <1>7, <1>8 DEF p, q

\* A reversal takes what was entered off again.
LEMMA ReversalWritten ==
  ASSUME TypeOK, JobShape, NEW r \in Requests, LockedOf(r), UnreceiveCommit(r)
  PROVE  /\ job[r].po \in PoIds
         /\ \A d \in PoIds \ {job[r].po} : pos'[d] = pos[d]
         /\ pos'[job[r].po].qty = pos[job[r].po].qty
         /\ \A x \in Products : pos'[job[r].po].rcvd[x] = pos[job[r].po].rcvd[x] - job[r].entry[x]
         /\ pos'[job[r].po].status =
              IF NothingIn(pos[job[r].po].qty, pos'[job[r].po].rcvd) THEN "sent"
              ELSE IF AllFull(pos[job[r].po].qty, pos'[job[r].po].rcvd)
              THEN "received" ELSE "partially_received"
         /\ orders' = WithStatus(Linked(job[r].po, "completed",
              {x \in LinesOf(job[r].entry) :
                 /\ pos[job[r].po].rcvd[x] >= pos[job[r].po].qty[x]
                 /\ pos'[job[r].po].rcvd[x] < pos[job[r].po].qty[x]}), "ordered")
<1> DEFINE p == job[r].po  q == pos[p].qty  rcvd == RcvdAfterReversal(r)
           w == WrittenRcvd(r, rcvd)
           st == IF NothingIn(q, rcvd) THEN "sent"
                 ELSE IF AllFull(q, rcvd) THEN "received" ELSE "partially_received"
<1>1. /\ p \in PoIds /\ job[r].qty = q /\ job[r].rcvd = pos[p].rcvd
      /\ job[r].pc = "unreceive"
      /\ pos' = [pos EXCEPT ![p].rcvd = w, ![p].status = st]
      /\ orders' = WithStatus(Linked(p, "completed",
           {x \in LinesOf(job[r].entry) : pos[p].rcvd[x] >= q[x] /\ rcvd[x] < q[x]}), "ordered")
  BY DEF UnreceiveCommit, JobShape, JobShapeOf, LockedOf, Holder
<1>2. \A x \in Products : /\ w[x] = pos[p].rcvd[x] - job[r].entry[x]
                          /\ rcvd[x] = w[x]
  <2> SUFFICES ASSUME NEW x \in Products
               PROVE  w[x] = pos[p].rcvd[x] - job[r].entry[x] /\ rcvd[x] = w[x]
    OBVIOUS
  <2>1. /\ pos[p].rcvd[x] \in Int /\ job[r].entry[x] \in Nat
        /\ job[r].rcvd[x] = pos[p].rcvd[x]
    BY <1>1, Numeric
  <2>2. rcvd[x] = job[r].rcvd[x] - job[r].entry[x]
    BY DEF RcvdAfterReversal
  <2>3. w[x] = IF job[r].entry[x] > 0 THEN rcvd[x] ELSE pos[p].rcvd[x]
    BY DEF WrittenRcvd
  <2> HIDE DEF p, w, rcvd
  <2> QED BY <2>1, <2>2, <2>3
<1>4. AllFull(q, rcvd) <=> AllFull(q, w)
  BY <1>2 DEF AllFull, LinesOf
<1>5. NothingIn(q, rcvd) <=> NothingIn(q, w)
  BY <1>2 DEF NothingIn, LinesOf
<1>6. {x \in LinesOf(job[r].entry) : pos[p].rcvd[x] >= q[x] /\ rcvd[x] < q[x]}
        = {x \in LinesOf(job[r].entry) : pos[p].rcvd[x] >= q[x] /\ w[x] < q[x]}
  BY <1>2 DEF LinesOf
<1> HIDE DEF p, q, rcvd, w, st
<1>7. /\ pos'[p].rcvd = w /\ pos'[p].status = st /\ pos'[p].qty = pos[p].qty
      /\ \A d \in PoIds \ {p} : pos'[d] = pos[d]
  BY <1>1 DEF TypeOK, PurchaseOrder
<1>8. st = IF NothingIn(q, w) THEN "sent"
           ELSE IF AllFull(q, w) THEN "received" ELSE "partially_received"
  BY <1>4, <1>5 DEF st
<1>9. orders' = WithStatus(Linked(p, "completed",
        {x \in LinesOf(job[r].entry) : pos[p].rcvd[x] >= q[x] /\ pos'[p].rcvd[x] < q[x]}), "ordered")
  BY <1>1, <1>6, <1>7
<1>10. /\ \A x \in Products : pos'[p].rcvd[x] = pos[p].rcvd[x] - job[r].entry[x]
       /\ pos'[p].status = IF NothingIn(q, pos'[p].rcvd) THEN "sent"
                           ELSE IF AllFull(q, pos'[p].rcvd)
                           THEN "received" ELSE "partially_received"
  BY <1>2, <1>7, <1>8
<1> QED BY <1>1, <1>7, <1>9, <1>10 DEF p, q

\* An order that left draft keeps what it has in, but for its receipts.
LEMMA ReceivedKept ==
  ASSUME TypeOK, JobShape, [Next]_vars, NEW p \in PoIds, Left(p),
         \A r \in Requests : ~ ReceiveCommit(r) /\ ~ UnreceiveCommit(r)
  PROVE  pos'[p].rcvd = pos[p].rcvd
<1>1. ASSUME NEW r \in Requests, CreateCommit(r) \/ ManualCommit(r)
      PROVE  pos'[p].rcvd = pos[p].rcvd
  BY <1>1 DEF CreateCommit, ManualCommit, Left, TypeOK
<1>2. ASSUME NEW r \in Requests, EditCommit(r) \/ RemoveCommit(r)
      PROVE  pos'[p].rcvd = pos[p].rcvd
  BY <1>2 DEF EditCommit, RemoveCommit, StillDraft, Left, TypeOK
<1>3. ASSUME NEW r \in Requests, SendClaim(r) \/ SendRollback(r) \/ CancelCommit(r)
      PROVE  pos'[p].rcvd = pos[p].rcvd
  <2>1. \/ UNCHANGED pos
        \/ \E st \in {"sent", "draft", "cancelled"} : pos' = [pos EXCEPT ![job[r].po].status = st]
    BY <1>3 DEF SendClaim, SendRollback, CancelCommit
  <2>2. ASSUME NEW st, pos' = [pos EXCEPT ![job[r].po].status = st]
        PROVE  pos'[p].rcvd = pos[p].rcvd
    BY <2>2 DEF TypeOK, PurchaseOrder
  <2> QED BY <2>1, <2>2
<1>4. CASE UNCHANGED vars \/ \E o \in OrderIds : RemoveQueuedOrder(o)
  BY <1>4 DEF vars, RemoveQueuedOrder
<1>5. ASSUME NEW r \in Requests, StartOf(r) PROVE pos'[p].rcvd = pos[p].rcvd
  BY <1>5, Started
<1>6. ASSUME NEW r \in Requests, LockStepOf(r) \/ Abort(r) PROVE pos'[p].rcvd = pos[p].rcvd
  BY <1>6 DEF LockStepOf, CreateLock, ManualLock, NumberUnderLock, Abort
<1>7. ASSUME NEW r \in Requests, QueueCommit(r) \/ EmailAccepted(r) \/ EmailThrows(r)
      PROVE  pos'[p].rcvd = pos[p].rcvd
  BY <1>7 DEF QueueCommit, EmailAccepted, EmailThrows
<1> QED BY <1>1, <1>2, <1>3, <1>4, <1>5, <1>6, <1>7 DEF Next, StepOf

\* The holder of a lock keeps a current reading when no one else touches the
\* order or takes the lock.
LEMMA LockedKept ==
  ASSUME NEW s \in Requests, LockedOf(s), job'[s] = job[s],
         Holder(s) => /\ Left(job[s].po)'
                      /\ pos'[job[s].po].qty = pos[job[s].po].qty
                      /\ pos'[job[s].po].rcvd = pos[job[s].po].rcvd,
         \A t \in Requests : Holder(s) /\ Holder(t)' /\ job'[t].po = job[s].po => t = s
  PROVE  LockedOf(s)'
<1>1. ASSUME Holder(s) PROVE LockedOf(s)'
  <2>1. /\ Left(job[s].po)' /\ pos'[job[s].po].qty = pos[job[s].po].qty
        /\ pos'[job[s].po].rcvd = pos[job[s].po].rcvd
    BY <1>1
  <2>2. LinesOf(job'[s].entry) = LinesOf(job[s].entry)
    BY DEF LinesOf
  <2>3. /\ EachReceiptFits(job[s].po, job[s].entry) => EachReceiptFits(job[s].po, job[s].entry)'
        /\ EachReversalFits(job[s].po, job[s].entry) => EachReversalFits(job[s].po, job[s].entry)'
    BY <2>1 DEF EachReceiptFits, EachReversalFits, Outstanding, LinesOf
  <2>4. Left(job[s].po)'
    BY <2>1 DEF Left
  <2>5. \A t \in Requests : Holder(t)' /\ job'[t].po = job'[s].po => t = s
    BY <1>1
  <2>6. /\ job'[s].qty = pos'[job'[s].po].qty /\ job'[s].rcvd = pos'[job'[s].po].rcvd
        /\ LinesOf(job[s].entry)' # {}
    BY <1>1, <2>1, <2>2 DEF LockedOf, LinesOf
  <2>7. /\ job'[s].pc = "receive" => EachReceiptFits(job[s].po, job[s].entry)'
        /\ job'[s].pc = "unreceive" => EachReversalFits(job[s].po, job[s].entry)'
    BY <1>1, <2>3 DEF LockedOf
  <2> QED BY <2>4, <2>5, <2>6, <2>7 DEF LockedOf
<1>2. ASSUME ~ Holder(s) PROVE LockedOf(s)'
  BY <1>2 DEF LockedOf, Holder
<1> QED BY <1>1, <1>2

\* A request that starts to receive, or to reverse, reads a current order.
LEMMA LockedRead ==
  ASSUME TypeOK, NEW r \in Requests, NEW p \in PoIds, NEW e \in Totals, NEW l \in Locations,
         ReceiveRead(r, p, e, l) \/ UnreceiveRead(r, p, e, l),
         \A s \in Requests \ {r} : job'[s] = job[s]
  PROVE  LockedOf(r)' /\ job'[r].po = p /\ \A s \in Requests : Holder(s) => job[s].po # p
<1>1. \A s \in Requests : Holder(s) => job[s].po # p
  BY DEF ReceiveRead, UnreceiveRead, ReceiveLockFree, Holder
<1>2. /\ job'[r].pc \in {"receive", "unreceive"} /\ job'[r].po = p
      /\ job'[r].qty = pos[p].qty /\ job'[r].rcvd = pos[p].rcvd /\ job'[r].entry = e
      /\ UNCHANGED pos
  <2>1. CASE ReceiveRead(r, p, e, l)
    BY <2>1 DEF ReceiveRead, Starts, Idle, TypeOK
  <2>2. CASE UnreceiveRead(r, p, e, l)
    BY <2>2 DEF UnreceiveRead, Starts, Idle, TypeOK
  <2> QED BY <2>1, <2>2
<1>3. LinesOf(e) # {}
  <2>1. e # NoLines
    BY DEF ReceiveRead, UnreceiveRead
  <2>2. ASSUME LinesOf(e) = {} PROVE FALSE
    <3>1. e \in [Products -> Nat] /\ \A x \in Products : e[x] = 0
      BY <2>2, TotalsType DEF LinesOf
    <3> QED BY <2>1, <3>1 DEF NoLines
  <2> QED BY <2>2
<1>4. Left(p)
  BY DEF ReceiveRead, UnreceiveRead, Left
<1>5. /\ job'[r].pc = "receive" => EachReceiptFits(p, e)
      /\ job'[r].pc = "unreceive" => EachReversalFits(p, e)
  <2>1. CASE ReceiveRead(r, p, e, l)
    <3>1. job'[r].pc = "receive"
      BY <2>1 DEF ReceiveRead, Starts, Idle, TypeOK
    <3> QED BY <2>1, <3>1 DEF ReceiveRead
  <2>2. CASE UnreceiveRead(r, p, e, l)
    <3>1. job'[r].pc = "unreceive"
      BY <2>2 DEF UnreceiveRead, Starts, Idle, TypeOK
    <3> QED BY <2>2, <3>1 DEF UnreceiveRead
  <2> QED BY <2>1, <2>2
<1>6. \A s \in Requests : Holder(s)' /\ job'[s].po = p => s = r
  BY <1>1 DEF Holder
<1>7. LockedOf(r)'
  <2>1. /\ job'[r].pc = "receive" => EachReceiptFits(job[r].po, job[r].entry)'
        /\ job'[r].pc = "unreceive" => EachReversalFits(job[r].po, job[r].entry)'
    BY <1>2, <1>5 DEF EachReceiptFits, EachReversalFits, Outstanding, LinesOf
  <2>2. LinesOf(job[r].entry)' # {} /\ Left(job[r].po)'
    BY <1>2, <1>3, <1>4 DEF Left, LinesOf
  <2>3. \A s \in Requests : Holder(s)' /\ job'[s].po = job'[r].po => s = r
    BY <1>2, <1>6
  <2> QED BY <1>2, <2>1, <2>2, <2>3 DEF LockedOf
<1> QED BY <1>1, <1>2, <1>7

LEMMA LockedStep ==
  ASSUME TypeOK, JobShape, "emailFails" \notin Enabled, NoHandBack,
         \A r \in Requests : LockedOf(r), [Next]_vars
  PROVE  NoHandBack' /\ \A r \in Requests : LockedOf(r)'
<1>0. ASSUME NEW p \in PoIds, Left(p) PROVE Left(p)' /\ pos'[p].qty = pos[p].qty
  BY <1>0, LeftStays DEF NoHandBack, SendRollback
<1>p. \A s \in Requests : Holder(s) => job[s].po \in PoIds /\ Left(job[s].po)
  BY DEF Holder, LockedOf, JobShape, JobShapeOf
<1> DEFINE Good == NoHandBack' /\ \A s \in Requests : LockedOf(s)'
<1>1. CASE UNCHANGED vars \/ \E o \in OrderIds : RemoveQueuedOrder(o)
  <2>1. UNCHANGED <<pos, job>>
    BY <1>1 DEF vars, RemoveQueuedOrder
  <2>2. NoHandBack'
    BY <2>1 DEF NoHandBack
  <2>3. ASSUME NEW s \in Requests PROVE LockedOf(s)'
    <3>1. \A t \in Requests : Holder(s) /\ Holder(t)' /\ job'[t].po = job[s].po => t = s
      BY <2>1 DEF LockedOf, Holder
    <3>2. Holder(s) => Left(job[s].po)'
      BY <2>1, <1>p DEF Left
    <3> QED BY <2>1, <3>1, <3>2, LockedKept
  <2> QED BY <2>2, <2>3
<1>2. ASSUME NEW r \in Requests, \A s \in Requests \ {r} : job'[s] = job[s],
             job'[r].pc \notin {"receive", "unreceive", "rollback"},
             \A s \in Requests : ~ ReceiveCommit(s) /\ ~ UnreceiveCommit(s)
      PROVE  Good
  <2>1. NoHandBack'
    BY <1>2 DEF NoHandBack
  <2>2. ASSUME NEW s \in Requests PROVE LockedOf(s)'
    <3>1. CASE s = r
      BY <1>2, <3>1 DEF LockedOf, Holder
    <3>2. CASE s # r
      <4>1. job'[s] = job[s]
        BY <1>2, <3>2
      <4>2. \A t \in Requests : Holder(s) /\ Holder(t)' /\ job'[t].po = job[s].po => t = s
        BY <1>2 DEF LockedOf, Holder
      <4>3. Holder(s) => /\ Left(job[s].po)'
                         /\ pos'[job[s].po].qty = pos[job[s].po].qty
                         /\ pos'[job[s].po].rcvd = pos[job[s].po].rcvd
        <5> SUFFICES ASSUME Holder(s)
                     PROVE  /\ Left(job[s].po)'
                            /\ pos'[job[s].po].qty = pos[job[s].po].qty
                            /\ pos'[job[s].po].rcvd = pos[job[s].po].rcvd
          OBVIOUS
        <5>1. job[s].po \in PoIds /\ Left(job[s].po)
          BY <1>p
        <5>2. pos'[job[s].po].rcvd = pos[job[s].po].rcvd
          BY <1>2, <5>1, ReceivedKept
        <5>3. \A p \in PoIds : Left(p) => Left(p)' /\ pos'[p].qty = pos[p].qty
          BY <1>0
        <5> QED BY <4>1, <5>1, <5>2, <5>3 DEF Left
      <4> QED BY <4>1, <4>2, <4>3, LockedKept
    <3> QED BY <3>1, <3>2
  <2> QED BY <2>1, <2>2
<1>3. ASSUME NEW r \in Requests, \A s \in Requests \ {r} : job'[s] = job[s], StartOf(r)
      PROVE  Good
  <2>1. /\ job[r] = Idle /\ UNCHANGED pos
        /\ job'[r].pc \in {"queue", "createWait", "manualWait", "send", "cancel",
                           "receive", "unreceive", "edit", "remove"}
    BY <1>3, Started
  <2>2. CASE \E p \in PoIds, e \in Totals, l \in Locations :
               ReceiveRead(r, p, e, l) \/ UnreceiveRead(r, p, e, l)
    <3>1. PICK p \in PoIds, e \in Totals, l \in Locations :
            ReceiveRead(r, p, e, l) \/ UnreceiveRead(r, p, e, l)
      BY <2>2
    <3>2. LockedOf(r)' /\ job'[r].po = p /\ \A s \in Requests : Holder(s) => job[s].po # p
      BY <1>3, <3>1, LockedRead
    <3>3. ASSUME NEW s \in Requests, s # r PROVE LockedOf(s)'
      <4>1. \A t \in Requests : Holder(s) /\ Holder(t)' /\ job'[t].po = job[s].po => t = s
        BY <1>3, <3>2, <3>3 DEF LockedOf, Holder
      <4>2. Holder(s) => Left(job[s].po)'
        BY <1>3, <2>1, <3>3, <1>p DEF Left
      <4> QED BY <1>3, <2>1, <3>3, <4>1, <4>2, LockedKept
    <3>4. NoHandBack'
      BY <1>3, <2>1 DEF NoHandBack
    <3> QED BY <3>2, <3>3, <3>4
  <2>3. CASE ~ \E p \in PoIds, e \in Totals, l \in Locations :
               ReceiveRead(r, p, e, l) \/ UnreceiveRead(r, p, e, l)
    <3>1. ASSUME NEW s \in Requests, ReceiveCommit(s) \/ UnreceiveCommit(s) PROVE FALSE
      <4>1. job[s].pc \in {"receive", "unreceive"} /\ job'[s] = Idle
        BY <3>1 DEF ReceiveCommit, UnreceiveCommit, Finishes, TypeOK
      <4> QED BY <1>3, <2>1, <4>1 DEF Idle
    <3>2. job'[r].pc \notin {"receive", "unreceive", "rollback"}
      BY <1>3, <2>1, <2>3, Started
    <3> QED BY <1>2, <1>3, <3>1, <3>2
  <2> QED BY <2>2, <2>3
<1>4. ASSUME NEW r \in Requests, \A s \in Requests \ {r} : job'[s] = job[s],
             job[r].pc \notin {"receive", "unreceive"},
             LockStepOf(r) \/ Abort(r) \/ StepOf(r)
      PROVE  Good
  <2>1. ASSUME NEW s \in Requests, ReceiveCommit(s) \/ UnreceiveCommit(s) PROVE FALSE
    <3>1. job[s].pc \in {"receive", "unreceive"} /\ job'[s] = Idle
      BY <2>1 DEF ReceiveCommit, UnreceiveCommit, Finishes, TypeOK
    <3> QED BY <1>4, <3>1 DEF Idle
  <2>2. \/ job'[r] = Idle
        \/ job'[r].pc \in {"create", "manual", "emailing"}
    <3>1. CASE LockStepOf(r)
      BY <3>1 DEF LockStepOf, CreateLock, ManualLock, NumberUnderLock, TypeOK, Job
    <3>2. CASE SendClaim(r)
      BY <3>2 DEF SendClaim, Finishes, TypeOK, Job
    <3>3. CASE Abort(r)
      BY <3>3 DEF Abort, Finishes, TypeOK
    <3>4. CASE StepOf(r) /\ ~ SendClaim(r)
      BY <2>1, <3>4 DEF StepOf, Finishes, TypeOK, QueueCommit, CreateCommit, ManualCommit,
         EmailAccepted, EmailThrows, SendRollback, CancelCommit, EditCommit, RemoveCommit
    <3> QED BY <1>4, <3>1, <3>2, <3>3, <3>4
  <2>3. job'[r].pc \notin {"receive", "unreceive", "rollback"}
    BY <2>2 DEF Idle
  <2> QED BY <1>2, <1>4, <2>1, <2>3
<1>5. ASSUME NEW r \in Requests, \A s \in Requests \ {r} : job'[s] = job[s],
             Holder(r), job'[r] = Idle,
             \A d \in PoIds \ {job[r].po} : pos'[d] = pos[d]
      PROVE  Good
  <2>1. NoHandBack'
    BY <1>5 DEF NoHandBack, Idle
  <2>2. ASSUME NEW s \in Requests, s # r PROVE LockedOf(s)'
    <3>1. Holder(s) => job[s].po # job[r].po
      BY <1>5, <2>2 DEF LockedOf
    <3>2. Holder(s) => pos'[job[s].po] = pos[job[s].po] /\ Left(job[s].po)
      BY <1>5, <1>p, <3>1
    <3>3. \A t \in Requests : Holder(s) /\ Holder(t)' /\ job'[t].po = job[s].po => t = s
      BY <1>5, <2>2 DEF LockedOf, Holder, Idle
    <3> QED BY <1>5, <2>2, <3>2, <3>3, LockedKept DEF Left
  <2>3. LockedOf(r)'
    BY <1>5 DEF LockedOf, Holder, Idle
  <2> QED BY <2>1, <2>2, <2>3
<1>6. ASSUME NEW r \in Requests, \A s \in Requests \ {r} : job'[s] = job[s],
             job[r].pc \in {"receive", "unreceive"},
             LockStepOf(r) \/ Abort(r) \/ StepOf(r)
      PROVE  Good
  <2>1. Abort(r) \/ ReceiveCommit(r) \/ UnreceiveCommit(r)
    BY <1>6 DEF LockStepOf, CreateLock, ManualLock, NumberUnderLock, StepOf, QueueCommit,
       CreateCommit, ManualCommit, SendClaim, EmailAccepted, EmailThrows, SendRollback,
       CancelCommit, EditCommit, RemoveCommit
  <2>2. job'[r] = Idle
    BY <2>1 DEF Abort, ReceiveCommit, UnreceiveCommit, Finishes, TypeOK
  <2>3. \A d \in PoIds \ {job[r].po} : pos'[d] = pos[d]
    BY <2>1, ReceiptWritten, ReversalWritten DEF Abort
  <2> QED BY <1>5, <1>6, <2>2, <2>3 DEF Holder
<1> QED BY <1>1, <1>3, <1>4, <1>6, OneStepper

\* An edit or a removal writes a draft only: no line but the one it names
\* changes, and nothing comes in.
LEMMA DraftWritten ==
  ASSUME TypeOK, JobShape, NEW r \in Requests, EditCommit(r) \/ RemoveCommit(r),
         NEW p \in PoIds, pos'[p] # pos[p]
  PROVE  /\ job[r].po = p /\ pos[p].status = "draft" /\ pos'[p].status = "draft"
         /\ \A x \in Products : pos'[p].rcvd[x] = pos[p].rcvd[x] \/ pos'[p].rcvd[x] = 0
<1> DEFINE x == job[r].line  n == job[r].entry[x]
           qe == [job[r].qty EXCEPT ![x] = n]  qr == [job[r].qty EXCEPT ![x] = 0]
<1>1. /\ StillDraft(job[r].po)
      /\ \/ pos' = [pos EXCEPT ![job[r].po].qty[x] = n, ![job[r].po].subtotal = qe]
         \/ pos' = [pos EXCEPT ![job[r].po].qty[x] = 0, ![job[r].po].rcvd[x] = 0,
                               ![job[r].po].subtotal = qr]
  BY DEF EditCommit, RemoveCommit
<1> HIDE DEF x, n, qe, qr
<1>2. job[r].po = p
  BY <1>1 DEF TypeOK
<1>3. pos[p].status = "draft"
  BY <1>1, <1>2 DEF StillDraft
<1>4. ASSUME pos' = [pos EXCEPT ![p].qty[x] = n, ![p].subtotal = qe]
      PROVE  pos'[p].status = "draft" /\ pos'[p].rcvd = pos[p].rcvd
  BY <1>3, <1>4 DEF TypeOK, PurchaseOrder
<1>5. ASSUME pos' = [pos EXCEPT ![p].qty[x] = 0, ![p].rcvd[x] = 0, ![p].subtotal = qr]
      PROVE  /\ pos'[p].status = "draft"
             /\ \A y \in Products : pos'[p].rcvd[y] = pos[p].rcvd[y] \/ pos'[p].rcvd[y] = 0
  <2>1. pos'[p].status = "draft" /\ pos'[p].rcvd = [pos[p].rcvd EXCEPT ![x] = 0]
    BY <1>3, <1>5 DEF TypeOK, PurchaseOrder
  <2>2. pos[p].rcvd \in [Products -> Int]
    BY DEF TypeOK, PurchaseOrder
  <2> QED BY <2>1, <2>2
<1> QED BY <1>1, <1>2, <1>3, <1>4, <1>5

\* A purchase order is fine when it is back, or new, in draft with nothing in.
LEMMA EmptyDraft ==
  ASSUME TypeOK', NEW p \in PoIds, pos'[p].status = "draft",
         \A x \in Products : pos'[p].rcvd[x] = 0
  PROVE  PoOk(p)'
<1>1. \A x \in Products : pos'[p].qty[x] \in Nat
  <2>1. pos'[p].qty \in Quantities
    BY DEF TypeOK, PurchaseOrder
  <2> QED BY <2>1, ConstantsAssumption DEF Quantities
<1> QED BY <1>1 DEF PoOk

\* The status a receipt or a reversal recomputes from the lines is right when
\* the order has a line.
LEMMA StatusWritten ==
  ASSUME TypeOK', NEW p \in PoIds, pos'[p].qty = pos[p].qty,
         \A x \in Products : pos[p].qty[x] \in Nat,
         \A x \in Products : pos[p].qty[x] = 0 => pos'[p].rcvd[x] = 0,
         \E x \in LinesOf(pos[p].qty) : TRUE,
         pos'[p].status = IF AllFull(pos[p].qty, pos'[p].rcvd)
                          THEN "received" ELSE "partially_received"
  PROVE  PoOk(p)'
<1>1. \A x \in Products : pos'[p].rcvd[x] \in Int
  BY DEF TypeOK, PurchaseOrder
<1>2. AllFull(pos[p].qty, pos'[p].rcvd) <=> \A x \in Products : pos'[p].rcvd[x] >= pos[p].qty[x]
  BY <1>1 DEF AllFull, LinesOf
<1>3. CASE AllFull(pos[p].qty, pos'[p].rcvd)
  <2>1. \E x \in Products : pos'[p].rcvd[x] # 0
    BY <1>1, <1>2, <1>3 DEF LinesOf
  <2> QED BY <1>2, <1>3, <2>1 DEF PoOk
<1>4. CASE ~ AllFull(pos[p].qty, pos'[p].rcvd)
  BY <1>2, <1>4 DEF PoOk
<1> QED BY <1>3, <1>4

LEMMA PoStep ==
  ASSUME TypeOK, TypeOK', JobShape, ReceiptInv, [Next]_vars, NEW p \in PoIds
  PROVE  PoOk(p)'
<1>0. PoOk(p) /\ (pos'[p] = pos[p] => PoOk(p)')
  BY DEF ReceiptInv, PoOk
<1>1. CASE UNCHANGED pos
  BY <1>0, <1>1
<1>2. ASSUME NEW r \in Requests, CreateCommit(r) \/ ManualCommit(r) PROVE PoOk(p)'
  <2>1. pos'[p] = pos[p] \/ pos'[p] = NewDraft(r)
    BY <1>2 DEF CreateCommit, ManualCommit, TypeOK
  <2>2. CASE pos'[p] = NewDraft(r)
    <3>1. pos'[p].status = "draft" /\ \A x \in Products : pos'[p].rcvd[x] = 0
      BY <2>2 DEF NewDraft, NoLines
    <3> QED BY <3>1, EmptyDraft
  <2> QED BY <1>0, <2>1, <2>2
<1>3. ASSUME NEW r \in Requests, SendClaim(r) \/ CancelCommit(r) PROVE PoOk(p)'
  <2>1. \/ pos'[p] = pos[p]
        \/ /\ pos'[p].rcvd = pos[p].rcvd /\ pos'[p].qty = pos[p].qty
           /\ \/ pos'[p].status = "cancelled"
              \/ pos[p].status = "draft" /\ pos'[p].status = "sent"
    <3>1. \/ UNCHANGED pos
          \/ /\ pos' = [pos EXCEPT ![job[r].po].status = "sent"]
             /\ pos[job[r].po].status = "draft"
          \/ pos' = [pos EXCEPT ![job[r].po].status = "cancelled"]
      BY <1>3 DEF SendClaim, CancelCommit, StillDraft
    <3>2. ASSUME NEW st \in {"sent", "cancelled"}, pos' = [pos EXCEPT ![job[r].po].status = st]
          PROVE  \/ pos'[p] = pos[p]
                 \/ /\ pos'[p].rcvd = pos[p].rcvd /\ pos'[p].qty = pos[p].qty
                    /\ pos'[p].status = st /\ job[r].po = p
      BY <3>2 DEF TypeOK, PurchaseOrder
    <3>3. CASE pos' = [pos EXCEPT ![job[r].po].status = "sent"] /\ pos[job[r].po].status = "draft"
      BY <3>2, <3>3
    <3>4. CASE pos' = [pos EXCEPT ![job[r].po].status = "cancelled"]
      BY <3>2, <3>4
    <3> QED BY <3>1, <3>3, <3>4
  <2>2. ASSUME pos'[p].rcvd = pos[p].rcvd, pos'[p].qty = pos[p].qty,
               \/ pos'[p].status = "cancelled"
               \/ pos[p].status = "draft" /\ pos'[p].status = "sent"
        PROVE  PoOk(p)'
    BY <1>0, <2>2 DEF PoOk
  <2> QED BY <1>0, <2>1, <2>2
<1>4. ASSUME NEW r \in Requests, SendRollback(r) PROVE FALSE
  BY <1>4 DEF SendRollback, ReceiptInv, NoHandBack
<1>5. ASSUME NEW r \in Requests, ReceiveCommit(r) PROVE PoOk(p)'
  <2>1. LockedOf(r)
    BY DEF ReceiptInv
  <2>2. CASE p # job[r].po
    BY <1>0, <1>5, <2>1, <2>2, ReceiptWritten
  <2>3. CASE p = job[r].po
    <3>1. /\ pos'[p].qty = pos[p].qty
          /\ \A x \in Products : pos'[p].rcvd[x] = pos[p].rcvd[x] + job[r].entry[x]
          /\ pos'[p].status = IF AllFull(pos[p].qty, pos'[p].rcvd)
                              THEN "received" ELSE "partially_received"
      BY <1>5, <2>1, <2>3, ReceiptWritten
    <3>2. \A x \in Products : /\ pos[p].qty[x] \in Nat /\ pos[p].rcvd[x] \in Int
                              /\ job[r].entry[x] \in Nat
      BY Numeric
    <3>3. \A x \in Products : pos[p].qty[x] = 0 => pos'[p].rcvd[x] = 0
      <4>1. \A x \in Products : job[r].entry[x] > 0 => pos[p].qty[x] > 0
        BY <1>5, <2>3 DEF ReceiveCommit, LinesStillThere, LinesOf
      <4>2. \A x \in Products : pos[p].qty[x] = 0 => pos[p].rcvd[x] = 0
        BY <1>0 DEF PoOk
      <4> QED BY <3>1, <3>2, <4>1, <4>2
    <3>4. \E x \in LinesOf(pos[p].qty) : TRUE
      BY <1>5, <2>1, <2>3 DEF ReceiveCommit, LinesStillThere, LockedOf, Holder, LinesOf
    <3> QED BY <3>1, <3>2, <3>3, <3>4, StatusWritten
  <2> QED BY <2>2, <2>3
<1>6. ASSUME NEW r \in Requests, UnreceiveCommit(r) PROVE PoOk(p)'
  <2>1. LockedOf(r)
    BY DEF ReceiptInv
  <2>2. CASE p # job[r].po
    BY <1>0, <1>6, <2>1, <2>2, ReversalWritten
  <2>3. CASE p = job[r].po
    <3>1. /\ pos'[p].qty = pos[p].qty
          /\ \A x \in Products : pos'[p].rcvd[x] = pos[p].rcvd[x] - job[r].entry[x]
          /\ pos'[p].status =
               IF NothingIn(pos[p].qty, pos'[p].rcvd) THEN "sent"
               ELSE IF AllFull(pos[p].qty, pos'[p].rcvd)
               THEN "received" ELSE "partially_received"
      BY <1>6, <2>1, <2>3, ReversalWritten
    <3>2. \A x \in Products : /\ pos[p].qty[x] \in Nat /\ pos[p].rcvd[x] \in Int
                              /\ job[r].entry[x] \in Nat
      BY Numeric
    <3>3. \A x \in Products : pos[p].qty[x] = 0 => pos'[p].rcvd[x] = 0
      <4>1. \A x \in Products : job[r].entry[x] > 0 => pos[p].qty[x] > 0
        BY <1>6, <2>3 DEF UnreceiveCommit, LinesStillThere, LinesOf
      <4>2. \A x \in Products : pos[p].qty[x] = 0 => pos[p].rcvd[x] = 0
        BY <1>0 DEF PoOk
      <4> QED BY <3>1, <3>2, <4>1, <4>2
    <3>4. CASE NothingIn(pos[p].qty, pos'[p].rcvd)
      <4>1. pos'[p].status = "sent" /\ \A x \in Products : pos'[p].rcvd[x] = 0
        BY <3>1, <3>2, <3>3, <3>4 DEF NothingIn, LinesOf
      <4> QED BY <4>1 DEF PoOk
    <3>5. CASE ~ NothingIn(pos[p].qty, pos'[p].rcvd)
      <4>1. \E x \in LinesOf(pos[p].qty) : TRUE
        BY <3>5 DEF NothingIn
      <4>2. pos'[p].status = IF AllFull(pos[p].qty, pos'[p].rcvd)
                             THEN "received" ELSE "partially_received"
        BY <3>1, <3>5
      <4> QED BY <3>1, <3>2, <3>3, <4>1, <4>2, StatusWritten
    <3> QED BY <3>4, <3>5
  <2> QED BY <2>2, <2>3
<1>7. ASSUME NEW r \in Requests, EditCommit(r) \/ RemoveCommit(r) PROVE PoOk(p)'
  <2>1. CASE pos'[p] = pos[p]
    BY <1>0, <2>1
  <2>2. CASE pos'[p] # pos[p]
    <3>1. pos[p].status = "draft" /\ pos'[p].status = "draft" /\ job[r].po = p
      BY <1>7, <2>2, DraftWritten
    <3>2. \A x \in Products : pos'[p].rcvd[x] = pos[p].rcvd[x] \/ pos'[p].rcvd[x] = 0
      BY <1>7, <2>2, DraftWritten
    <3>3. \A x \in Products : pos'[p].rcvd[x] = 0
      BY <1>0, <3>1, <3>2 DEF PoOk
    <3> QED BY <3>1, <3>3, EmptyDraft
  <2> QED BY <2>1, <2>2
<1> QED BY <1>1, <1>2, <1>3, <1>4, <1>5, <1>6, <1>7, Writers DEF WritesPos

\* A row and the order it is on agree as before when neither moved.
LEMMA RowQuiet ==
  ASSUME NEW o \in OrderIds, NEW p \in PoIds, RowOk(o, p),
         orders'[o].status = orders[o].status, orders'[o].po = orders[o].po,
         orders'[o].product = orders[o].product,
         pos'[p].qty = pos[p].qty, pos'[p].rcvd = pos[p].rcvd
  PROVE  RowOk(o, p)'
  BY DEF RowOk

\* On a draft nothing is in yet, so what is on the way is not complete.
LEMMA RowOnDraft ==
  ASSUME QueueInv', NEW o \in OrderIds, NEW p \in PoIds, PoOk(p)',
         pos'[p].status = "draft", orders'[o].status # "completed"
  PROVE  RowOk(o, p)'
<1> SUFFICES ASSUME orders'[o].po = p, orders'[o].status = "ordered"
             PROVE  ~ pos'[p].rcvd[orders'[o].product] >= pos'[p].qty[orders'[o].product]
  BY DEF RowOk
<1>1. orders'[o].product \in Products /\ pos'[p].qty[orders'[o].product] > 0
  BY DEF QueueInv, RowShape, RowShapeOf, OnTheWayIsReal, OnTheWayOf
<1>2. pos'[p].rcvd[orders'[o].product] = 0
  BY <1>1 DEF PoOk
<1>3. pos'[p].qty[orders'[o].product] \in Nat
  <2>1. pos'[p].qty \in Quantities
    BY DEF QueueInv, TypeOK, PurchaseOrder
  <2> QED BY <1>1, <2>1, ConstantsAssumption DEF Quantities
<1> QED BY <1>1, <1>2, <1>3

\* No row of a draft is complete: nothing is in.
LEMMA NoneComplete ==
  ASSUME QueueInv, NEW o \in OrderIds, NEW p \in PoIds, PoOk(p), RowOk(o, p),
         pos[p].status \in {"free", "draft"}, orders[o].po = p
  PROVE  orders[o].status # "completed"
<1>1. orders[o].status = "completed" => orders[o].product \in Products
  BY DEF QueueInv, RowShape, RowShapeOf
<1>2. \A x \in Products : pos[p].rcvd[x] = 0 /\ pos[p].qty[x] \in Nat
  BY Numeric DEF PoOk, QueueInv
<1> QED BY <1>1, <1>2 DEF RowOk

LEMMA RowCreated ==
  ASSUME QueueInv, QueueInv', ReceiptInv, NEW o \in OrderIds, NEW p \in PoIds, PoOk(p)',
         NEW r \in Requests, CreateCommit(r) \/ ManualCommit(r)
  PROVE  RowOk(o, p)'
<1>0. RowOk(o, p) /\ PoOk(p)
  BY DEF ReceiptInv
<1>1. CASE UNCHANGED <<orders, pos>>
  BY <1>0, <1>1, RowQuiet
<1>2. CASE ~ UNCHANGED <<orders, pos>>
  <2>1. PICK d \in PoIds :
          /\ pos[d].status = "free" /\ pos' = [pos EXCEPT ![d] = NewDraft(r)]
          /\ orders'[o] = orders[o] \/ (orders'[o].po = d /\ orders'[o].status = "ordered")
    <3>1. CASE CreateCommit(r)
      <4>1. PICK d \in PoIds :
              /\ pos[d].status = "free" /\ pos' = [pos EXCEPT ![d] = NewDraft(r)]
              /\ orders' = [i \in OrderIds |-> IF i \in job[r].rows
                   THEN [orders[i] EXCEPT !.status = "ordered", !.po = d] ELSE orders[i]]
        BY <1>2, <3>1 DEF CreateCommit
      <4>2. orders[o] \in OrderRow
        BY DEF QueueInv, TypeOK
      <4>3. orders'[o] = orders[o] \/ (orders'[o].po = d /\ orders'[o].status = "ordered")
        BY <4>1, <4>2 DEF OrderRow
      <4> QED BY <4>1, <4>3
    <3>2. CASE ManualCommit(r)
      <4>1. PICK d \in PoIds :
              /\ pos[d].status = "free" /\ pos' = [pos EXCEPT ![d] = NewDraft(r)]
              /\ \E ids \in SUBSET {i \in OrderIds : orders[i].status = "free"} :
                 \E line \in Bijection(ids, LinesOf(job[r].qty)) :
                   orders' = [i \in OrderIds |-> IF i \in ids
                     THEN [status |-> "ordered", product |-> line[i], po |-> d,
                           qty |-> job[r].qty[line[i]], origin |-> "manual"]
                     ELSE orders[i]]
        BY <3>2 DEF ManualCommit
      <4>2. orders'[o] = orders[o] \/ (orders'[o].po = d /\ orders'[o].status = "ordered")
        BY <4>1
      <4> QED BY <4>1, <4>2
    <3> QED BY <3>1, <3>2
  <2>2. CASE p = d
    <3>1. pos'[p].status = "draft"
      BY <2>1, <2>2 DEF NewDraft, QueueInv, TypeOK
    <3>2. orders'[o].po = p => orders'[o].status # "completed"
      BY <1>0, <2>1, <2>2, NoneComplete
    <3>3. CASE orders'[o].po = p
      BY <3>1, <3>2, <3>3, RowOnDraft
    <3>4. CASE orders'[o].po # p
      BY <3>4 DEF RowOk
    <3> QED BY <3>3, <3>4
  <2>3. CASE p # d
    <3>1. pos'[p] = pos[p]
      BY <2>1, <2>3 DEF QueueInv, TypeOK
    <3>2. CASE orders'[o] = orders[o]
      BY <1>0, <3>1, <3>2, RowQuiet
    <3>3. CASE orders'[o].po = d
      BY <2>3, <3>3 DEF RowOk
    <3> QED BY <2>1, <3>2, <3>3
  <2> QED BY <2>2, <2>3
<1> QED BY <1>1, <1>2

\* A receipt completes exactly the rows whose line it fills.
LEMMA RowReceived ==
  ASSUME QueueInv, QueueInv', ReceiptInv, NEW o \in OrderIds, NEW p \in PoIds,
         NEW r \in Requests, ReceiveCommit(r)
  PROVE  RowOk(o, p)'
<1> DEFINE x == orders[o].product  j == job[r].po
           S == {y \in LinesOf(job[r].entry) : pos'[j].rcvd[y] >= pos[j].qty[y]}
<1>0. RowOk(o, p) /\ LockedOf(r) /\ TypeOK /\ JobShape
  BY DEF ReceiptInv, QueueInv
<1>1. /\ j \in PoIds /\ \A d \in PoIds \ {j} : pos'[d] = pos[d]
      /\ pos'[j].qty = pos[j].qty
      /\ \A y \in Products : pos'[j].rcvd[y] = pos[j].rcvd[y] + job[r].entry[y]
      /\ orders' = WithStatus(Linked(j, "ordered", S), "completed")
  BY <1>0, ReceiptWritten
<1>2. \/ orders'[o] = orders[o] /\ o \notin Linked(j, "ordered", S)
      \/ /\ o \in Linked(j, "ordered", S)
         /\ orders'[o].status = "completed" /\ orders'[o].po = orders[o].po
         /\ orders'[o].product = x
  BY <1>0, <1>1 DEF WithStatus, TypeOK, OrderRow
<1>3. CASE p # j
  <2>1. CASE o \in Linked(j, "ordered", S)
    BY <1>2, <1>3, <2>1 DEF RowOk, Linked
  <2>2. CASE orders'[o] = orders[o]
    BY <1>0, <1>1, <1>3, <2>2, RowQuiet
  <2> QED BY <1>2, <2>1, <2>2
<1>4. CASE p = j /\ orders[o].po = p
  <2>1. x \in Products
    <3>1. orders[o].po # Null
      BY <1>4, ConstantsAssumption
    <3> QED BY <3>1 DEF QueueInv, RowShape, RowShapeOf
  <2>2. /\ pos[p].qty[x] \in Nat /\ pos[p].rcvd[x] \in Int /\ job[r].entry[x] \in Nat
        /\ pos'[p].rcvd[x] = pos[p].rcvd[x] + job[r].entry[x] /\ pos'[p].qty[x] = pos[p].qty[x]
    BY <1>0, <1>1, <1>4, <2>1, Numeric
  <2>3. CASE o \in Linked(j, "ordered", S)
    <3>1. x \in LinesOf(job[r].entry) /\ pos'[p].rcvd[x] >= pos[p].qty[x]
      BY <1>4, <2>3 DEF Linked
    <3>2. pos[p].qty[x] > 0
      BY <1>4, <3>1 DEF ReceiveCommit, LinesStillThere
    <3>3. orders'[o].status = "completed" /\ orders'[o].product = x
      BY <1>2, <2>3
    <3> HIDE DEF x
    <3> QED BY <2>2, <3>1, <3>2, <3>3 DEF RowOk
  <2>4. CASE o \notin Linked(j, "ordered", S) /\ orders'[o] = orders[o]
    <3>1. orders[o].status = "ordered" => x \notin S
      BY <1>4, <2>4 DEF Linked
    <3>2. orders[o].status = "ordered" => ~ pos'[p].rcvd[x] >= pos[p].qty[x]
      <4>1. CASE job[r].entry[x] > 0
        <5>1. x \in LinesOf(job[r].entry)
          BY <2>1, <4>1 DEF LinesOf
        <5>2. x \notin S => ~ pos'[j].rcvd[x] >= pos[j].qty[x]
          BY <5>1
        <5> QED BY <1>4, <3>1, <5>2
      <4>2. CASE ~ job[r].entry[x] > 0
        BY <1>0, <1>4, <2>2, <4>2 DEF RowOk
      <4> QED BY <4>1, <4>2
    <3>3. orders[o].status = "completed" => pos'[p].rcvd[x] >= pos[p].qty[x] /\ pos[p].qty[x] > 0
      <4>1. orders[o].status = "completed" => pos[p].rcvd[x] >= pos[p].qty[x] /\ pos[p].qty[x] > 0
        BY <1>0, <1>4 DEF RowOk
      <4> HIDE DEF x
      <4> QED BY <2>2, <4>1
    <3>4. orders'[o].product = x /\ orders'[o].status = orders[o].status
      BY <2>4
    <3> HIDE DEF x
    <3> QED BY <2>2, <3>2, <3>3, <3>4 DEF RowOk
  <2> QED BY <1>2, <2>3, <2>4
<1>5. CASE p = j /\ orders[o].po # p
  BY <1>2, <1>5 DEF RowOk
<1> QED BY <1>3, <1>4, <1>5

\* A reversal puts back on the way exactly the complete rows it leaves short.
LEMMA RowReversed ==
  ASSUME QueueInv, QueueInv', ReceiptInv, NEW o \in OrderIds, NEW p \in PoIds,
         NEW r \in Requests, UnreceiveCommit(r)
  PROVE  RowOk(o, p)'
<1> DEFINE x == orders[o].product  j == job[r].po
           S == {y \in LinesOf(job[r].entry) : /\ pos[j].rcvd[y] >= pos[j].qty[y]
                                               /\ pos'[j].rcvd[y] < pos[j].qty[y]}
<1>0. RowOk(o, p) /\ LockedOf(r) /\ TypeOK /\ JobShape
  BY DEF ReceiptInv, QueueInv
<1>1. /\ j \in PoIds /\ \A d \in PoIds \ {j} : pos'[d] = pos[d]
      /\ pos'[j].qty = pos[j].qty
      /\ \A y \in Products : pos'[j].rcvd[y] = pos[j].rcvd[y] - job[r].entry[y]
      /\ orders' = WithStatus(Linked(j, "completed", S), "ordered")
  BY <1>0, ReversalWritten
<1>2. \/ orders'[o] = orders[o] /\ o \notin Linked(j, "completed", S)
      \/ /\ o \in Linked(j, "completed", S)
         /\ orders'[o].status = "ordered" /\ orders'[o].po = orders[o].po
         /\ orders'[o].product = x
  <2>0. orders[o] \in OrderRow
    BY <1>0 DEF TypeOK
  <2>1. orders'[o] = IF o \in Linked(j, "completed", S)
                     THEN [orders[o] EXCEPT !.status = "ordered"] ELSE orders[o]
    BY <1>1 DEF WithStatus
  <2> HIDE DEF S, j
  <2> QED BY ONLY <2>0, <2>1 DEF OrderRow, x
<1>3. CASE p # j
  <2>1. CASE o \in Linked(j, "completed", S)
    BY <1>2, <1>3, <2>1 DEF RowOk, Linked
  <2>2. CASE orders'[o] = orders[o]
    BY <1>0, <1>1, <1>3, <2>2, RowQuiet
  <2> QED BY <1>2, <2>1, <2>2
<1>4. CASE p = j /\ orders[o].po = p
  <2>1. x \in Products
    <3>1. orders[o].po # Null
      BY <1>4, ConstantsAssumption
    <3> QED BY <3>1 DEF QueueInv, RowShape, RowShapeOf
  <2>2. /\ pos[p].qty[x] \in Nat /\ pos[p].rcvd[x] \in Int /\ job[r].entry[x] \in Nat
        /\ pos'[p].rcvd[x] = pos[p].rcvd[x] - job[r].entry[x] /\ pos'[p].qty[x] = pos[p].qty[x]
    BY <1>0, <1>1, <1>4, <2>1, Numeric
  <2>3. CASE o \in Linked(j, "completed", S)
    <3>1. pos'[p].rcvd[x] < pos[p].qty[x]
      BY <1>4, <2>3 DEF Linked
    <3>2. orders'[o].status = "ordered" /\ orders'[o].product = x
      BY <1>2, <2>3
    <3> HIDE DEF x
    <3> QED BY <2>2, <3>1, <3>2 DEF RowOk
  <2>4. CASE o \notin Linked(j, "completed", S) /\ orders'[o] = orders[o]
    <3>1. orders[o].status = "completed" => x \notin S
      BY <1>4, <2>4 DEF Linked
    <3>2. orders[o].status = "completed" => pos[p].rcvd[x] >= pos[p].qty[x] /\ pos[p].qty[x] > 0
      BY <1>0, <1>4 DEF RowOk
    <3>3. orders[o].status = "completed" => pos'[p].rcvd[x] >= pos[p].qty[x]
      <4>1. CASE job[r].entry[x] > 0
        <5>1. x \in LinesOf(job[r].entry)
          BY <2>1, <4>1 DEF LinesOf
        <5>2. x \notin S /\ pos[j].rcvd[x] >= pos[j].qty[x] => ~ pos'[j].rcvd[x] < pos[j].qty[x]
          BY <5>1
        <5>3. orders[o].status = "completed" => ~ pos'[p].rcvd[x] < pos[p].qty[x]
          BY <1>4, <3>1, <3>2, <5>2
        <5> HIDE DEF x
        <5> QED BY <2>2, <5>3
      <4>2. CASE ~ job[r].entry[x] > 0
        <5> HIDE DEF x
        <5> QED BY <2>2, <3>2, <4>2
      <4> QED BY <4>1, <4>2
    <3>4. orders[o].status = "ordered" => ~ pos[p].rcvd[x] >= pos[p].qty[x]
      BY <1>0, <1>4 DEF RowOk
    <3>5. orders'[o].product = x /\ orders'[o].status = orders[o].status
      BY <2>4
    <3> HIDE DEF x
    <3> QED BY <2>2, <3>2, <3>3, <3>4, <3>5 DEF RowOk
  <2> QED BY <1>2, <2>3, <2>4
<1>5. CASE p = j /\ orders[o].po # p
  BY <1>2, <1>5 DEF RowOk
<1> QED BY <1>3, <1>4, <1>5

\* Rows that are returned are on no order; the others of that order keep their
\* lines, which are a draft's or do not change.
LEMMA RowReturnedOrKept ==
  ASSUME QueueInv, QueueInv', ReceiptInv, NEW o \in OrderIds, NEW p \in PoIds, PoOk(p)',
         NEW r \in Requests, CancelCommit(r) \/ EditCommit(r) \/ RemoveCommit(r)
  PROVE  RowOk(o, p)'
<1>0. RowOk(o, p) /\ PoOk(p) /\ TypeOK /\ JobShape
  BY DEF ReceiptInv, QueueInv
<1>1. orders'[o] = orders[o] \/ orders'[o].po = Null
  <2>1. UNCHANGED orders \/ \E R : orders' = BackToQueue(R)
    BY DEF CancelCommit, EditCommit, RemoveCommit
  <2>2. ASSUME NEW R, orders' = BackToQueue(R)
        PROVE  orders'[o] = orders[o] \/ orders'[o].po = Null
    BY <1>0, <2>2 DEF BackToQueue, TypeOK, OrderRow
  <2> QED BY <2>1, <2>2
<1>2. CASE orders'[o].po = Null
  BY <1>2, ConstantsAssumption DEF RowOk
<1>3. CASE orders'[o] = orders[o]
  <2>1. CASE CancelCommit(r)
    <3>1. pos' = [pos EXCEPT ![job[r].po].status = "cancelled"]
      BY <2>1 DEF CancelCommit
    <3>2. pos'[p].qty = pos[p].qty /\ pos'[p].rcvd = pos[p].rcvd
      BY <1>0, <3>1 DEF TypeOK, PurchaseOrder
    <3> QED BY <1>0, <1>3, <3>2, RowQuiet
  <2>2. CASE pos'[p] = pos[p]
    BY <1>0, <1>3, <2>2, RowQuiet
  <2>3. CASE (EditCommit(r) \/ RemoveCommit(r)) /\ pos'[p] # pos[p]
    <3>1. pos[p].status = "draft" /\ pos'[p].status = "draft"
      BY <1>0, <2>3, DraftWritten
    <3>2. CASE orders[o].po = p
      <4>1. orders'[o].status # "completed"
        BY <1>0, <1>3, <3>1, <3>2, NoneComplete
      <4> QED BY <3>1, <4>1, RowOnDraft
    <3>3. CASE orders[o].po # p
      BY <1>3, <3>3 DEF RowOk
    <3> QED BY <3>2, <3>3
  <2> QED BY <2>1, <2>2, <2>3
<1> QED BY <1>1, <1>2, <1>3

LEMMA RowStep ==
  ASSUME QueueInv, QueueInv', ReceiptInv, [Next]_vars,
         NEW o \in OrderIds, NEW p \in PoIds, PoOk(p)'
  PROVE  RowOk(o, p)'
<1>0. RowOk(o, p) /\ TypeOK /\ JobShape
  BY DEF ReceiptInv, QueueInv
<1>1. CASE UNCHANGED <<orders, pos>>
  BY <1>0, <1>1, RowQuiet
<1>2. ASSUME NEW d \in OrderIds, RemoveQueuedOrder(d) PROVE RowOk(o, p)'
  <2>1. UNCHANGED pos /\ orders' = [orders EXCEPT ![d].status = "deleted"]
    BY <1>2 DEF RemoveQueuedOrder
  <2>2. CASE o = d
    <3>1. orders'[o].status = "deleted"
      BY <1>0, <2>1, <2>2 DEF TypeOK, OrderRow
    <3> QED BY <3>1 DEF RowOk
  <2>3. CASE o # d
    <3>1. orders'[o] = orders[o]
      BY <1>0, <2>1, <2>3 DEF TypeOK
    <3> QED BY <1>0, <2>1, <3>1, RowQuiet
  <2> QED BY <2>2, <2>3
<1>3. ASSUME NEW r \in Requests, QueueCommit(r) PROVE RowOk(o, p)'
  <2> DEFINE q == job[r].entry[job[r].line]
  <2>1. /\ UNCHANGED pos
        /\ \/ UNCHANGED orders
           \/ \E d \in OrderIds : orders' = [orders EXCEPT ![d].qty = q]
           \/ \E d \in OrderIds : orders' = [orders EXCEPT ![d] = PlannedRow(job[r].line, q)]
    <3>1. job[r].rows \in SUBSET OrderIds
      BY <1>0 DEF TypeOK, Job
    <3> QED BY <1>3, <3>1 DEF QueueCommit
  <2> HIDE DEF q
  <2>2. CASE \E d \in OrderIds : orders' = [orders EXCEPT ![d].qty = q]
    <3>1. /\ orders'[o].status = orders[o].status /\ orders'[o].po = orders[o].po
          /\ orders'[o].product = orders[o].product
      BY <1>0, <2>2 DEF TypeOK, OrderRow
    <3> QED BY <1>0, <2>1, <3>1, RowQuiet
  <2>3. CASE \E d \in OrderIds : orders' = [orders EXCEPT ![d] = PlannedRow(job[r].line, q)]
    <3>1. orders'[o] = orders[o] \/ orders'[o].status = "pending"
      BY <1>0, <2>3 DEF TypeOK, PlannedRow
    <3>2. CASE orders'[o].status = "pending"
      BY <3>2 DEF RowOk
    <3>3. CASE orders'[o] = orders[o]
      BY <1>0, <2>1, <3>3, RowQuiet
    <3> QED BY <3>1, <3>2, <3>3
  <2> QED BY <1>1, <2>1, <2>2, <2>3
<1>4. ASSUME NEW r \in Requests, SendClaim(r) \/ SendRollback(r) PROVE RowOk(o, p)'
  <2>1. /\ UNCHANGED orders
        /\ \/ UNCHANGED pos
           \/ pos' = [pos EXCEPT ![job[r].po].status = "sent"]
           \/ pos' = [pos EXCEPT ![job[r].po].status = "draft"]
    BY <1>4 DEF SendClaim, SendRollback
  <2>2. pos \in [PoIds -> PurchaseOrder]
    BY <1>0 DEF TypeOK
  <2>3. \/ pos'[p] = pos[p]
        \/ pos'[p] = [pos[p] EXCEPT !.status = "sent"]
        \/ pos'[p] = [pos[p] EXCEPT !.status = "draft"]
    BY <2>1, <2>2
  <2>4. pos'[p].qty = pos[p].qty /\ pos'[p].rcvd = pos[p].rcvd
    BY <2>2, <2>3 DEF PurchaseOrder
  <2> QED BY <1>0, <2>1, <2>4, RowQuiet
<1>5. ASSUME NEW r \in Requests,
             StartOf(r) \/ LockStepOf(r) \/ Abort(r) \/ EmailAccepted(r) \/ EmailThrows(r)
      PROVE  RowOk(o, p)'
  <2>1. UNCHANGED <<orders, pos>>
    BY <1>0, <1>5, Started DEF LockStepOf, CreateLock, ManualLock, NumberUnderLock, Abort,
       EmailAccepted, EmailThrows
  <2> QED BY <1>1, <2>1
<1>6. UNCHANGED vars => UNCHANGED <<orders, pos>>
  BY DEF vars
<1> QED BY <1>1, <1>2, <1>3, <1>4, <1>5, <1>6, RowCreated, RowReceived, RowReversed,
       RowReturnedOrKept DEF Next, StepOf

LEMMA ReceiptNext ==
  ASSUME "emailFails" \notin Enabled
  PROVE  QueueInv /\ ReceiptInv /\ [Next]_vars => (QueueInv /\ ReceiptInv)'
<1> SUFFICES ASSUME QueueInv, ReceiptInv, [Next]_vars PROVE QueueInv' /\ ReceiptInv'
  OBVIOUS
<1>1. QueueInv'
  BY QueueInvNext
<1>2. TypeOK /\ TypeOK' /\ JobShape
  BY <1>1 DEF QueueInv
<1>3. NoHandBack' /\ \A r \in Requests : LockedOf(r)'
  BY <1>2, LockedStep DEF ReceiptInv
<1>4. \A p \in PoIds : PoOk(p)'
  BY <1>2, PoStep
<1>5. \A o \in OrderIds, p \in PoIds : RowOk(o, p)'
  BY <1>1, <1>4, RowStep
<1> QED BY <1>1, <1>3, <1>4, <1>5 DEF ReceiptInv

LEMMA ReceiptInit == Init => ReceiptInv
<1> SUFFICES ASSUME Init PROVE ReceiptInv
  OBVIOUS
<1>1. NoHandBack /\ \A r \in Requests : LockedOf(r)
  BY DEF Init, Idle, NoHandBack, LockedOf, Holder
<1>2. \A p \in PoIds : PoOk(p)
  BY DEF Init, FreePo, NoLines, PoOk
<1>3. \A o \in OrderIds, p \in PoIds : RowOk(o, p)
  BY ConstantsAssumption DEF Init, FreeOrder, PlannedRow, RowOk
<1> QED BY <1>1, <1>2, <1>3 DEF ReceiptInv

\* What ReceiptInv says of each request, order and row is what the runs check.
LEMMA ReceiptParts ==
  TypeOK /\ ReceiptInv => EntriesStillFit /\ StatusReflectsReceipts /\ QueueFollowsReceipts
<1> SUFFICES ASSUME TypeOK, ReceiptInv
             PROVE  EntriesStillFit /\ StatusReflectsReceipts /\ QueueFollowsReceipts
  OBVIOUS
<1>1. EntriesStillFit
  BY DEF ReceiptInv, LockedOf, Holder, EntriesStillFit
<1>2. StatusReflectsReceipts
  BY DEF ReceiptInv, PoOk, StatusReflectsReceipts
<1>3. QueueFollowsReceipts
  BY DEF ReceiptInv, RowOk, QueueFollowsReceipts
<1> QED BY <1>1, <1>2, <1>3

LEMMA ReceiptsInvariant ==
  ASSUME "emailFails" \notin Enabled
  PROVE  Spec => [](QueueInv /\ ReceiptInv)
<1>1. Init => QueueInv /\ ReceiptInv
  BY QueueInvInit, ReceiptInit
<1> QED BY <1>1, ReceiptNext, PTL DEF Spec

\* Two people receiving, reversing and editing one order at once: what one
\* checked under the lock is still so when it writes (receive-po.ts), as long as
\* no failing email hands the order back.
THEOREM EntriesFit ==
  ASSUME "emailFails" \notin Enabled
  PROVE  Spec => []EntriesStillFit
<1>1. QueueInv /\ ReceiptInv => EntriesStillFit
  BY ReceiptParts DEF QueueInv
<1> QED BY <1>1, ReceiptsInvariant, PTL

\* The status of an order says what is in, whoever moved it (receive-po.ts,
\* unreceive-po.ts recompute it from the lines they read under the lock).
THEOREM StatusIsReceipts ==
  ASSUME "emailFails" \notin Enabled
  PROVE  Spec => []StatusReflectsReceipts
<1>1. QueueInv /\ ReceiptInv => StatusReflectsReceipts
  BY ReceiptParts DEF QueueInv
<1> QED BY <1>1, ReceiptsInvariant, PTL

\* A queue row is completed exactly when its line is full, so the forecast
\* neither waits for units that came in nor forgets units that are to come.
THEOREM QueueIsReceipts ==
  ASSUME "emailFails" \notin Enabled
  PROVE  Spec => []QueueFollowsReceipts
<1>1. QueueInv /\ ReceiptInv => QueueFollowsReceipts
  BY ReceiptParts DEF QueueInv
<1> QED BY <1>1, ReceiptsInvariant, PTL

-----------------------------------------------------------------------------
(* Lists that name each line once (MaxNamed = 1).  Only then is the guard  *)
(* on an entry a guard on what the request does to the line.               *)

\* Nothing is over-received, nothing is negative, and an order is partially
\* received only with something in.
TightOf(p) ==
    /\ \A x \in Products : 0 <= pos[p].rcvd[x] /\ pos[p].rcvd[x] <= pos[p].qty[x]
    /\ pos[p].status = "partially_received" => \E x \in Products : pos[p].rcvd[x] # 0

\* An order that has nothing in, and is not partially received, is tight.
LEMMA EmptyIsTight ==
  ASSUME TypeOK', NEW p \in PoIds, pos'[p].status # "partially_received",
         \A x \in Products : pos'[p].rcvd[x] = 0
  PROVE  TightOf(p)'
<1>1. \A x \in Products : pos'[p].qty[x] \in Nat
  <2>1. pos'[p].qty \in Quantities
    BY DEF TypeOK, PurchaseOrder
  <2> QED BY <2>1, ConstantsAssumption DEF Quantities
<1> QED BY <1>1 DEF TightOf

LEMMA TightStep ==
  ASSUME TypeOK, TypeOK', JobShape, ReceiptInv, MaxNamed = 1, [Next]_vars,
         NEW p \in PoIds, TightOf(p)
  PROVE  TightOf(p)'
<1>0. PoOk(p) /\ (pos'[p] = pos[p] => TightOf(p)')
  BY DEF ReceiptInv, TightOf
<1>n. \A x \in Products : pos[p].qty[x] \in Nat /\ pos[p].rcvd[x] \in Int
  BY Numeric
<1>1. CASE UNCHANGED pos
  BY <1>0, <1>1
<1>2. ASSUME NEW r \in Requests, CreateCommit(r) \/ ManualCommit(r) PROVE TightOf(p)'
  <2>1. pos'[p] = pos[p] \/ pos'[p] = NewDraft(r)
    BY <1>2 DEF CreateCommit, ManualCommit, TypeOK
  <2>2. CASE pos'[p] = NewDraft(r)
    <3>1. pos'[p].status = "draft" /\ \A x \in Products : pos'[p].rcvd[x] = 0
      BY <2>2 DEF NewDraft, NoLines
    <3> QED BY <3>1, EmptyIsTight
  <2> QED BY <1>0, <2>1, <2>2
<1>3. ASSUME NEW r \in Requests, SendClaim(r) \/ SendRollback(r) \/ CancelCommit(r)
      PROVE  TightOf(p)'
  <2>1. \/ UNCHANGED pos
        \/ \E st \in {"sent", "draft", "cancelled"} : pos' = [pos EXCEPT ![job[r].po].status = st]
    BY <1>3 DEF SendClaim, SendRollback, CancelCommit
  <2>2. ASSUME NEW st \in {"sent", "draft", "cancelled"},
               pos' = [pos EXCEPT ![job[r].po].status = st]
        PROVE  TightOf(p)'
    <3>1. \/ pos'[p] = pos[p]
          \/ /\ pos'[p].rcvd = pos[p].rcvd /\ pos'[p].qty = pos[p].qty
             /\ pos'[p].status = st
      BY <2>2 DEF TypeOK, PurchaseOrder
    <3> QED BY <1>0, <3>1 DEF TightOf
  <2> QED BY <1>0, <2>1, <2>2
<1>4. ASSUME NEW r \in Requests, EditCommit(r) \/ RemoveCommit(r) PROVE TightOf(p)'
  <2>1. CASE pos'[p] = pos[p]
    BY <1>0, <2>1
  <2>2. CASE pos'[p] # pos[p]
    <3>1. pos[p].status = "draft" /\ pos'[p].status = "draft"
      BY <1>4, <2>2, DraftWritten
    <3>2. \A x \in Products : pos'[p].rcvd[x] = pos[p].rcvd[x] \/ pos'[p].rcvd[x] = 0
      BY <1>4, <2>2, DraftWritten
    <3>3. \A x \in Products : pos'[p].rcvd[x] = 0
      BY <1>0, <3>1, <3>2 DEF PoOk
    <3> QED BY <3>1, <3>3, EmptyIsTight
  <2> QED BY <2>1, <2>2
<1>5. ASSUME NEW r \in Requests, ReceiveCommit(r) PROVE TightOf(p)'
  <2>1. LockedOf(r)
    BY DEF ReceiptInv
  <2>2. CASE p # job[r].po
    BY <1>0, <1>5, <2>1, <2>2, ReceiptWritten
  <2>3. CASE p = job[r].po
    <3>1. /\ pos'[p].qty = pos[p].qty
          /\ \A x \in Products : pos'[p].rcvd[x] = pos[p].rcvd[x] + job[r].entry[x]
      BY <1>5, <2>1, <2>3, ReceiptWritten
    <3>2. \A x \in Products : job[r].entry[x] \in Nat
      BY Numeric
    <3>3. \A x \in Products : job[r].entry[x] > 0 =>
            job[r].entry[x] <= 1 * (pos[p].qty[x] - pos[p].rcvd[x])
      BY <1>5, <2>1, <2>3 DEF ReceiveCommit, LockedOf, Holder, EachReceiptFits, Outstanding, LinesOf
    <3>4. \A x \in Products : 0 <= pos'[p].rcvd[x] /\ pos'[p].rcvd[x] <= pos'[p].qty[x]
      BY <1>n, <3>1, <3>2, <3>3 DEF TightOf
    <3>5. \E x \in Products : pos'[p].rcvd[x] # 0
      <4>1. PICK x \in Products : job[r].entry[x] > 0
        BY <1>5, <2>1 DEF ReceiveCommit, LockedOf, Holder, LinesOf
      <4> QED BY <1>n, <3>1, <3>2, <4>1 DEF TightOf
    <3> QED BY <3>4, <3>5 DEF TightOf
  <2> QED BY <2>2, <2>3
<1>6. ASSUME NEW r \in Requests, UnreceiveCommit(r) PROVE TightOf(p)'
  <2>1. LockedOf(r)
    BY DEF ReceiptInv
  <2>2. CASE p # job[r].po
    BY <1>0, <1>6, <2>1, <2>2, ReversalWritten
  <2>3. CASE p = job[r].po
    <3>1. /\ pos'[p].qty = pos[p].qty
          /\ \A x \in Products : pos'[p].rcvd[x] = pos[p].rcvd[x] - job[r].entry[x]
          /\ pos'[p].status = "partially_received" => ~ NothingIn(pos[p].qty, pos'[p].rcvd)
      BY <1>6, <2>1, <2>3, ReversalWritten
    <3>2. \A x \in Products : job[r].entry[x] \in Nat
      BY Numeric
    <3>3. \A x \in Products : job[r].entry[x] > 0 => job[r].entry[x] <= 1 * pos[p].rcvd[x]
      BY <1>6, <2>1, <2>3 DEF UnreceiveCommit, LockedOf, Holder, EachReversalFits, LinesOf
    <3>4. \A x \in Products : 0 <= pos'[p].rcvd[x] /\ pos'[p].rcvd[x] <= pos'[p].qty[x]
      BY <1>n, <3>1, <3>2, <3>3 DEF TightOf
    <3> QED BY <3>1, <3>4 DEF TightOf, NothingIn, LinesOf
  <2> QED BY <2>2, <2>3
<1> QED BY <1>1, <1>2, <1>3, <1>4, <1>5, <1>6, Writers DEF WritesPos

\* What the comments of receive-po.ts:100 and unreceive-po.ts:88 promise holds
\* of lists that name each line once, whoever receives, reverses, cancels and
\* edits at the same time: no line has more in than was ordered, none less than
\* nothing, and a partially received order has something in.  (Of lists that
\* name a line twice it does not: NoOverReceipt fails with MaxNamed = 2.)
THEOREM NeverOverReceived ==
  ASSUME "emailFails" \notin Enabled, MaxNamed = 1
  PROVE  Spec => [](NoOverReceipt /\ NeverNegative /\ PartlyMeansSome)
<1> DEFINE Tight == \A p \in PoIds : TightOf(p)
<1>1. Init => Tight
  <2> SUFFICES ASSUME Init, NEW p \in PoIds PROVE TightOf(p)
    OBVIOUS
  <2> QED BY DEF Init, FreePo, NoLines, TightOf
<1>2. QueueInv /\ QueueInv' /\ ReceiptInv /\ Tight /\ [Next]_vars => Tight'
  BY TightStep DEF QueueInv
<1>3. QueueInv /\ ReceiptInv /\ Tight => NoOverReceipt /\ NeverNegative /\ PartlyMeansSome
  <2> SUFFICES ASSUME QueueInv, ReceiptInv, Tight
               PROVE  NoOverReceipt /\ NeverNegative /\ PartlyMeansSome
    OBVIOUS
  <2>1. NoOverReceipt /\ NeverNegative
    <3>1. \A p \in PoIds, x \in Products : pos[p].rcvd[x] \in Int
      BY Numeric DEF QueueInv
    <3> QED BY <3>1 DEF TightOf, NoOverReceipt, NeverNegative
  <2>2. PartlyMeansSome
    <3> SUFFICES ASSUME NEW p \in PoIds, pos[p].status = "partially_received"
                 PROVE  \E x \in Products : pos[p].rcvd[x] > 0
      BY DEF PartlyMeansSome
    <3>1. PICK x \in Products : pos[p].rcvd[x] # 0
      BY DEF TightOf
    <3>2. pos[p].rcvd[x] \in Int /\ 0 <= pos[p].rcvd[x]
      BY Numeric DEF QueueInv, TightOf
    <3> QED BY <3>1, <3>2
  <2> QED BY <2>1, <2>2
<1> HIDE DEF Tight
<1> QED BY <1>1, <1>2, <1>3, ReceiptsInvariant, PTL DEF Spec

-----------------------------------------------------------------------------
(* Shelves.  Units come in and go out by receipts and reversals alone, and *)
(* each moves the sum over the shelves by what it moves the sum booked in. *)

Units(n) == IF n = Null THEN 0 ELSE n
UnitsOnShelves(x) == [l \in Locations |-> UnitsOn(l, x)]
UnitsBooked(x)    == [p \in PoIds |-> pos[p].rcvd[x]]

\* A product no shelf has a row for has not come in.
Unshelved(x) == \A l \in Locations : level[l][x] = Null

ShelfInv ==
    /\ \A r \in Requests : Holder(r) => job[r].loc \in Locations
    /\ \A x \in Products : Unshelved(x) => \A p \in PoIds : pos[p].rcvd[x] = 0
    /\ ShelfMatchesReceipts

\* Both sums are over numbers.
LEMMA ShelfNumbers ==
  ASSUME TypeOK, NEW x \in Products
  PROVE  /\ \A l \in Locations : UnitsOnShelves(x)[l] \in Int
         /\ \A p \in PoIds : UnitsBooked(x)[p] \in Int
<1>1. \A l \in Locations : level[l][x] \in Int \cup {Null}
  BY DEF TypeOK
<1>2. \A p \in PoIds : pos[p].rcvd[x] \in Int
  BY Numeric
<1> QED BY <1>1, <1>2 DEF UnitsOnShelves, UnitsOn, UnitsBooked

\* What is booked in changes by receipts and reversals alone: an order that
\* is new, or back in draft, has nothing in.
LEMMA BookedKept ==
  ASSUME TypeOK, JobShape, ReceiptInv, [Next]_vars, NEW p \in PoIds, NEW x \in Products,
         \A r \in Requests : ~ ReceiveCommit(r) /\ ~ UnreceiveCommit(r)
  PROVE  pos'[p].rcvd[x] = pos[p].rcvd[x]
<1>1. CASE Left(p)
  BY <1>1, ReceivedKept
<1>2. CASE ~ Left(p)
  <2>1. pos[p].rcvd[x] = 0
    BY <1>2 DEF Left, ReceiptInv, PoOk
  <2>2. ASSUME NEW r \in Requests, CreateCommit(r) \/ ManualCommit(r)
        PROVE  pos'[p].rcvd[x] = 0
    <3>1. pos'[p] = pos[p] \/ pos'[p] = NewDraft(r)
      BY <2>2 DEF CreateCommit, ManualCommit, TypeOK
    <3> QED BY <2>1, <3>1 DEF NewDraft, NoLines
  <2>3. ASSUME NEW r \in Requests, EditCommit(r) \/ RemoveCommit(r)
        PROVE  pos'[p].rcvd[x] = 0
    BY <2>1, <2>3, DraftWritten
  <2>4. ASSUME NEW r \in Requests, SendClaim(r) \/ SendRollback(r) \/ CancelCommit(r)
        PROVE  pos'[p].rcvd[x] = 0
    <3>1. \/ UNCHANGED pos
          \/ \E st \in {"sent", "draft", "cancelled"} : pos' = [pos EXCEPT ![job[r].po].status = st]
      BY <2>4 DEF SendClaim, SendRollback, CancelCommit
    <3>2. ASSUME NEW st, pos' = [pos EXCEPT ![job[r].po].status = st]
          PROVE  pos'[p].rcvd = pos[p].rcvd
      BY <3>2 DEF TypeOK, PurchaseOrder
    <3> QED BY <2>1, <3>1, <3>2
  <2> QED BY <2>1, <2>2, <2>3, <2>4, Writers DEF WritesPos
<1> QED BY <1>1, <1>2

\* The shelves change by receipts and reversals alone.
LEMMA ShelvesKept ==
  ASSUME [Next]_vars, \A r \in Requests : ~ ReceiveCommit(r) /\ ~ UnreceiveCommit(r)
  PROVE  UNCHANGED level
<1>1. ASSUME NEW r \in Requests, StartOf(r) PROVE UNCHANGED level
  BY <1>1, StartWrites
<1>2. ASSUME NEW r \in Requests, StepOf(r) PROVE UNCHANGED level
  BY <1>2 DEF StepOf, QueueCommit, CreateCommit, ManualCommit, SendClaim,
     EmailAccepted, EmailThrows, SendRollback, CancelCommit, EditCommit, RemoveCommit
<1>3. ASSUME NEW r \in Requests, LockStepOf(r) \/ Abort(r) PROVE UNCHANGED level
  BY <1>3 DEF LockStepOf, CreateLock, ManualLock, NumberUnderLock, Abort
<1>4. CASE UNCHANGED vars \/ \E o \in OrderIds : RemoveQueuedOrder(o)
  BY <1>4 DEF vars, RemoveQueuedOrder
<1> QED BY <1>1, <1>2, <1>3, <1>4 DEF Next

\* A request that receives or reverses names a location from its start.
LEMMA LocationKept ==
  ASSUME TypeOK, ShelfInv, [Next]_vars
  PROVE  \A r \in Requests : Holder(r)' => job'[r].loc \in Locations
<1> SUFFICES ASSUME NEW s \in Requests, Holder(s)' PROVE job'[s].loc \in Locations
  OBVIOUS
<1>0. job'[s] = job[s] => job'[s].loc \in Locations
  BY DEF ShelfInv, Holder
<1>1. CASE UNCHANGED vars \/ \E o \in OrderIds : RemoveQueuedOrder(o)
  BY <1>0, <1>1 DEF vars, RemoveQueuedOrder
<1>2. ASSUME StartOf(s) PROVE job'[s].loc \in Locations
  <2>1. PICK p \in PoIds, e \in Totals, l \in Locations :
          ReceiveRead(s, p, e, l) \/ UnreceiveRead(s, p, e, l)
    BY <1>2, Started DEF Holder
  <2>2. job'[s].loc = l
    <3>1. job \in [Requests -> Job]
      BY DEF TypeOK
    <3>2. ASSUME NEW pc, job' = [job EXCEPT ![s] = [Idle EXCEPT
                   !.pc = pc, !.po = p, !.qty = pos[p].qty, !.rcvd = pos[p].rcvd,
                   !.entry = e, !.loc = l]]
          PROVE  job'[s].loc = l
      BY <3>1, <3>2 DEF Idle
    <3>3. CASE ReceiveRead(s, p, e, l)
      BY <3>2, <3>3 DEF ReceiveRead, Starts
    <3>4. CASE UnreceiveRead(s, p, e, l)
      BY <3>2, <3>4 DEF UnreceiveRead, Starts
    <3> QED BY <2>1, <3>3, <3>4
  <2> QED BY <2>2
<1>f. Finishes(s) => job'[s].pc = "idle"
  BY DEF Finishes, TypeOK, Idle
<1>g. ASSUME NEW pc, job' = [job EXCEPT ![s].pc = pc] PROVE job'[s].pc = pc
  BY <1>g DEF TypeOK, Job
<1>3. ASSUME StepOf(s) PROVE FALSE
  <2>1. \/ Finishes(s)
        \/ job' = [job EXCEPT ![s].pc = "emailing"]
        \/ job' = [job EXCEPT ![s].pc = "rollback"]
    BY <1>3 DEF StepOf, QueueCommit, CreateCommit, ManualCommit, SendClaim, EmailAccepted,
       EmailThrows, SendRollback, CancelCommit, ReceiveCommit, UnreceiveCommit,
       EditCommit, RemoveCommit
  <2> QED BY <1>f, <1>g, <2>1 DEF Holder
<1>4. ASSUME LockStepOf(s) \/ Abort(s) PROVE FALSE
  <2>1. CASE Abort(s)
    BY <1>f, <2>1 DEF Abort, Holder
  <2>2. CASE LockStepOf(s)
    <3>1. \E pc \in {"create", "manual"}, n \in 1..MaxNumber :
            job' = [job EXCEPT ![s].pc = pc, ![s].number = n]
      BY <2>2 DEF LockStepOf, CreateLock, ManualLock, NumberUnderLock
    <3>2. ASSUME NEW pc, NEW n, job' = [job EXCEPT ![s].pc = pc, ![s].number = n]
          PROVE  job'[s].pc = pc
      BY <3>2 DEF TypeOK, Job
    <3> QED BY <3>1, <3>2 DEF Holder
  <2> QED BY <1>4, <2>1, <2>2
<1> QED BY <1>0, <1>1, <1>2, <1>3, <1>4, OneStepper

\* What a receipt or a reversal does to an order and to the shelves, when it
\* moves d[x] units of product x: booked in as entered, and on the shelf it
\* names unless there is no row to take them off.
Moves(r, d) ==
    /\ job[r].po \in PoIds /\ job[r].loc \in Locations
    /\ \A x \in Products :
         /\ pos'[job[r].po].rcvd[x] = pos[job[r].po].rcvd[x] + d[x]
         /\ \A p \in PoIds \ {job[r].po} : pos'[p].rcvd[x] = pos[p].rcvd[x]
         /\ \A l \in Locations \ {job[r].loc} : level'[l][x] = level[l][x]
         /\ level'[job[r].loc][x] = Null => level[job[r].loc][x] = Null
         /\ \/ /\ Units(level'[job[r].loc][x]) = Units(level[job[r].loc][x]) + d[x]
               /\ d[x] # 0 => level'[job[r].loc][x] # Null
            \/ /\ d[x] < 0 /\ pos[job[r].po].rcvd[x] # 0
               /\ level[job[r].loc][x] = Null /\ level'[job[r].loc][x] = Null

\* A receipt puts on a shelf what it books in.
LEMMA ReceiptMoves ==
  ASSUME TypeOK, JobShape, ReceiptInv, ShelfInv, StoreLocations = {},
         NEW r \in Requests, ReceiveCommit(r)
  PROVE  Moves(r, job[r].entry)
<1> DEFINE l == job[r].loc
           e == job[r].entry
<1>1. LockedOf(r) /\ l \in Locations
  BY DEF ReceiptInv, ShelfInv, ReceiveCommit, Holder
<1>2. \A x \in Products : e[x] \in Nat /\ level[l][x] \in Int \cup {Null} /\ Null \notin Int
  BY <1>1, Numeric, ConstantsAssumption DEF TypeOK
<1>3. level' = [level EXCEPT ![l] = [x \in Products |->
            IF e[x] = 0 THEN level[l][x]
            ELSE IF level[l][x] = Null THEN e[x] ELSE level[l][x] + e[x]]]
  BY DEF ReceiveCommit, MoveStock
<1>4. ASSUME NEW x \in Products
      PROVE  /\ level'[l][x] = IF e[x] = 0 THEN level[l][x]
                               ELSE IF level[l][x] = Null THEN e[x] ELSE level[l][x] + e[x]
             /\ \A k \in Locations \ {l} : level'[k][x] = level[k][x]
  BY <1>1, <1>3 DEF TypeOK
<1>5. ASSUME NEW x \in Products
      PROVE  /\ Units(level'[l][x]) = Units(level[l][x]) + e[x]
             /\ e[x] # 0 => level'[l][x] # Null
             /\ level'[l][x] = Null => level[l][x] = Null
  <2> HIDE DEF e, l
  <2> QED BY <1>2, <1>4, <1>5 DEF Units
<1>6. /\ job[r].po \in PoIds
      /\ \A d \in PoIds \ {job[r].po} : pos'[d] = pos[d]
      /\ \A x \in Products : pos'[job[r].po].rcvd[x] = pos[job[r].po].rcvd[x] + e[x]
  BY <1>1, ReceiptWritten
<1> QED BY <1>1, <1>4, <1>5, <1>6 DEF Moves

\* A reversal takes off a shelf what it takes back, if the shelf has a row.
LEMMA ReversalMoves ==
  ASSUME TypeOK, JobShape, ReceiptInv, ShelfInv, StoreLocations = {},
         NEW r \in Requests, UnreceiveCommit(r)
  PROVE  Moves(r, [x \in Products |-> 0 - job[r].entry[x]])
<1> DEFINE l == job[r].loc
           e == job[r].entry
           d == [x \in Products |-> 0 - e[x]]
<1>1. LockedOf(r) /\ l \in Locations
  BY DEF ReceiptInv, ShelfInv, UnreceiveCommit, Holder, JobShape, JobShapeOf
<1>2. \A x \in Products : e[x] \in Nat /\ level[l][x] \in Int \cup {Null} /\ Null \notin Int
  BY <1>1, Numeric, ConstantsAssumption DEF TypeOK
<1>3. level' = [level EXCEPT ![l] = [x \in Products |->
            IF e[x] = 0 \/ level[l][x] = Null THEN level[l][x] ELSE level[l][x] - e[x]]]
  BY DEF UnreceiveCommit, MoveStockBack
<1>4. ASSUME NEW x \in Products
      PROVE  /\ level'[l][x] = IF e[x] = 0 \/ level[l][x] = Null THEN level[l][x]
                               ELSE level[l][x] - e[x]
             /\ \A k \in Locations \ {l} : level'[k][x] = level[k][x]
  BY <1>1, <1>3 DEF TypeOK
<1>5. ASSUME NEW x \in Products
      PROVE  /\ level'[l][x] = Null => level[l][x] = Null
             /\ \/ /\ Units(level'[l][x]) = Units(level[l][x]) + d[x]
                   /\ d[x] # 0 => level'[l][x] # Null
                \/ /\ d[x] < 0 /\ pos[job[r].po].rcvd[x] # 0
                   /\ level[l][x] = Null /\ level'[l][x] = Null
  <2>1. d[x] = 0 - e[x]
    OBVIOUS
  <2>2. e[x] > 0 => pos[job[r].po].rcvd[x] # 0
    <3>1. job[r].pc = "unreceive"
      BY DEF UnreceiveCommit
    <3>2. e[x] > 0 => e[x] <= MaxNamed * pos[job[r].po].rcvd[x]
      BY <1>1, <3>1 DEF LockedOf, Holder, EachReversalFits, LinesOf
    <3>3. MaxNamed * 0 = 0
      BY ConstantsAssumption
    <3> HIDE DEF e
    <3> QED BY <1>2, <3>2, <3>3
  <2> HIDE DEF e, l, d
  <2> QED BY <1>2, <1>4, <1>5, <2>1, <2>2 DEF Units
<1>6. /\ job[r].po \in PoIds
      /\ \A p \in PoIds \ {job[r].po} : pos'[p] = pos[p]
      /\ \A x \in Products : pos'[job[r].po].rcvd[x] = pos[job[r].po].rcvd[x] - e[x]
  BY <1>1, ReversalWritten
<1>7. \A x \in Products : pos'[job[r].po].rcvd[x] = pos[job[r].po].rcvd[x] + d[x]
  <2>1. \A x \in Products : d[x] = 0 - e[x] /\ pos[job[r].po].rcvd[x] \in Int
    BY <1>6, Numeric
  <2> HIDE DEF d, e
  <2> QED BY <1>2, <1>6, <2>1
<1> QED BY <1>1, <1>4, <1>5, <1>6, <1>7 DEF Moves

\* Such a move keeps the account of every product.
LEMMA MoveKeepsAccount ==
  ASSUME TypeOK, TypeOK', IsFiniteSet(Locations), IsFiniteSet(PoIds), ShelfInv,
         NEW r \in Requests, NEW d, Moves(r, d), NEW x \in Products, d[x] \in Int,
         \A p \in PoIds : pos'[p].rcvd[x] \in Int
  PROVE  /\ Shelved(x)' >= BookedIn(x)'
         /\ (\A k, l \in Locations : k = l) => Shelved(x)' = BookedIn(x)'
<1> DEFINE b == job[r].po
           m == job[r].loc
           g == UnitsOnShelves(x)
           h == [l \in Locations |-> UnitsOn(l, x)']
           u == UnitsBooked(x)
           v == [p \in PoIds |-> pos'[p].rcvd[x]]
           sg == SumFunctionOnSet(g, Locations)
           sh == SumFunctionOnSet(h, Locations)
           su == SumFunctionOnSet(u, PoIds)
           sv == SumFunctionOnSet(v, PoIds)
<1>1. Shelved(x) = sg /\ BookedIn(x) = su /\ Shelved(x)' = sh /\ BookedIn(x)' = sv
  BY DEF Shelved, BookedIn, UnitsOnShelves, UnitsBooked
<1>2. b \in PoIds /\ m \in Locations
  BY DEF Moves
<1>3. /\ \A l \in Locations : g[l] \in Int /\ g[l] = Units(level[l][x])
      /\ \A p \in PoIds : u[p] \in Int /\ u[p] = pos[p].rcvd[x]
  BY ShelfNumbers DEF UnitsOnShelves, UnitsOn, UnitsBooked, Units
<1>4. \A l \in Locations : h[l] \in Int /\ h[l] = Units(level'[l][x])
  <2>1. \A l \in Locations : level'[l][x] \in Int \cup {Null}
    BY DEF TypeOK
  <2> QED BY <2>1 DEF UnitsOn, Units
<1>5. \A p \in PoIds : v[p] \in Int /\ v[p] = pos'[p].rcvd[x]
  OBVIOUS
<1>6. /\ v[b] = u[b] + d[x]
      /\ \A p \in PoIds \ {b} : v[p] = u[p]
  BY <1>2, <1>3, <1>5 DEF Moves
<1>7. /\ \A l \in Locations \ {m} : h[l] = g[l]
      /\ \/ h[m] = g[m] + d[x]
         \/ /\ d[x] < 0 /\ g[m] = 0 /\ h[m] = 0
            /\ level[m][x] = Null /\ pos[b].rcvd[x] # 0
  BY <1>2, <1>3, <1>4 DEF Moves, Units
<1>8. sg >= su /\ ((\A k, l \in Locations : k = l) => sg = su)
  BY <1>1 DEF ShelfInv, ShelfMatchesReceipts
<1> HIDE DEF g, h, u, v, b, m
<1>9. sv = su + d[x]
  <2>1. sv = su + (v[b] - u[b])
    BY <1>2, <1>3, <1>5, <1>6, SumUpdate
  <2> QED BY <1>2, <1>3, <1>6, <2>1
<1>10. sh = sg + (h[m] - g[m])
  BY <1>2, <1>3, <1>4, <1>7, SumUpdate
<1>11. sg \in Int /\ su \in Int /\ v[b] \in Int /\ u[b] \in Int
  BY <1>2, <1>3, <1>5, SumInt
\* With one location, what it lacks a row for has not come in.
<1>12. ASSUME \A k, l \in Locations : k = l, level[m][x] = Null, pos[b].rcvd[x] # 0 PROVE FALSE
  <2>1. Unshelved(x)
    BY <1>2, <1>12 DEF Unshelved
  <2> QED BY <1>2, <1>12, <2>1 DEF ShelfInv
<1> HIDE DEF sg, sh, su, sv
<1>13. sh >= sv /\ ((\A k, l \in Locations : k = l) => sh = sv)
  BY <1>2, <1>3, <1>4, <1>7, <1>8, <1>9, <1>10, <1>11, <1>12
<1> QED BY <1>1, <1>13

LEMMA ShelfStep ==
  ASSUME TypeOK, TypeOK', JobShape, ReceiptInv, ShelfInv, [Next]_vars, StoreLocations = {},
         IsFiniteSet(Locations), IsFiniteSet(PoIds)
  PROVE  ShelfInv'
<1>1. \A r \in Requests : Holder(r)' => job'[r].loc \in Locations
  BY LocationKept
<1>2. \A p \in PoIds, x \in Products : pos'[p].rcvd[x] \in Int /\ pos[p].rcvd[x] \in Int
  BY DEF TypeOK, PurchaseOrder
<1> DEFINE Empty == \A x \in Products : Unshelved(x) => \A p \in PoIds : pos[p].rcvd[x] = 0
<1>3. ASSUME NEW r \in Requests, NEW d, Moves(r, d), \A x \in Products : d[x] \in Int
      PROVE  Empty' /\ ShelfMatchesReceipts'
  <2>1. ASSUME NEW x \in Products
        PROVE  /\ Shelved(x)' >= BookedIn(x)'
               /\ (\A k, l \in Locations : k = l) => Shelved(x)' = BookedIn(x)'
    BY <1>2, <1>3, MoveKeepsAccount
  <2>2. ASSUME NEW x \in Products, Unshelved(x)', NEW p \in PoIds PROVE pos'[p].rcvd[x] = 0
    <3>1. Unshelved(x)
      BY <1>3, <2>2 DEF Unshelved, Moves
    <3>2. \A c \in PoIds : pos[c].rcvd[x] = 0
      BY <3>1 DEF ShelfInv
    <3>3. d[x] = 0 /\ pos'[job[r].po].rcvd[x] = pos[job[r].po].rcvd[x] + d[x]
      BY <1>3, <2>2, <3>2 DEF Unshelved, Moves
    <3>4. p # job[r].po => pos'[p].rcvd[x] = pos[p].rcvd[x]
      BY <1>3 DEF Moves
    <3> QED BY <1>2, <3>2, <3>3, <3>4
  <2> QED BY <2>1, <2>2 DEF ShelfMatchesReceipts
<1>4. ASSUME NEW r \in Requests, ReceiveCommit(r) PROVE Empty' /\ ShelfMatchesReceipts'
  <2>1. \A x \in Products : job[r].entry[x] \in Int
    BY Numeric
  <2> QED BY <1>3, <1>4, <2>1, ReceiptMoves
<1>5. ASSUME NEW r \in Requests, UnreceiveCommit(r) PROVE Empty' /\ ShelfMatchesReceipts'
  <2> DEFINE d == [x \in Products |-> 0 - job[r].entry[x]]
  <2>1. \A x \in Products : d[x] \in Int
    BY Numeric
  <2>2. Moves(r, d)
    BY <1>5, ReversalMoves
  <2> HIDE DEF d
  <2> QED BY <1>3, <2>1, <2>2
<1>6. ASSUME \A r \in Requests : ~ ReceiveCommit(r) /\ ~ UnreceiveCommit(r)
      PROVE  Empty' /\ ShelfMatchesReceipts'
  <2>1. UNCHANGED level
    BY <1>6, ShelvesKept
  <2>2. \A p \in PoIds, x \in Products : pos'[p].rcvd[x] = pos[p].rcvd[x]
    BY <1>6, BookedKept
  <2>3. ASSUME NEW x \in Products
        PROVE  Shelved(x)' = Shelved(x) /\ BookedIn(x)' = BookedIn(x)
    BY <2>1, <2>2 DEF Shelved, BookedIn, UnitsOn
  <2>4. Empty'
    BY <2>1, <2>2 DEF ShelfInv, Unshelved
  <2> QED BY <2>3, <2>4 DEF ShelfInv, ShelfMatchesReceipts
<1> QED BY <1>1, <1>4, <1>5, <1>6 DEF ShelfInv

LEMMA ShelfInit ==
  ASSUME IsFiniteSet(Locations), IsFiniteSet(PoIds)
  PROVE  Init => ShelfInv
<1> SUFFICES ASSUME Init PROVE ShelfInv
  OBVIOUS
<1>1. \A r \in Requests : ~ Holder(r)
  BY DEF Init, Idle, Holder
<1>2. ASSUME NEW x \in Products PROVE Shelved(x) = 0 /\ BookedIn(x) = 0
  <2>1. /\ \A l \in Locations : UnitsOnShelves(x)[l] = 0
        /\ \A p \in PoIds : UnitsBooked(x)[p] = 0
    BY DEF Init, FreePo, NoLines, UnitsOnShelves, UnitsOn, UnitsBooked
  <2>2. /\ SumFunctionOnSet(UnitsOnShelves(x), Locations) = 0
        /\ SumFunctionOnSet(UnitsBooked(x), PoIds) = 0
    BY <2>1, SumZero
  <2> QED BY <2>2 DEF Shelved, BookedIn, UnitsOnShelves, UnitsBooked
<1>3. \A x \in Products, p \in PoIds : pos[p].rcvd[x] = 0
  BY DEF Init, FreePo, NoLines
<1> QED BY <1>1, <1>2, <1>3 DEF ShelfInv, ShelfMatchesReceipts

\* "100 units in, 200 on the shelf" cannot happen, for any number of requests,
\* orders and products: receipts and reversals work on what they read under
\* the lock (receive-po.ts, unreceive-po.ts), so the shelves hold what the
\* orders booked in, with no store-owned location and while no email fails.
THEOREM ShelvesMatch ==
  ASSUME "emailFails" \notin Enabled, StoreLocations = {},
         IsFiniteSet(Locations), IsFiniteSet(PoIds)
  PROVE  Spec => []ShelfMatchesReceipts
<1>1. Init => ShelfInv
  BY ShelfInit
<1>2. QueueInv /\ QueueInv' /\ ReceiptInv /\ ShelfInv /\ [Next]_vars => ShelfInv'
  BY ShelfStep DEF QueueInv
<1>3. ShelfInv => ShelfMatchesReceipts
  BY DEF ShelfInv
<1> QED BY <1>1, <1>2, <1>3, ReceiptsInvariant, PTL DEF Spec
=============================================================================
