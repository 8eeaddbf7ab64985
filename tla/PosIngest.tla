----------------------------- MODULE PosIngest -----------------------------
(***************************************************************************)
(* Till receipts of one workspace and the sales derived from them: the     *)
(* POST and pull paths and the repair (packages/pos/src/ingest.ts and      *)
(* aggregate.ts, apps/worker/src/pos-sync.ts) and the owner's fixes        *)
(* (apps/web/lib/pos/match.ts).                                            *)
(*                                                                         *)
(* Ingest and repair take the workspace's advisory lock and run in one     *)
(* transaction; matching a till code takes no lock.  Transactions are READ *)
(* COMMITTED and split at the statements that read what others write; what *)
(* a transaction has written is seen by others when it commits.  A receipt *)
(* has one line; its quantity, price and branch are left out, so that a    *)
(* sales row is the set of receipts it adds up.  A payload may be old when *)
(* it arrives: it is captured when the request starts.                     *)
(***************************************************************************)
EXTENDS Naturals, FiniteSets

CONSTANTS
    Receipts,     \* externalIds
    Skus, Products,
    Days,         \* tenant days
    RecentDays,   \* the days healPosRollup repairs
    Posters,      \* executions of POST /api/pos/ingest
    Pullers,      \* executions of the POS sync job
    Matchers,     \* executions of matchPosSku
    Attributed,   \* do sales rows carry a location (else it is NULL)?
    MaxChanges,   \* bound on changes at the till
    MaxRequests,  \* bound on requests, pulls and matches
    Null

Procs == Posters \cup Pullers \cup Matchers

ASSUME PosAssumption ==
    /\ RecentDays \subseteq Days
    /\ Attributed \in BOOLEAN
    /\ MaxChanges \in Nat /\ MaxRequests \in Nat
    /\ Null \notin Skus \cup Products \cup Days

VARIABLES
    till,     \* the till's own receipts
    lines,    \* PosSale and PosSaleLine
    sales,    \* SalesHistory rows of channel "pos"
    catalog,  \* what resolvePosSkuMap makes of the products
    ignored,  \* IgnoreRule rows of kind "till_sku"
    tx,       \* what each request holds between its statements
    dirty,    \* history: days written by overlapping writers, or on which a match
              \* took over a receipt counted under another product; not rebuilt since
    changes, requests

vars == <<till, lines, sales, catalog, ignored, tx, dirty, changes, requests>>

NoReceipt == [day |-> Null, sku |-> Null, online |-> FALSE]
NoLine == [day |-> Null, sku |-> Null, product |-> Null]
NoPayload == [r \in Receipts |-> NoReceipt]
NoMap == [k \in Skus |-> Null]
Idle == [pc |-> "idle", batch |-> {}, payload |-> NoPayload, days |-> {},
         map |-> NoMap, ignored |-> {}, product |-> Null, rows |-> {}, gone |-> {},
         overlapped |-> FALSE]

Init ==
    /\ till = NoPayload
    /\ lines = [r \in Receipts |-> NoLine]
    /\ sales = {}
    /\ catalog = NoMap
    /\ ignored = {}
    /\ tx = [p \in Procs |-> Idle]
    /\ dirty = {}
    /\ changes = 0
    /\ requests = 0

-----------------------------------------------------------------------------
(* Helpers.  A name with an underscore is a faulty variant of the          *)
(* definition that follows it.                                             *)

\* Till codes that stored lines are matched to: one product, or ambiguous.
Learned(k) == {lines[r].product : r \in {s \in Receipts : lines[s].sku = k}} \ {Null}

SkuMap_ExactOnly == catalog
SkuMap ==
    [k \in Skus |-> IF catalog[k] # Null THEN catalog[k]
                    ELSE IF Cardinality(Learned(k)) = 1
                         THEN CHOOSE x \in Learned(k) : TRUE ELSE Null]

\* The line stored for a receipt of a payload: none for an online sale.
Stored(t, r) ==
    IF t.payload[r].online THEN NoLine
    ELSE [day |-> t.payload[r].day, sku |-> t.payload[r].sku,
          product |-> t.map[t.payload[r].sku]]

LinesAfter(t) == [r \in Receipts |-> IF r \in t.batch THEN Stored(t, r) ELSE lines[r]]

TouchedDays_NullKept(t) ==
    {t.payload[r].day : r \in t.batch} \cup {lines[r].day : r \in t.batch}
TouchedDays_NewOnly(t) == {t.payload[r].day : r \in {s \in t.batch : ~t.payload[s].online}}
TouchedDays(t) ==
    ({t.payload[r].day : r \in {s \in t.batch : ~t.payload[s].online}}
        \cup {lines[r].day : r \in t.batch}) \ {Null}

\* One row per product and day, of the lines that fall on it.
Rows(p, days, productOf) ==
    {row \in [product : Products, day : days, by : {p}, from : SUBSET Receipts] :
        /\ row.from # {}
        /\ row.from = {r \in Receipts : /\ productOf[r].day = row.day
                                        /\ productOf[r].product = row.product}}

\* rebuildDays: a line keeps its product, or gets the one its code now has.
Rebuilt(t, after) ==
    [r \in Receipts |->
        IF after[r].day = Null \/ after[r].sku \in t.ignored THEN NoLine
        ELSE IF after[r].product # Null THEN after[r]
        ELSE [after[r] EXCEPT !.product = t.map[after[r].sku]]]

RowsReplaced(t) == {row \in sales : row.day \in t.days}

Clash(t) ==
    Attributed /\ \E new \in t.rows, old \in sales \ t.gone :
                      new.product = old.product /\ new.day = old.day

HasLock(p) == p \notin Matchers /\ tx[p].pc \in {"locked", "derived", "deleted"}

\* A commit ends a transaction.  It overlaps with those whose reads and writes
\* it falls between; and the lines an ingest deletes are gone for a matcher
\* that had picked them.
Committed(p) ==
    [q \in Procs |->
        IF q = p THEN Idle
        ELSE [tx[q] EXCEPT
                !.overlapped = @ \/ tx[q].pc \in {"locked", "derived", "deleted"},
                !.batch = IF q \in Matchers /\ p \notin Matchers
                          THEN @ \ tx[p].batch ELSE @]]

Ends(p) == tx' = [tx EXCEPT ![p] = Idle]
Request == requests < MaxRequests /\ requests' = requests + 1

-----------------------------------------------------------------------------
(* The till, the catalogue and the owner.                                  *)

\* A receipt is entered, corrected, moved to another day or marked online.
TillChange(r) ==
    /\ changes < MaxChanges
    /\ changes' = changes + 1
    /\ \E d \in Days, k \in Skus, online \in BOOLEAN :
          till' = [till EXCEPT ![r] = [day |-> d, sku |-> k, online |-> online]]
    /\ UNCHANGED <<lines, sales, catalog, ignored, tx, dirty, requests>>

\* The Shopify sync brings the product that has this code.
ProductArrives(k) ==
    /\ catalog[k] = Null
    /\ changes < MaxChanges
    /\ changes' = changes + 1
    /\ \E x \in Products : catalog' = [catalog EXCEPT ![k] = x]
    /\ UNCHANGED <<till, lines, sales, ignored, tx, dirty, requests>>

IgnorePosSku(k) ==
    /\ k \notin ignored
    /\ changes < MaxChanges
    /\ changes' = changes + 1
    /\ ignored' = ignored \cup {k}
    /\ UNCHANGED <<till, lines, sales, catalog, tx, dirty, requests>>

-----------------------------------------------------------------------------
(* Ingest, by POST or by the sync job, and the repair that ends the job.   *)

\* Any part of the till's receipts, as they are now.
Receive(p) ==
    /\ p \in Posters \cup Pullers
    /\ tx[p].pc = "idle"
    /\ Request
    /\ \E batch \in SUBSET {r \in Receipts : till[r] # NoReceipt} :
          /\ batch = {} => p \in Pullers
          /\ tx' = [tx EXCEPT ![p] = [Idle EXCEPT
                       !.pc = IF batch = {} THEN "heal" ELSE "ingest", !.batch = batch,
                       !.payload = [r \in Receipts |-> IF r \in batch THEN till[r]
                                                       ELSE NoReceipt]]]
    /\ UNCHANGED <<till, lines, sales, catalog, ignored, dirty, changes>>

\* The advisory lock, and the maps read under it.
Lock(p) ==
    /\ tx[p].pc \in {"ingest", "heal"}
    /\ \A q \in Procs : ~HasLock(q)
    /\ tx' = [tx EXCEPT ![p].pc = "locked", ![p].map = SkuMap, ![p].ignored = ignored,
                        ![p].days = IF tx[p].pc = "heal" THEN RecentDays ELSE {}]
    /\ UNCHANGED <<till, lines, sales, catalog, ignored, dirty, changes, requests>>

\* Receipts are deleted and created again and the days they touch, before or
\* now, are added up from all their lines.  Deleting waits for the lines a
\* matching transaction has updated.
Derive(p) ==
    /\ p \notin Matchers /\ tx[p].pc = "locked"
    /\ \A m \in Matchers : tx[m].pc \in {"derived", "deleted"} =>
                             tx[m].batch \cap tx[p].batch = {}
    /\ LET t == tx[p]
           days == IF t.batch = {} THEN t.days ELSE TouchedDays(t)
       IN tx' = [tx EXCEPT ![p].pc = "derived", ![p].days = days,
                           ![p].rows = Rows(p, days, Rebuilt(t, LinesAfter(t)))]
    /\ UNCHANGED <<till, lines, sales, catalog, ignored, dirty, changes, requests>>

\* deleteMany sees the rows that are there when it starts.
Delete(p) ==
    /\ p \notin Matchers /\ tx[p].pc = "derived"
    /\ tx' = [tx EXCEPT ![p].pc = "deleted", ![p].gone = RowsReplaced(tx[p])]
    /\ UNCHANGED <<till, lines, sales, catalog, ignored, dirty, changes, requests>>

\* The commit; a pull goes on to the repair.
Commit(p) ==
    /\ p \notin Matchers /\ tx[p].pc = "deleted"
    /\ ~Clash(tx[p])
    /\ lines' = LinesAfter(tx[p])
    /\ sales' = (sales \ tx[p].gone) \cup tx[p].rows
    /\ dirty' = IF tx[p].overlapped THEN dirty \cup tx[p].days ELSE dirty \ tx[p].days
    /\ tx' = [Committed(p) EXCEPT ![p].pc =
                IF p \in Pullers /\ tx[p].batch # {} THEN "heal" ELSE "idle"]
    /\ UNCHANGED <<till, catalog, ignored, changes, requests>>

-----------------------------------------------------------------------------
(* matchPosSku: one till code to one product.                              *)

\* The lines of this code that have no product.
MatchRead(m) ==
    /\ m \in Matchers /\ tx[m].pc = "idle"
    /\ Request
    /\ \E k \in Skus, x \in Products :
          LET found == {r \in Receipts : lines[r].sku = k /\ lines[r].product = Null} IN
          /\ found # {}
          /\ tx' = [tx EXCEPT ![m] = [Idle EXCEPT !.pc = "matching", !.batch = found,
                                                  !.product = x]]
    /\ UNCHANGED <<till, lines, sales, catalog, ignored, dirty, changes>>

Linked(t) == [r \in Receipts |-> IF r \in t.batch
                                 THEN [lines[r] EXCEPT !.product = t.product]
                                 ELSE lines[r]]

\* They are linked, once nobody else is about to write them, and the product's
\* rows of every day are added up from the lines linked to it.
MatchDerive(m) ==
    /\ m \in Matchers /\ tx[m].pc = "matching"
    /\ \A p \in Procs \ {m} : tx[p].pc \in {"derived", "deleted"} =>
                               tx[p].batch \cap tx[m].batch = {}
    /\ LET t == tx[m] IN
       tx' = [tx EXCEPT ![m].pc = "derived",
                        ![m].rows = {row \in Rows(m, Days, Linked(t)) :
                                        row.product = t.product}]
    /\ UNCHANGED <<till, lines, sales, catalog, ignored, dirty, changes, requests>>

OwnRows(t) == {row \in sales : row.product = t.product}

MatchDelete(m) ==
    /\ m \in Matchers /\ tx[m].pc = "derived"
    /\ tx' = [tx EXCEPT ![m].pc = "deleted", ![m].gone = OwnRows(tx[m])]
    /\ UNCHANGED <<till, lines, sales, catalog, ignored, dirty, changes, requests>>

\* A line without a product may be counted already, under the product its code
\* has now: the match counts it again and leaves that product's rows alone.
TakenDays(t) == {row.day : row \in {old \in sales \ t.gone : old.from \cap t.batch # {}}}

MatchCommit(m) ==
    /\ m \in Matchers /\ tx[m].pc = "deleted"
    /\ ~Clash(tx[m])
    /\ lines' = Linked(tx[m])
    /\ sales' = (sales \ tx[m].gone) \cup tx[m].rows
    /\ dirty' = IF tx[m].overlapped THEN Days ELSE dirty \cup TakenDays(tx[m])
    /\ tx' = Committed(m)
    /\ UNCHANGED <<till, catalog, ignored, changes, requests>>

\* A transaction fails - two rows of one key, a deadline, the process dies - and
\* nothing of it remains.
Abort(p) ==
    /\ tx[p].pc # "idle"
    /\ Ends(p)
    /\ UNCHANGED <<till, lines, sales, catalog, ignored, dirty, changes, requests>>

-----------------------------------------------------------------------------

Next ==
    \/ \E r \in Receipts : TillChange(r)
    \/ \E k \in Skus : ProductArrives(k) \/ IgnorePosSku(k)
    \/ \E p \in Procs : Receive(p) \/ Lock(p) \/ Derive(p) \/ Delete(p) \/ Commit(p)
    \/ \E p \in Procs : MatchRead(p) \/ MatchDerive(p) \/ MatchDelete(p) \/ MatchCommit(p)
    \/ \E p \in Procs : Abort(p)

Spec == Init /\ [][Next]_vars

-----------------------------------------------------------------------------
(* Properties.                                                             *)

LineRow == [day : Days \cup {Null}, sku : Skus \cup {Null}, product : Products \cup {Null}]
Row == [product : Products, day : Days, by : Procs, from : SUBSET Receipts]

\* The tables, and what requests hold between their statements.
TypeOK ==
    /\ till \in [Receipts -> [day : Days \cup {Null}, sku : Skus \cup {Null}, online : BOOLEAN]]
    /\ lines \in [Receipts -> LineRow]
    /\ sales \subseteq Row
    /\ catalog \in [Skus -> Products \cup {Null}]
    /\ ignored \subseteq Skus
    /\ \A p \in Procs :
          /\ tx[p].pc \in {"idle", "ingest", "heal", "locked", "matching", "derived", "deleted"}
          /\ tx[p].batch \subseteq Receipts /\ tx[p].days \subseteq Days
          /\ tx[p].rows \subseteq Row /\ tx[p].gone \subseteq Row
    /\ dirty \subseteq Days

\* The days excepted from the next property are left out.
CleanRows == {row \in sales : row.day \notin dirty}
RowsWith(r) == {row \in CleanRows : r \in row.from}

\* ingest.ts:177: the sales of a day are what its stored receipts add up to,
\* however often, late or corrected they were sent: nothing is counted that is
\* no longer stored on that day, nothing twice, and a receipt with a product is
\* counted.  Days that a match and an ingest wrote at the same time, and days
\* on which a match took over a receipt that was counted already, are excepted
\* until the next rebuild.
CountedOnItsDay ==
    \A row \in CleanRows : \A r \in row.from :
        /\ lines[r].day = row.day
        /\ lines[r].product \in {row.product, Null}
        /\ RowsWith(r) = {row}
LinkedIsCounted ==
    \A r \in Receipts :
        lines[r].product # Null /\ lines[r].day \notin dirty /\ lines[r].sku \notin ignored =>
            \E row \in RowsWith(r) : row.product = lines[r].product

SalesFollowReceipts == CountedOnItsDay /\ LinkedIsCounted

\* ingest.ts:107: sending a receipt again does not take away the product its
\* code was matched to - unless the match was made while it was being sent.
LinksSurvive ==
    [][\A r \in Receipts :
          /\ lines[r].product # Null
          /\ lines'[r].sku = lines[r].sku
          /\ lines'[r].product = Null
          => \/ Cardinality(Learned(lines[r].sku)) > 1
             \/ \E p \in Procs : tx[p].pc = "deleted" /\ tx[p].overlapped]_vars
=============================================================================
