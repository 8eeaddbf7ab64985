-------------------------- MODULE PosIngestProofs --------------------------
(* Theorems about PosIngest: its types, and that a code keeps its match.    *)
EXTENDS PosIngest, FiniteSetTheorems, TLAPS

Busy == {"locked", "derived", "deleted"}
Reading == {"ingest", "heal"} \cup Busy

TillRow == [day : Days \cup {Null}, sku : Skus \cup {Null}, online : BOOLEAN]
Payload == [Receipts -> TillRow]

Tx == [pc : {"idle", "ingest", "heal", "locked", "matching", "derived", "deleted"},
       batch : SUBSET Receipts, payload : Payload, days : SUBSET Days,
       map : [Skus -> Products \cup {Null}], ignored : SUBSET Skus,
       product : Products \cup {Null}, rows : SUBSET Row, gone : SUBSET Row,
       overlapped : BOOLEAN]

\* The tables and the transactions, as sets of functions and records.
Types ==
    /\ till \in Payload
    /\ lines \in [Receipts -> LineRow]
    /\ sales \in SUBSET Row
    /\ catalog \in [Skus -> Products \cup {Null}]
    /\ ignored \in SUBSET Skus
    /\ tx \in [Procs -> Tx]
    /\ dirty \in SUBSET Days

\* A receipt that exists has a code: at the till, in what is being ingested,
\* and in what is stored with a product or being matched; a match is to a product.
CodesKnown ==
    /\ \A r \in Receipts : till[r] # NoReceipt => till[r].sku \in Skus
    /\ \A p \in Procs \ Matchers : \A r \in tx[p].batch : tx[p].payload[r].sku \in Skus
    /\ \A r \in Receipts : lines[r].product # Null => lines[r].sku \in Skus
    /\ \A m \in Procs : m \in Matchers /\ tx[m].pc \in {"matching", "derived", "deleted"} =>
                           /\ tx[m].product \in Products
                           /\ \A r \in tx[m].batch : lines[r].sku \in Skus

\* What an ingest or a repair knows of a code that is matched, until somebody
\* else commits: a product, unless the code is ambiguous.
Knows(t, k) == t.map[k] # Null \/ Cardinality(Learned(k)) > 1
MapsCurrent ==
    \A p \in Procs \ Matchers :
        tx[p].pc \in Busy /\ ~tx[p].overlapped =>
            \A r \in Receipts : lines[r].product # Null => Knows(tx[p], lines[r].sku)

PosInv == Types /\ CodesKnown /\ MapsCurrent

-----------------------------------------------------------------------------

\* A rebuild's rows are rows of its days.
LEMMA RowsTyped ==
    ASSUME NEW p \in Procs, NEW days \in SUBSET Days, NEW productOf
    PROVE  Rows(p, days, productOf) \in SUBSET Row
BY DEF Rows, Row

\* The maps read under the lock are current, and know every code that is matched.
LEMMA MapReadIsCurrent ==
    ASSUME IsFiniteSet(Receipts), PosInv, NEW r \in Receipts, lines[r].product # Null
    PROVE  SkuMap[lines[r].sku] # Null \/ Cardinality(Learned(lines[r].sku)) > 1
<1> DEFINE k == lines[r].sku
           of == {s \in Receipts : lines[s].sku = k}
           images == {lines[s].product : s \in of}
<1>1. k \in Skus
  BY DEF PosInv, CodesKnown
<1>2. IsFiniteSet(of)
  BY FS_Subset
<1>3. IsFiniteSet(images)
  <2> DEFINE image == [s \in of |-> lines[s].product]
  <2>1. image \in Surjection(of, images)
    BY DEF Surjection
  <2> QED BY <1>2, <2>1, FS_Surjection
<1>4. IsFiniteSet(Learned(k))
  BY <1>3, FS_Subset DEF Learned
<1>5. lines[r].product \in Learned(k)
  BY DEF Learned
<1>6. Cardinality(Learned(k)) \in Nat /\ Cardinality(Learned(k)) # 0
  BY <1>4, <1>5, FS_CardinalityType, FS_EmptySet
<1>7. CASE catalog[k] # Null
  BY <1>1, <1>7 DEF SkuMap
<1>8. CASE catalog[k] = Null /\ Cardinality(Learned(k)) = 1
  <2>1. SkuMap[k] = CHOOSE x \in Learned(k) : TRUE
    BY <1>1, <1>8 DEF SkuMap
  <2>2. SkuMap[k] \in Learned(k)
    BY <1>5, <2>1
  <2> QED BY <2>2 DEF Learned
<1>9. CASE Cardinality(Learned(k)) # 1
  BY <1>6, <1>9
<1> QED BY <1>7, <1>8, <1>9

LEMMA IdleTyped == Idle \in Tx /\ NoReceipt \in TillRow /\ NoLine \in LineRow /\ NoMap \in [Skus -> Products \cup {Null}]
BY DEF Idle, Tx, NoPayload, NoReceipt, NoMap, Payload, TillRow, NoLine, LineRow

LEMMA MapTyped ==
    ASSUME Types
    PROVE  SkuMap \in [Skus -> Products \cup {Null}]
<1> SUFFICES ASSUME NEW k \in Skus
             PROVE  SkuMap[k] \in Products \cup {Null}
  BY DEF SkuMap
<1>1. Learned(k) \subseteq Products
  BY DEF Types, Learned, LineRow
<1>2. CASE Cardinality(Learned(k)) = 1
  <2>1. Learned(k) # {}
    BY <1>2, FS_EmptySet
  <2>2. (CHOOSE x \in Learned(k) : TRUE) \in Learned(k)
    BY <2>1
  <2> QED BY <1>1, <2>2 DEF SkuMap, Types
<1>3. CASE Cardinality(Learned(k)) # 1
  BY <1>3 DEF SkuMap, Types
<1> QED BY <1>2, <1>3

\* A commit leaves the others as they were, but for what it overlaps with and
\* the lines it takes from a match.
LEMMA CommittedEffects ==
    ASSUME Types, NEW p \in Procs
    PROVE  /\ Committed(p) \in [Procs -> Tx]
           /\ Committed(p)[p] = Idle
           /\ \A q \in Procs \ {p} :
                 /\ Committed(p)[q].pc = tx[q].pc
                 /\ Committed(p)[q].product = tx[q].product
                 /\ Committed(p)[q].payload = tx[q].payload
                 /\ Committed(p)[q].map = tx[q].map
                 /\ Committed(p)[q].batch \subseteq tx[q].batch
                 /\ q \in Matchers /\ p \notin Matchers =>
                      Committed(p)[q].batch = tx[q].batch \ tx[p].batch
                 /\ tx[q].pc \in Busy => Committed(p)[q].overlapped
<1> DEFINE c(q) ==
        [tx[q] EXCEPT
           !.overlapped = @ \/ tx[q].pc \in {"locked", "derived", "deleted"},
           !.batch = IF q \in Matchers /\ p \notin Matchers THEN @ \ tx[p].batch ELSE @]
<1>1. \A q \in Procs : Committed(p)[q] = IF q = p THEN Idle ELSE c(q)
  BY DEF Committed
<1>2. ASSUME NEW q \in Procs
      PROVE  /\ c(q) \in Tx
             /\ c(q).pc = tx[q].pc /\ c(q).product = tx[q].product
             /\ c(q).payload = tx[q].payload /\ c(q).map = tx[q].map
             /\ c(q).batch \subseteq tx[q].batch
             /\ q \in Matchers /\ p \notin Matchers => c(q).batch = tx[q].batch \ tx[p].batch
             /\ tx[q].pc \in Busy => c(q).overlapped
  <2>1. tx[q] \in Tx
    BY DEF Types
  <2>2. (tx[q].overlapped \/ tx[q].pc \in {"locked", "derived", "deleted"}) \in BOOLEAN
    OBVIOUS
  <2>3. (IF q \in Matchers /\ p \notin Matchers THEN tx[q].batch \ tx[p].batch
         ELSE tx[q].batch) \in SUBSET tx[q].batch
    OBVIOUS
  <2> QED BY <2>1, <2>2, <2>3 DEF Tx, Busy
<1> HIDE DEF c
<1>3. Committed(p) \in [Procs -> Tx]
  <2>1. Committed(p) = [q \in Procs |-> Committed(p)[q]]
    BY DEF Committed
  <2> QED BY <1>1, <1>2, <2>1, IdleTyped
<1> QED BY <1>1, <1>2, <1>3

-----------------------------------------------------------------------------
(* Types.                                                                  *)

LEMMA LinesTyped ==
    ASSUME Types, CodesKnown, NEW p \in Procs \ Matchers
    PROVE  LinesAfter(tx[p]) \in [Receipts -> LineRow]
<1> SUFFICES ASSUME NEW r \in Receipts, r \in tx[p].batch
             PROVE  Stored(tx[p], r) \in LineRow
  BY DEF LinesAfter, Types
<1>1. tx[p].payload[r].sku \in Skus
  BY DEF CodesKnown
<1>2. tx[p].payload[r] \in TillRow /\ tx[p].map \in [Skus -> Products \cup {Null}]
  BY DEF Types, Tx, Payload
<1> QED BY <1>1, <1>2, IdleTyped DEF Stored, LineRow, TillRow

LEMMA LinkTyped ==
    ASSUME Types, CodesKnown, NEW m \in Procs, m \in Matchers, tx[m].pc \in {"matching", "derived", "deleted"}
    PROVE  Linked(tx[m]) \in [Receipts -> LineRow]
<1>1. tx[m].product \in Products
  BY DEF CodesKnown
<1> QED BY <1>1 DEF Linked, Types, LineRow

LEMMA DaysTyped ==
    ASSUME Types, NEW p \in Procs
    PROVE  TouchedDays(tx[p]) \in SUBSET Days
<1>1. tx[p].batch \subseteq Receipts /\ tx[p].payload \in Payload
  BY DEF Types, Tx
<1>2. \A r \in Receipts : tx[p].payload[r].day \in Days \cup {Null} /\ lines[r].day \in Days \cup {Null}
  BY <1>1 DEF Types, Payload, TillRow, LineRow
<1> QED BY <1>1, <1>2 DEF TouchedDays

\* A transaction keeps its type when it goes on with what it has worked out.
LEMMA RowsInTx ==
    ASSUME NEW t \in Tx, NEW pc \in {"derived", "deleted"}, NEW rows \in SUBSET Row
    PROVE  /\ [t EXCEPT !.pc = pc, !.rows = rows] \in Tx
           /\ [t EXCEPT !.pc = pc, !.gone = rows] \in Tx
<1>1. [t EXCEPT !.pc = pc, !.rows = rows] \in Tx
  BY DEF Tx
<1>2. [t EXCEPT !.pc = pc, !.gone = rows] \in Tx
  BY DEF Tx
<1> QED BY <1>1, <1>2

LEMMA DaysInTx ==
    ASSUME NEW t \in Tx, NEW days \in SUBSET Days, NEW rows \in SUBSET Row
    PROVE  [t EXCEPT !.pc = "derived", !.days = days, !.rows = rows] \in Tx
BY DEF Tx

LEMMA BatchInTx ==
    ASSUME NEW t \in Tx, NEW batch \in SUBSET Receipts, NEW x \in Products
    PROVE  [t EXCEPT !.pc = "matching", !.batch = batch, !.product = x] \in Tx
BY DEF Tx

\* A transaction that stays well typed when it goes on.
LEMMA GoesOn ==
    ASSUME Types, NEW p \in Procs, NEW t \in Tx, tx' = [tx EXCEPT ![p] = t]
    PROVE  tx' \in [Procs -> Tx]
BY DEF Types

LEMMA TypesStep ==
    ASSUME Types, CodesKnown, [Next]_vars
    PROVE  Types'
<1> USE DEF Types
<1>1. ASSUME NEW r \in Receipts, TillChange(r) PROVE Types'
  BY <1>1 DEF TillChange, Payload, TillRow
<1>2. ASSUME NEW k \in Skus, ProductArrives(k) \/ IgnorePosSku(k) PROVE Types'
  BY <1>2 DEF ProductArrives, IgnorePosSku
<1>3. ASSUME NEW p \in Procs, Receive(p) PROVE Types'
  <2>1. PICK batch \in SUBSET {r \in Receipts : till[r] # NoReceipt} :
           tx' = [tx EXCEPT ![p] = [Idle EXCEPT
                       !.pc = IF batch = {} THEN "heal" ELSE "ingest", !.batch = batch,
                       !.payload = [r \in Receipts |-> IF r \in batch THEN till[r]
                                                       ELSE NoReceipt]]]
    BY <1>3 DEF Receive
  <2> DEFINE pc == IF batch = {} THEN "heal" ELSE "ingest"
             payload == [r \in Receipts |-> IF r \in batch THEN till[r] ELSE NoReceipt]
  <2>2. payload \in Payload /\ pc \in {"heal", "ingest"} /\ batch \in SUBSET Receipts
    BY IdleTyped DEF Payload
  <2>3. [Idle EXCEPT !.pc = pc, !.batch = batch, !.payload = payload] \in Tx
    <3> HIDE DEF pc, payload
    <3> QED BY <2>2, IdleTyped DEF Tx
  <2> QED BY <1>3, <2>1, <2>3 DEF Receive
<1>4. ASSUME NEW p \in Procs, Lock(p) PROVE Types'
  <2> DEFINE map == SkuMap
             days == IF tx[p].pc = "heal" THEN RecentDays ELSE {}
  <2>1. map \in [Skus -> Products \cup {Null}] /\ days \in SUBSET Days /\ tx[p] \in Tx
    BY MapTyped, PosAssumption
  <2>2. tx' = [tx EXCEPT ![p] = [tx[p] EXCEPT !.pc = "locked", !.map = map,
                                              !.ignored = ignored, !.days = days]]
    BY <1>4 DEF Lock
  <2> HIDE DEF map, days
  <2>3. [tx[p] EXCEPT !.pc = "locked", !.map = map, !.ignored = ignored, !.days = days] \in Tx
    BY <2>1 DEF Tx
  <2> QED BY <1>4, <2>2, <2>3, GoesOn DEF Lock
<1>5. ASSUME NEW p \in Procs, Derive(p) PROVE Types'
  <2> DEFINE days == IF tx[p].batch = {} THEN tx[p].days ELSE TouchedDays(tx[p])
             rows == Rows(p, days, Rebuilt(tx[p], LinesAfter(tx[p])))
  <2>0. tx[p] \in Tx
    OBVIOUS
  <2>1. days \in SUBSET Days
    BY <2>0, DaysTyped DEF Tx
  <2>2. rows \in SUBSET Row
    BY <2>1, RowsTyped
  <2>3. /\ tx' = [tx EXCEPT ![p].pc = "derived", ![p].days = days, ![p].rows = rows]
        /\ UNCHANGED <<till, lines, sales, catalog, ignored, dirty>>
    BY ONLY <1>5, Zenon DEF Derive
  <2> HIDE DEF days, rows
  <2>4. tx' = [tx EXCEPT ![p] = [tx[p] EXCEPT !.pc = "derived", !.days = days, !.rows = rows]]
    BY <2>3
  <2>5. [tx[p] EXCEPT !.pc = "derived", !.days = days, !.rows = rows] \in Tx
    BY <2>0, <2>1, <2>2, DaysInTx
  <2> QED BY <2>3, <2>4, <2>5, GoesOn
<1>6. ASSUME NEW p \in Procs, Delete(p) PROVE Types'
  <2>1. [tx[p] EXCEPT !.pc = "deleted", !.gone = RowsReplaced(tx[p])] \in Tx
    <3>1. tx[p] \in Tx /\ RowsReplaced(tx[p]) \in SUBSET Row
      BY DEF RowsReplaced
    <3> QED BY <3>1, RowsInTx
  <2>2. tx' = [tx EXCEPT ![p] = [tx[p] EXCEPT !.pc = "deleted", !.gone = RowsReplaced(tx[p])]]
    BY <1>6 DEF Delete
  <2> QED BY <1>6, <2>1, <2>2, GoesOn DEF Delete
<1>7. ASSUME NEW p \in Procs, Commit(p) PROVE Types'
  <2>1. lines' \in [Receipts -> LineRow]
    BY <1>7, LinesTyped DEF Commit
  <2>2. sales' \in SUBSET Row /\ dirty' \in SUBSET Days
    BY <1>7 DEF Commit, Tx
  <2>3. tx' \in [Procs -> Tx]
    <3> DEFINE pc == IF p \in Pullers /\ tx[p].batch # {} THEN "heal" ELSE "idle"
    <3>1. tx' = [Committed(p) EXCEPT ![p] = [Idle EXCEPT !.pc = pc]]
      BY <1>7, CommittedEffects DEF Commit
    <3>2. [Idle EXCEPT !.pc = pc] \in Tx
      BY IdleTyped DEF Tx
    <3> QED BY <3>1, <3>2, CommittedEffects
  <2> QED BY <1>7, <2>1, <2>2, <2>3 DEF Commit
<1>8. ASSUME NEW m \in Procs, MatchRead(m) PROVE Types'
  <2>1. PICK found \in SUBSET Receipts, x \in Products :
           tx' = [tx EXCEPT ![m] = [Idle EXCEPT !.pc = "matching", !.batch = found,
                                                !.product = x]]
    BY ONLY <1>8 DEF MatchRead
  <2>2. [Idle EXCEPT !.pc = "matching", !.batch = found, !.product = x] \in Tx
    BY IdleTyped, BatchInTx
  <2>3. UNCHANGED <<till, lines, sales, catalog, ignored, dirty>>
    BY ONLY <1>8 DEF MatchRead
  <2> QED BY <2>1, <2>2, <2>3, GoesOn
<1>9. ASSUME NEW m \in Procs, MatchDerive(m) PROVE Types'
  <2> DEFINE rows == {row \in Rows(m, Days, Linked(tx[m])) : row.product = tx[m].product}
  <2>0. tx[m] \in Tx
    OBVIOUS
  <2>1. rows \in SUBSET Row
    BY RowsTyped
  <2>2. tx' = [tx EXCEPT ![m] = [tx[m] EXCEPT !.pc = "derived", !.rows = rows]]
    BY <1>9 DEF MatchDerive
  <2> HIDE DEF rows
  <2>3. [tx[m] EXCEPT !.pc = "derived", !.rows = rows] \in Tx
    BY <2>0, <2>1, RowsInTx
  <2> QED BY <1>9, <2>2, <2>3, GoesOn DEF MatchDerive
<1>10. ASSUME NEW m \in Procs, MatchDelete(m) PROVE Types'
  <2>1. [tx[m] EXCEPT !.pc = "deleted", !.gone = OwnRows(tx[m])] \in Tx
    <3>1. tx[m] \in Tx /\ OwnRows(tx[m]) \in SUBSET Row
      BY DEF OwnRows
    <3> QED BY <3>1, RowsInTx
  <2>2. tx' = [tx EXCEPT ![m] = [tx[m] EXCEPT !.pc = "deleted", !.gone = OwnRows(tx[m])]]
    BY <1>10 DEF MatchDelete
  <2> QED BY <1>10, <2>1, <2>2, GoesOn DEF MatchDelete
<1>11. ASSUME NEW m \in Procs, MatchCommit(m) PROVE Types'
  <2>1. lines' \in [Receipts -> LineRow]
    BY <1>11, LinkTyped DEF MatchCommit
  <2>2. TakenDays(tx[m]) \in SUBSET Days
    BY DEF TakenDays, Row
  <2>3. sales' \in SUBSET Row /\ dirty' \in SUBSET Days
    BY <1>11, <2>2 DEF MatchCommit, Tx
  <2> QED BY <1>11, <2>1, <2>3, CommittedEffects DEF MatchCommit
<1>12. ASSUME NEW p \in Procs, Abort(p) PROVE Types'
  BY <1>12, IdleTyped DEF Abort, Ends
<1>13. CASE UNCHANGED vars
  BY <1>13 DEF vars
<1> QED BY <1>1, <1>2, <1>3, <1>4, <1>5, <1>6, <1>7, <1>8, <1>9, <1>10, <1>11, <1>12, <1>13 DEF Next

-----------------------------------------------------------------------------
(* Codes, and the maps.                                                    *)

\* What the steps between a request and its commit leave alone.
Keeps(p) ==
    /\ UNCHANGED <<till, lines>>
    /\ tx'[p].batch = tx[p].batch
    /\ tx'[p].payload = tx[p].payload
    /\ tx'[p].product = tx[p].product
    /\ \A q \in Procs \ {p} : tx'[q] = tx[q]

LEMMA LockEffects ==
    ASSUME Types, NEW p \in Procs, Lock(p)
    PROVE  Keeps(p) /\ tx'[p].pc = "locked" /\ tx'[p].map = SkuMap
<1> DEFINE map == SkuMap
           days == IF tx[p].pc = "heal" THEN RecentDays ELSE {}
<1>1. tx' = [tx EXCEPT ![p] = [tx[p] EXCEPT !.pc = "locked", !.map = map,
                                            !.ignored = ignored, !.days = days]]
  BY DEF Lock
<1> HIDE DEF map, days
<1>2. /\ tx'[p] = [tx[p] EXCEPT !.pc = "locked", !.map = map, !.ignored = ignored, !.days = days]
      /\ tx[p] \in Tx
      /\ \A q \in Procs \ {p} : tx'[q] = tx[q]
  BY <1>1 DEF Types
<1>3. /\ tx'[p].map = map /\ tx'[p].pc = "locked" /\ tx'[p].batch = tx[p].batch
      /\ tx'[p].payload = tx[p].payload /\ tx'[p].product = tx[p].product
  BY <1>2 DEF Tx
<1>4. UNCHANGED <<till, lines>>
  BY DEF Lock
<1> QED BY <1>2, <1>3, <1>4 DEF map, Keeps

LEMMA WriteEffects ==
    ASSUME Types, NEW p \in Procs,
           Derive(p) \/ Delete(p) \/ MatchDerive(p) \/ MatchDelete(p)
    PROVE  /\ Keeps(p)
           /\ tx[p].pc \in (IF p \in Matchers THEN {"matching", "derived"} ELSE {"locked", "derived"})
           /\ tx'[p].map = tx[p].map /\ tx'[p].overlapped = tx[p].overlapped
<1>1. tx[p] \in Tx
  BY DEF Types
<1> DEFINE Same ==
        /\ tx'[p].batch = tx[p].batch /\ tx'[p].payload = tx[p].payload
        /\ tx'[p].product = tx[p].product /\ tx'[p].map = tx[p].map
        /\ tx'[p].overlapped = tx[p].overlapped
        /\ \A q \in Procs \ {p} : tx'[q] = tx[q]
<1>2. ASSUME Derive(p) PROVE Same
  <2> DEFINE days == IF tx[p].batch = {} THEN tx[p].days ELSE TouchedDays(tx[p])
             rows == Rows(p, days, Rebuilt(tx[p], LinesAfter(tx[p])))
  <2>1. tx' = [tx EXCEPT ![p] = [tx[p] EXCEPT !.pc = "derived", !.days = days, !.rows = rows]]
    BY <1>2 DEF Derive
  <2> HIDE DEF days, rows
  <2> QED BY <1>1, <2>1 DEF Tx, Types
<1>3. ASSUME MatchDerive(p) PROVE Same
  <2> DEFINE rows == {row \in Rows(p, Days, Linked(tx[p])) : row.product = tx[p].product}
  <2>1. tx' = [tx EXCEPT ![p] = [tx[p] EXCEPT !.pc = "derived", !.rows = rows]]
    BY <1>3 DEF MatchDerive
  <2> HIDE DEF rows
  <2> QED BY <1>1, <2>1 DEF Tx, Types
<1>4. ASSUME Delete(p) PROVE Same
  <2> DEFINE gone == RowsReplaced(tx[p])
  <2>1. tx' = [tx EXCEPT ![p] = [tx[p] EXCEPT !.pc = "deleted", !.gone = gone]]
    BY <1>4 DEF Delete
  <2> HIDE DEF gone
  <2> QED BY <1>1, <2>1 DEF Tx, Types
<1>5. ASSUME MatchDelete(p) PROVE Same
  <2> DEFINE gone == OwnRows(tx[p])
  <2>1. tx' = [tx EXCEPT ![p] = [tx[p] EXCEPT !.pc = "deleted", !.gone = gone]]
    BY <1>5 DEF MatchDelete
  <2> HIDE DEF gone
  <2> QED BY <1>1, <2>1 DEF Tx, Types
<1>6. UNCHANGED <<till, lines>>
  BY DEF Derive, Delete, MatchDerive, MatchDelete
<1>7. tx[p].pc \in (IF p \in Matchers THEN {"matching", "derived"} ELSE {"locked", "derived"})
  BY DEF Derive, Delete, MatchDerive, MatchDelete
<1>8. Same
  BY <1>2, <1>3, <1>4, <1>5
<1> QED BY <1>6, <1>7, <1>8 DEF Keeps

\* What a commit stores with a product has a code.
LEMMA StoredKnown ==
    ASSUME Types, CodesKnown, NEW p \in Procs \ Matchers, NEW r \in Receipts,
           LinesAfter(tx[p])[r].product # Null
    PROVE  LinesAfter(tx[p])[r].sku \in Skus
<1>1. CASE r \in tx[p].batch
  BY <1>1 DEF CodesKnown, LinesAfter, Stored, NoLine
<1>2. CASE r \notin tx[p].batch
  BY <1>2 DEF CodesKnown, LinesAfter
<1> QED BY <1>1, <1>2

LEMMA CodesStep ==
    ASSUME Types, CodesKnown, [Next]_vars
    PROVE  CodesKnown'
<1> USE DEF CodesKnown
<1>1. ASSUME NEW r \in Receipts, TillChange(r) PROVE CodesKnown'
  BY <1>1 DEF TillChange, Types, Payload
<1>2. ASSUME NEW k \in Skus, ProductArrives(k) \/ IgnorePosSku(k) PROVE CodesKnown'
  BY <1>2 DEF ProductArrives, IgnorePosSku
<1>3. ASSUME NEW p \in Procs, Receive(p) PROVE CodesKnown'
  <2>1. PICK batch \in SUBSET {r \in Receipts : till[r] # NoReceipt} :
           tx' = [tx EXCEPT ![p] = [Idle EXCEPT
                       !.pc = IF batch = {} THEN "heal" ELSE "ingest", !.batch = batch,
                       !.payload = [r \in Receipts |-> IF r \in batch THEN till[r]
                                                       ELSE NoReceipt]]]
    BY <1>3 DEF Receive
  <2>2. /\ tx'[p].pc \in {"heal", "ingest"}
        /\ tx'[p].batch = batch
        /\ \A r \in batch : tx'[p].payload[r] = till[r]
        /\ \A q \in Procs \ {p} : tx'[q] = tx[q]
    BY <2>1 DEF Types, Idle
  <2> QED BY <1>3, <2>2 DEF Receive
<1>4. ASSUME NEW p \in Procs, Lock(p) PROVE CodesKnown'
  BY <1>4, LockEffects DEF Keeps
<1>5. ASSUME NEW p \in Procs, Commit(p) PROVE CodesKnown'
  <2>1. /\ tx'[p].batch = {} /\ tx'[p].pc \in {"heal", "idle"}
        /\ \A q \in Procs \ {p} : tx'[q] = Committed(p)[q]
    BY <1>5, CommittedEffects DEF Commit, Idle
  <2>2. p \notin Matchers /\ lines' = LinesAfter(tx[p]) /\ till' = till
    BY <1>5 DEF Commit
  <2>3. \A r \in Receipts : lines'[r].product # Null => lines'[r].sku \in Skus
    BY <2>2, StoredKnown
  <2>4. \A q \in Procs \ Matchers : \A r \in tx'[q].batch : tx'[q].payload[r].sku \in Skus
    BY <2>1, CommittedEffects
  <2>5. ASSUME NEW m \in Procs, m \in Matchers, tx'[m].pc \in {"matching", "derived", "deleted"}
        PROVE  tx'[m].product \in Products /\ (\A r \in tx'[m].batch : lines'[r].sku \in Skus)
    <3>1. /\ m # p /\ tx[m].pc = tx'[m].pc /\ tx'[m].product = tx[m].product
          /\ tx'[m].batch = tx[m].batch \ tx[p].batch
      BY <2>1, <2>2, <2>5, CommittedEffects DEF Idle
    <3>2. \A r \in tx[m].batch : r \in Receipts
      BY DEF Types, Tx
    <3> QED BY <2>2, <2>5, <3>1, <3>2 DEF LinesAfter
  <2> QED BY <2>2, <2>3, <2>4, <2>5
<1>6. ASSUME NEW m \in Procs, MatchRead(m) PROVE CodesKnown'
  <2>1. PICK k \in Skus, x \in Products :
           tx' = [tx EXCEPT ![m] = [Idle EXCEPT !.pc = "matching",
                    !.batch = {r \in Receipts : lines[r].sku = k /\ lines[r].product = Null},
                    !.product = x]]
    BY <1>6 DEF MatchRead
  <2>2. /\ tx'[m].product \in Products
        /\ \A r \in tx'[m].batch : lines[r].sku \in Skus
        /\ \A q \in Procs \ {m} : tx'[q] = tx[q]
    BY <2>1 DEF Types, Idle
  <2> QED BY <1>6, <2>2 DEF MatchRead
<1>7. ASSUME NEW p \in Procs, Derive(p) \/ Delete(p) \/ MatchDerive(p) \/ MatchDelete(p)
      PROVE  CodesKnown'
  BY <1>7, WriteEffects DEF Keeps
<1>8. ASSUME NEW m \in Procs, MatchCommit(m) PROVE CodesKnown'
  <2>1. /\ m \in Matchers /\ tx'[m] = Idle
        /\ \A q \in Procs \ {m} : tx'[q] = Committed(m)[q]
        /\ lines' = Linked(tx[m]) /\ till' = till
    BY <1>8, CommittedEffects DEF MatchCommit
  <2>2. \A r \in Receipts : lines'[r].product # Null => lines'[r].sku \in Skus
    <3>1. \A r \in Receipts : /\ lines'[r].sku = lines[r].sku
                              /\ r \notin tx[m].batch => lines'[r].product = lines[r].product
      BY <2>1 DEF Linked, Types, LineRow
    <3>2. \A r \in tx[m].batch : lines[r].sku \in Skus
      BY <1>8, <2>1 DEF MatchCommit
    <3> QED BY <3>1, <3>2
  <2>3. \A q \in Procs \ Matchers : \A r \in tx'[q].batch : tx'[q].payload[r].sku \in Skus
    BY <2>1, CommittedEffects
  <2>4. ASSUME NEW q \in Procs, q \in Matchers, tx'[q].pc \in {"matching", "derived", "deleted"}
        PROVE  tx'[q].product \in Products /\ (\A r \in tx'[q].batch : lines'[r].sku \in Skus)
    <3>1. /\ tx[q].pc = tx'[q].pc /\ tx'[q].product = tx[q].product
          /\ tx'[q].batch \subseteq tx[q].batch
      BY <2>1, <2>4, CommittedEffects DEF Idle
    <3>2. \A r \in tx[q].batch : r \in Receipts
      BY DEF Types, Tx
    <3>3. \A r \in Receipts : lines'[r].sku = lines[r].sku
      BY <2>1 DEF Linked, Types, LineRow
    <3> QED BY <2>4, <3>1, <3>2, <3>3
  <2> QED BY <2>1, <2>2, <2>3, <2>4
<1>9. ASSUME NEW p \in Procs, Abort(p) PROVE CodesKnown'
  <2>1. tx'[p] = Idle /\ (\A q \in Procs \ {p} : tx'[q] = tx[q]) /\ UNCHANGED <<till, lines>>
    BY <1>9 DEF Abort, Ends, Types
  <2> QED BY <2>1 DEF Idle
<1>10. CASE UNCHANGED vars
  BY <1>10 DEF vars
<1> QED BY <1>1, <1>2, <1>3, <1>4, <1>5, <1>6, <1>7, <1>8, <1>9, <1>10 DEF Next

\* A map is read under the lock; whoever commits after that marks it as old,
\* since lines are written by commits alone.
LEMMA MapsStep ==
    ASSUME IsFiniteSet(Receipts), PosInv, [Next]_vars
    PROVE  MapsCurrent'
<1>1. ASSUME UNCHANGED lines,
             \A q \in Procs \ Matchers :
                 \/ tx'[q].pc \notin Busy
                 \/ /\ tx[q].pc \in Busy
                    /\ tx'[q].map = tx[q].map /\ tx'[q].overlapped = tx[q].overlapped
                 \/ tx'[q].map = SkuMap
      PROVE  MapsCurrent'
  <2> SUFFICES ASSUME NEW q \in Procs \ Matchers, tx'[q].pc \in Busy, ~tx'[q].overlapped,
                      NEW r \in Receipts, lines[r].product # Null
               PROVE  tx'[q].map[lines[r].sku] # Null \/ Cardinality(Learned(lines[r].sku)) > 1
    BY <1>1 DEF MapsCurrent, Knows, Learned
  <2>1. CASE tx'[q].map = SkuMap
    BY <2>1, MapReadIsCurrent
  <2>2. CASE tx[q].pc \in Busy /\ tx'[q].map = tx[q].map /\ tx'[q].overlapped = tx[q].overlapped
    BY <2>2 DEF PosInv, MapsCurrent, Knows
  <2> QED BY <1>1, <2>1, <2>2
<1>2. ASSUME NEW p \in Procs, p \notin Matchers => tx'[p].pc \notin Busy,
             \A q \in Procs \ {p} : tx'[q] = Committed(p)[q]
      PROVE  MapsCurrent'
  <2>1. \A q \in Procs \ Matchers : tx'[q].pc \in Busy => tx'[q].overlapped
    BY <1>2, CommittedEffects DEF PosInv
  <2> QED BY <2>1 DEF MapsCurrent
<1>3. ASSUME NEW p \in Procs, Commit(p) PROVE MapsCurrent'
  <2>1. /\ tx'[p].pc \in {"heal", "idle"}
        /\ \A q \in Procs \ {p} : tx'[q] = Committed(p)[q]
    BY <1>3, CommittedEffects DEF Commit, PosInv
  <2> QED BY <1>2, <2>1 DEF Busy
<1>4. ASSUME NEW m \in Procs, MatchCommit(m) PROVE MapsCurrent'
  <2>1. m \in Matchers /\ (\A q \in Procs \ {m} : tx'[q] = Committed(m)[q])
    BY <1>4 DEF MatchCommit
  <2> QED BY <1>2, <2>1
<1>5. ASSUME NEW p \in Procs, Receive(p) PROVE MapsCurrent'
  <2>1. lines' = lines /\ tx'[p].pc \in {"heal", "ingest"} /\ (\A q \in Procs \ {p} : tx'[q] = tx[q])
    BY <1>5 DEF Receive, PosInv, Types, Idle
  <2> QED BY <1>1, <2>1 DEF Busy
<1>6. ASSUME NEW p \in Procs, Lock(p) PROVE MapsCurrent'
  BY <1>1, <1>6, LockEffects DEF Keeps, PosInv
<1>7. ASSUME NEW p \in Procs, Derive(p) \/ Delete(p) \/ MatchDerive(p) \/ MatchDelete(p)
      PROVE  MapsCurrent'
  BY <1>1, <1>7, WriteEffects DEF Keeps, PosInv, Busy
<1>8. ASSUME NEW m \in Procs, MatchRead(m)
      PROVE  MapsCurrent'
  <2>1. lines' = lines /\ m \in Matchers /\ (\A q \in Procs \ {m} : tx'[q] = tx[q])
    BY <1>8 DEF MatchRead, PosInv, Types
  <2> QED BY <1>1, <2>1
<1>9. ASSUME NEW p \in Procs, Abort(p) PROVE MapsCurrent'
  <2>1. lines' = lines /\ tx'[p].pc = "idle" /\ (\A q \in Procs \ {p} : tx'[q] = tx[q])
    BY <1>9 DEF Abort, Ends, PosInv, Types, Idle
  <2> QED BY <1>1, <2>1 DEF Busy
<1>10. CASE UNCHANGED <<lines, tx>>
  BY <1>1, <1>10
<1> QED BY <1>3, <1>4, <1>5, <1>6, <1>7, <1>8, <1>9, <1>10
        DEF Next, vars, TillChange, ProductArrives, IgnorePosSku

-----------------------------------------------------------------------------
(* The invariant and the theorems.                                         *)

LEMMA InvInit == Init => PosInv
<1> SUFFICES ASSUME Init PROVE PosInv
  OBVIOUS
<1>1. Types
  BY IdleTyped DEF Init, Types, NoPayload, Payload
<1>2. CodesKnown
  BY DEF Init, CodesKnown, NoPayload, Idle, NoLine
<1>3. MapsCurrent
  BY DEF Init, MapsCurrent, Busy, Idle
<1> QED BY <1>1, <1>2, <1>3 DEF PosInv

LEMMA InvNext ==
    ASSUME IsFiniteSet(Receipts), PosInv, [Next]_vars
    PROVE  PosInv'
BY TypesStep, CodesStep, MapsStep DEF PosInv

LEMMA InvHolds == ASSUME IsFiniteSet(Receipts) PROVE Spec => []PosInv
<1>1. PosInv /\ [Next]_vars => PosInv'
  BY InvNext
<1> QED BY <1>1, InvInit, PTL DEF Spec

\* The tables and the transactions stay well typed, for any finite number of
\* receipts and any codes, products, days and requests.
THEOREM PosTypes == ASSUME IsFiniteSet(Receipts) PROVE Spec => []TypeOK
<1>1. ASSUME PosInv PROVE TypeOK
  <2>1. \A p \in Procs : tx[p] \in Tx
    BY <1>1 DEF PosInv, Types
  <2> QED BY <1>1, <2>1 DEF PosInv, Types, TypeOK, Tx, Payload, TillRow
<1> QED BY <1>1, InvHolds, PTL

\* ingest.ts:107: sending a receipt again keeps what its code was matched to,
\* however requests, repairs and matches interleave, unless one of them
\* committed while it was being sent.
THEOREM MatchesSurvive == ASSUME IsFiniteSet(Receipts) PROVE Spec => LinksSurvive
<1> DEFINE Lost(r) == lines[r].product # Null /\ lines'[r].sku = lines[r].sku /\ lines'[r].product = Null
           Excused(r) == \/ Cardinality(Learned(lines[r].sku)) > 1
                         \/ \E p \in Procs : tx[p].pc = "deleted" /\ tx[p].overlapped
<1>1. ASSUME PosInv, [Next]_vars, NEW r \in Receipts, Lost(r)
      PROVE  Excused(r)
  <2>1. lines[r].sku \in Skus /\ lines[r].sku # Null
    BY <1>1, PosAssumption DEF PosInv, CodesKnown
  <2>2. CASE UNCHANGED lines
    BY <1>1, <2>2
  <2>3. ASSUME NEW p \in Procs, Commit(p) PROVE Excused(r)
    <3>1. p \notin Matchers /\ tx[p].pc = "deleted" /\ lines' = LinesAfter(tx[p])
      BY <2>3 DEF Commit
    <3>2. lines'[r] = Stored(tx[p], r)
      BY <1>1, <3>1 DEF LinesAfter
    <3>3. tx[p].payload[r].sku = lines[r].sku /\ tx[p].map[lines[r].sku] = Null
      BY <1>1, <2>1, <3>2 DEF Stored, NoLine
    <3> QED BY <1>1, <3>1, <3>3 DEF PosInv, MapsCurrent, Knows, Busy
  <2>4. ASSUME NEW m \in Procs, MatchCommit(m) PROVE Excused(r)
    <3>1. lines' = Linked(tx[m]) /\ tx[m].product \in Products
      BY <1>1, <2>4 DEF MatchCommit, PosInv, CodesKnown
    <3>2. lines'[r].product \in {tx[m].product, lines[r].product}
      BY <1>1, <3>1 DEF Linked, PosInv, Types, LineRow
    <3> QED BY <1>1, <3>1, <3>2, PosAssumption
  <2> QED BY <1>1, <2>2, <2>3, <2>4
          DEF Next, vars, TillChange, ProductArrives, IgnorePosSku, Receive, Lock, Derive,
              Delete, MatchRead, MatchDerive, MatchDelete, Abort
<1>2. PosInv /\ [Next]_vars =>
        [\A r \in Receipts :
            /\ lines[r].product # Null
            /\ lines'[r].sku = lines[r].sku
            /\ lines'[r].product = Null
            => \/ Cardinality(Learned(lines[r].sku)) > 1
               \/ \E p \in Procs : tx[p].pc = "deleted" /\ tx[p].overlapped]_vars
  BY <1>1
<1> QED BY <1>2, InvHolds, PTL DEF Spec, LinksSurvive

-----------------------------------------------------------------------------
(* Sales are what the stored receipts add up to.                           *)

\* A receipt that exists is of a day.
DaysKnown ==
    /\ \A r \in Receipts : till[r] = NoReceipt \/ till[r].day \in Days
    /\ \A p \in Procs \ Matchers : \A r \in tx[p].batch : tx[p].payload[r].day \in Days
    /\ \A r \in Receipts : lines[r] = NoLine \/ lines[r].day \in Days

OneLock == \A p, q \in Procs : HasLock(p) /\ HasLock(q) => p = q

\* What a rebuild holds between its statements.  Its days cover every day that
\* a receipt of its batch is taken from or put on, overlapped or not, since a
\* match changes no line's day; what it read is current until it is overlapped.
RebuildOf(p, t) ==
    /\ t.pc \in Busy => t.ignored \subseteq ignored
    /\ t.pc \in {"derived", "deleted"} =>
         /\ t.batch # {} => TouchedDays(t) \subseteq t.days
         /\ \A row \in t.rows : row.day \in t.days
         /\ ~t.overlapped => t.rows = Rows(p, t.days, Rebuilt(t, LinesAfter(t)))
    /\ t.pc = "deleted" =>
         /\ \A row \in t.gone : row.day \in t.days
         /\ ~t.overlapped => t.gone = RowsReplaced(t)

\* And what a match holds.
MatchRows(m, t) == {row \in Rows(m, Days, Linked(t)) : row.product = t.product}
MatchOf(m, t) ==
    ~t.overlapped =>
        /\ t.pc \in {"derived", "deleted"} => t.rows = MatchRows(m, t)
        /\ t.pc = "deleted" => t.gone = OwnRows(t)

HeldInv == \A p \in Procs : IF p \in Matchers THEN MatchOf(p, tx[p]) ELSE RebuildOf(p, tx[p])

\* The property, row by row.
OnTheirDay ==
    \A row \in CleanRows : \A r \in row.from :
        lines[r].day = row.day /\ lines[r].product \in {row.product, Null}
CountedOnce ==
    \A row, other \in CleanRows : \A r \in row.from : r \in other.from => row = other
Plain == OnTheirDay /\ CountedOnce /\ LinkedIsCounted

SalesInv == PosInv /\ DaysKnown /\ OneLock /\ HeldInv /\ Plain

LEMMA PlainIsIt == Types /\ Plain => SalesFollowReceipts
<1> SUFFICES ASSUME Types, Plain, NEW row \in CleanRows, NEW r \in row.from
             PROVE  RowsWith(r) = {row}
  BY DEF Plain, SalesFollowReceipts, CountedOnItsDay, OnTheirDay
<1>1. row.from \subseteq Receipts
  BY DEF CleanRows, Types, Row
<1> QED BY <1>1 DEF Plain, CountedOnce, RowsWith

\* A row of a rebuild is determined by its product and its day.
LEMMA RowsMembers ==
    ASSUME NEW p, NEW days, NEW after
    PROVE  /\ \A row \in Rows(p, days, after) :
                /\ row.product \in Products /\ row.day \in days /\ row.by = p
                /\ row.from = {r \in Receipts : after[r].day = row.day
                                                /\ after[r].product = row.product}
           /\ \A row, other \in Rows(p, days, after) :
                row.product = other.product /\ row.day = other.day => row = other
           /\ \A r \in Receipts :
                after[r].day \in days /\ after[r].product \in Products =>
                  \E row \in Rows(p, days, after) :
                    r \in row.from /\ row.product = after[r].product /\ row.day = after[r].day
<1>1. ASSUME NEW row \in Rows(p, days, after)
      PROVE  /\ row.product \in Products /\ row.day \in days /\ row.by = p
             /\ row.from = {r \in Receipts : after[r].day = row.day
                                             /\ after[r].product = row.product}
             /\ row = [product |-> row.product, day |-> row.day, by |-> p, from |-> row.from]
  BY DEF Rows
<1>2. ASSUME NEW row \in Rows(p, days, after), NEW other \in Rows(p, days, after),
             row.product = other.product, row.day = other.day
      PROVE  row = other
  <2> DEFINE Of(x, d) == {r \in Receipts : after[r].day = d /\ after[r].product = x}
  <2>0. row.from = Of(row.product, row.day) /\ other.from = Of(other.product, other.day)
    BY <1>1, Zenon
  <2> HIDE DEF Of
  <2>1. row.from = other.from
    BY <1>2, <2>0
  <2>2. other = [product |-> row.product, day |-> row.day, by |-> p, from |-> row.from]
    BY ONLY <1>1, <1>2, <2>1
  <2>3. row = [product |-> row.product, day |-> row.day, by |-> p, from |-> row.from]
    BY ONLY <1>1
  <2> QED BY ONLY <2>2, <2>3
<1>3. ASSUME NEW r \in Receipts, after[r].day \in days, after[r].product \in Products
      PROVE  \E row \in Rows(p, days, after) :
               r \in row.from /\ row.product = after[r].product /\ row.day = after[r].day
  <2> DEFINE from == {s \in Receipts : after[s].day = after[r].day
                                       /\ after[s].product = after[r].product}
             new == [product |-> after[r].product, day |-> after[r].day, by |-> p, from |-> from]
  <2>1. r \in from /\ from \in SUBSET Receipts
    OBVIOUS
  <2>2. new.from = from /\ new.product = after[r].product /\ new.day = after[r].day
    OBVIOUS
  <2>3. new.from = {s \in Receipts : after[s].day = new.day /\ after[s].product = new.product}
    OBVIOUS
  <2>4. new \in [product : Products, day : days, by : {p}, from : SUBSET Receipts]
    <3> HIDE DEF from
    <3> QED BY <1>3, <2>1
  <2>5. new.from # {}
    BY <2>1, <2>2
  <2> HIDE DEF new
  <2>6. new \in Rows(p, days, after)
    BY <2>3, <2>4, <2>5 DEF Rows
  <2> QED BY <2>1, <2>2, <2>6
<1> QED BY <1>1, <1>2, <1>3

\* What a transaction holds is as good as before when lines and sales stay.
LEMMA HeldAgain ==
    ASSUME lines' = lines, sales' = sales, ignored \subseteq ignored', NEW p
    PROVE  /\ RebuildOf(p, tx'[p]) => RebuildOf(p, tx[p])'
           /\ MatchOf(p, tx'[p]) => MatchOf(p, tx[p])'
<1>1. LinesAfter(tx[p])' = LinesAfter(tx'[p])
  BY DEF LinesAfter, Stored
<1>2. TouchedDays(tx[p])' = TouchedDays(tx'[p])
  BY DEF TouchedDays
<1>3. RowsReplaced(tx[p])' = RowsReplaced(tx'[p]) /\ OwnRows(tx[p])' = OwnRows(tx'[p])
  BY DEF RowsReplaced, OwnRows
<1>4. Linked(tx[p])' = Linked(tx'[p])
  BY DEF Linked
<1>5. Rebuilt(tx'[p], LinesAfter(tx'[p])) = Rebuilt(tx[p], LinesAfter(tx[p]))'
  BY <1>1
<1>6. MatchRows(p, tx'[p]) = MatchRows(p, tx[p])'
  BY <1>4 DEF MatchRows
<1>7. RebuildOf(p, tx'[p]) => RebuildOf(p, tx[p])'
  BY <1>2, <1>3, <1>5 DEF RebuildOf
<1>8. MatchOf(p, tx'[p]) => MatchOf(p, tx[p])'
  BY <1>3, <1>6 DEF MatchOf
<1> QED BY <1>7, <1>8

\* What a step that writes nothing but its own row asks of the invariant.
LEMMA OnlyTx ==
    ASSUME SalesInv, PosInv', DaysKnown', UNCHANGED <<lines, sales, dirty, ignored>>,
           NEW p \in Procs, \A q \in Procs \ {p} : tx'[q] = tx[q],
           IF p \in Matchers THEN MatchOf(p, tx'[p]) ELSE RebuildOf(p, tx'[p]),
           p \notin Matchers /\ tx'[p].pc \in Busy =>
             HasLock(p) \/ \A q \in Procs : ~HasLock(q)
    PROVE  SalesInv'
<1>1. OneLock'
  <2>1. \A q \in Procs \ {p} : HasLock(q)' <=> HasLock(q)
    BY DEF HasLock
  <2>2. HasLock(p)' => HasLock(p) \/ \A q \in Procs : ~HasLock(q)
    BY DEF HasLock, Busy
  <2> QED BY <2>1, <2>2 DEF SalesInv, OneLock
<1>2. \A q \in Procs : IF q \in Matchers THEN MatchOf(q, tx'[q]) ELSE RebuildOf(q, tx'[q])
  BY DEF SalesInv, HeldInv
<1>3. HeldInv'
  BY <1>2, HeldAgain DEF HeldInv
<1>4. Plain'
  BY DEF SalesInv, Plain, OnTheirDay, CountedOnce, LinkedIsCounted, CleanRows, RowsWith
<1> QED BY <1>1, <1>3, <1>4 DEF SalesInv

\* The days, then, of the receipts a request handles.
LEMMA DaysStep ==
    ASSUME SalesInv, [Next]_vars
    PROVE  DaysKnown'
<1> USE DEF DaysKnown, SalesInv, PosInv
<1>1. ASSUME NEW r \in Receipts, TillChange(r) PROVE DaysKnown'
  BY <1>1 DEF TillChange, Types, Payload
<1>2. ASSUME NEW k \in Skus, ProductArrives(k) \/ IgnorePosSku(k) PROVE DaysKnown'
  BY <1>2 DEF ProductArrives, IgnorePosSku
<1>3. ASSUME NEW p \in Procs, Receive(p) PROVE DaysKnown'
  <2>1. PICK batch \in SUBSET {r \in Receipts : till[r] # NoReceipt} :
           tx' = [tx EXCEPT ![p] = [Idle EXCEPT
                       !.pc = IF batch = {} THEN "heal" ELSE "ingest", !.batch = batch,
                       !.payload = [r \in Receipts |-> IF r \in batch THEN till[r]
                                                       ELSE NoReceipt]]]
    BY <1>3 DEF Receive
  <2>2. /\ tx'[p].batch = batch /\ \A r \in batch : tx'[p].payload[r] = till[r]
        /\ \A q \in Procs \ {p} : tx'[q] = tx[q]
    BY <2>1 DEF Types, Idle
  <2> QED BY <1>3, <2>2 DEF Receive
<1>4. ASSUME NEW p \in Procs, Lock(p) PROVE DaysKnown'
  BY <1>4, LockEffects DEF Keeps
<1>5. ASSUME NEW p \in Procs, Derive(p) \/ Delete(p) \/ MatchDerive(p) \/ MatchDelete(p)
      PROVE  DaysKnown'
  BY <1>5, WriteEffects DEF Keeps
<1>6. ASSUME NEW p \in Procs, Commit(p) PROVE DaysKnown'
  <2>1. /\ tx'[p].batch = {} /\ \A q \in Procs \ {p} : tx'[q] = Committed(p)[q]
        /\ lines' = LinesAfter(tx[p]) /\ till' = till /\ p \notin Matchers
    BY <1>6, CommittedEffects DEF Commit, Idle
  <2>2. \A q \in Procs \ Matchers : \A r \in tx'[q].batch : tx'[q].payload[r].day \in Days
    BY <2>1, CommittedEffects
  <2>3. \A r \in Receipts : lines'[r] = NoLine \/ lines'[r].day \in Days
    BY <2>1 DEF LinesAfter, Stored
  <2> QED BY <2>1, <2>2, <2>3
<1>7. ASSUME NEW m \in Procs, MatchRead(m) PROVE DaysKnown'
  BY <1>7 DEF MatchRead, Types
<1>8. ASSUME NEW m \in Procs, MatchCommit(m) PROVE DaysKnown'
  <2>1. /\ m \in Matchers /\ \A q \in Procs \ {m} : tx'[q] = Committed(m)[q]
        /\ lines' = Linked(tx[m]) /\ till' = till /\ \A r \in tx[m].batch : lines[r].sku \in Skus
    BY <1>8 DEF MatchCommit, CodesKnown
  <2>2. \A q \in Procs \ Matchers : \A r \in tx'[q].batch : tx'[q].payload[r].day \in Days
    BY <2>1, CommittedEffects
  <2>3. \A r \in Receipts : lines'[r] = NoLine \/ lines'[r].day \in Days
    <3>1. \A r \in tx[m].batch : lines[r] # NoLine
      BY <2>1, PosAssumption DEF NoLine
    <3> QED BY <2>1, <3>1 DEF Linked, Types, LineRow
  <2> QED BY <2>1, <2>2, <2>3
<1>9. ASSUME NEW p \in Procs, Abort(p) PROVE DaysKnown'
  <2>1. tx'[p] = Idle /\ (\A q \in Procs \ {p} : tx'[q] = tx[q]) /\ UNCHANGED <<till, lines>>
    BY <1>9 DEF Abort, Ends, Types
  <2> QED BY <2>1 DEF Idle
<1>10. CASE UNCHANGED vars
  BY <1>10 DEF vars
<1> QED BY <1>1, <1>2, <1>3, <1>4, <1>5, <1>6, <1>7, <1>8, <1>9, <1>10 DEF Next

\* A rebuild before its commit.
LEMMA RebuildSteps ==
    ASSUME SalesInv, PosInv', DaysKnown', NEW p \in Procs, p \notin Matchers,
           Lock(p) \/ Derive(p) \/ Delete(p)
    PROVE  SalesInv'
<1>0. /\ tx \in [Procs -> Tx] /\ tx[p] \in Tx /\ RebuildOf(p, tx[p])
  BY DEF SalesInv, PosInv, Types, HeldInv
<1>1. ASSUME Lock(p) PROVE SalesInv'
  <2> DEFINE map == SkuMap
             days == IF tx[p].pc = "heal" THEN RecentDays ELSE {}
             t == [tx[p] EXCEPT !.pc = "locked", !.map = map, !.ignored = ignored, !.days = days]
  <2>1. tx' = [tx EXCEPT ![p] = t]
    BY <1>1 DEF Lock
  <2> HIDE DEF map, days
  <2>2. t.pc = "locked" /\ t.ignored = ignored
    BY <1>0 DEF Tx
  <2> HIDE DEF t
  <2>3. tx'[p] = t /\ \A q \in Procs \ {p} : tx'[q] = tx[q]
    BY <1>0, <2>1
  <2>4. RebuildOf(p, tx'[p])
    BY <2>2, <2>3 DEF RebuildOf
  <2>5. (\A q \in Procs : ~HasLock(q)) /\ UNCHANGED <<lines, sales, dirty, ignored>>
    BY <1>1 DEF Lock
  <2> QED BY <2>3, <2>4, <2>5, OnlyTx
<1>2. ASSUME Derive(p) PROVE SalesInv'
  <2> DEFINE days == IF tx[p].batch = {} THEN tx[p].days ELSE TouchedDays(tx[p])
             rows == Rows(p, days, Rebuilt(tx[p], LinesAfter(tx[p])))
             t == [tx[p] EXCEPT !.pc = "derived", !.days = days, !.rows = rows]
  <2>1. tx' = [tx EXCEPT ![p] = t] /\ tx[p].pc = "locked"
    BY <1>2 DEF Derive
  <2>2. rows = Rows(p, days, Rebuilt(tx[p], LinesAfter(tx[p])))
        /\ (tx[p].batch # {} => days = TouchedDays(tx[p]))
    OBVIOUS
  <2> HIDE DEF days, rows
  <2>3. /\ t.pc = "derived" /\ t.days = days /\ t.rows = rows /\ t.ignored = tx[p].ignored
        /\ t.batch = tx[p].batch /\ t.payload = tx[p].payload /\ t.map = tx[p].map
    BY <1>0 DEF Tx
  <2> HIDE DEF t
  <2>4. tx'[p] = t /\ \A q \in Procs \ {p} : tx'[q] = tx[q]
    BY <1>0, <2>1
  <2>5. LinesAfter(t) = LinesAfter(tx[p]) /\ TouchedDays(t) = TouchedDays(tx[p])
    BY <2>3 DEF LinesAfter, Stored, TouchedDays
  <2>6. Rebuilt(t, LinesAfter(t)) = Rebuilt(tx[p], LinesAfter(tx[p]))
    BY <2>3, <2>5 DEF Rebuilt
  <2>7. \A row \in rows : row.day \in days
    BY <2>2 DEF Rows
  <2>8. RebuildOf(p, t)
    <3>1. t.ignored \subseteq ignored
      BY <1>0, <2>1, <2>3 DEF RebuildOf, Busy
    <3> QED BY <2>2, <2>3, <2>5, <2>6, <2>7, <3>1 DEF RebuildOf
  <2>9. HasLock(p) /\ UNCHANGED <<lines, sales, dirty, ignored>>
    BY <1>2, <2>1 DEF Derive, HasLock
  <2> QED BY <2>4, <2>8, <2>9, OnlyTx
<1>3. ASSUME Delete(p) PROVE SalesInv'
  <2> DEFINE gone == RowsReplaced(tx[p])
             t == [tx[p] EXCEPT !.pc = "deleted", !.gone = gone]
  <2>1. tx' = [tx EXCEPT ![p] = t] /\ tx[p].pc = "derived"
    BY <1>3 DEF Delete
  <2>2. gone = RowsReplaced(tx[p])
    OBVIOUS
  <2> HIDE DEF gone
  <2>3. /\ t.pc = "deleted" /\ t.days = tx[p].days /\ t.rows = tx[p].rows
        /\ t.ignored = tx[p].ignored /\ t.batch = tx[p].batch /\ t.payload = tx[p].payload
        /\ t.map = tx[p].map /\ t.gone = gone /\ t.overlapped = tx[p].overlapped
    BY <1>0 DEF Tx
  <2> HIDE DEF t
  <2>4. tx'[p] = t /\ \A q \in Procs \ {p} : tx'[q] = tx[q]
    BY <1>0, <2>1
  <2>5. /\ LinesAfter(t) = LinesAfter(tx[p]) /\ TouchedDays(t) = TouchedDays(tx[p])
        /\ RowsReplaced(t) = RowsReplaced(tx[p])
    BY <2>3 DEF LinesAfter, Stored, TouchedDays, RowsReplaced
  <2>6. Rebuilt(t, LinesAfter(t)) = Rebuilt(tx[p], LinesAfter(tx[p]))
    BY <2>3, <2>5 DEF Rebuilt
  <2>7. \A row \in gone : row.day \in t.days
    BY <2>2, <2>3 DEF RowsReplaced
  <2>8. RebuildOf(p, t)
    BY <1>0, <2>1, <2>2, <2>3, <2>5, <2>6, <2>7 DEF RebuildOf, Busy
  <2>9. HasLock(p) /\ UNCHANGED <<lines, sales, dirty, ignored>>
    BY <1>3, <2>1 DEF Delete, HasLock
  <2> QED BY <2>4, <2>8, <2>9, OnlyTx
<1> QED BY <1>1, <1>2, <1>3

\* A match before its commit.
LEMMA MatchSteps ==
    ASSUME SalesInv, PosInv', DaysKnown', NEW m \in Procs, m \in Matchers,
           MatchRead(m) \/ MatchDerive(m) \/ MatchDelete(m)
    PROVE  SalesInv'
<1>0. /\ tx \in [Procs -> Tx] /\ tx[m] \in Tx /\ MatchOf(m, tx[m])
  BY DEF SalesInv, PosInv, Types, HeldInv
<1>1. UNCHANGED <<lines, sales, dirty, ignored>>
  BY DEF MatchRead, MatchDerive, MatchDelete
<1>2. ASSUME MatchRead(m) PROVE SalesInv'
  <2>1. PICK k \in Skus, x \in Products :
           tx' = [tx EXCEPT ![m] = [Idle EXCEPT !.pc = "matching",
                    !.batch = {r \in Receipts : lines[r].sku = k /\ lines[r].product = Null},
                    !.product = x]]
    BY <1>2 DEF MatchRead
  <2>2. tx'[m].pc = "matching" /\ \A q \in Procs \ {m} : tx'[q] = tx[q]
    BY <1>0, <2>1 DEF Idle
  <2> QED BY <1>1, <2>2, OnlyTx DEF MatchOf
<1>3. ASSUME MatchDerive(m) PROVE SalesInv'
  <2> DEFINE rows == {row \in Rows(m, Days, Linked(tx[m])) : row.product = tx[m].product}
             t == [tx[m] EXCEPT !.pc = "derived", !.rows = rows]
  <2>1. tx' = [tx EXCEPT ![m] = t]
    BY <1>3 DEF MatchDerive
  <2>2. rows = MatchRows(m, tx[m])
    BY DEF MatchRows
  <2> HIDE DEF rows
  <2>3. /\ t.pc = "derived" /\ t.rows = rows /\ t.batch = tx[m].batch
        /\ t.product = tx[m].product
    BY <1>0 DEF Tx
  <2> HIDE DEF t
  <2>4. tx'[m] = t /\ \A q \in Procs \ {m} : tx'[q] = tx[q]
    BY <1>0, <2>1
  <2>5. Linked(t) = Linked(tx[m])
    BY <2>3 DEF Linked
  <2>6. MatchOf(m, t)
    BY <2>2, <2>3, <2>5 DEF MatchOf, MatchRows
  <2> QED BY <1>1, <2>4, <2>6, OnlyTx
<1>4. ASSUME MatchDelete(m) PROVE SalesInv'
  <2> DEFINE gone == OwnRows(tx[m])
             t == [tx[m] EXCEPT !.pc = "deleted", !.gone = gone]
  <2>1. tx' = [tx EXCEPT ![m] = t] /\ tx[m].pc = "derived"
    BY <1>4 DEF MatchDelete
  <2>2. gone = OwnRows(tx[m])
    OBVIOUS
  <2> HIDE DEF gone
  <2>3. /\ t.pc = "deleted" /\ t.rows = tx[m].rows /\ t.batch = tx[m].batch /\ t.gone = gone
        /\ t.product = tx[m].product /\ t.overlapped = tx[m].overlapped
    BY <1>0 DEF Tx
  <2> HIDE DEF t
  <2>4. tx'[m] = t /\ \A q \in Procs \ {m} : tx'[q] = tx[q]
    BY <1>0, <2>1
  <2>5. Linked(t) = Linked(tx[m]) /\ OwnRows(t) = OwnRows(tx[m])
    BY <2>3 DEF Linked, OwnRows
  <2>6. MatchOf(m, t)
    BY <1>0, <2>1, <2>2, <2>3, <2>5 DEF MatchOf, MatchRows
  <2> QED BY <1>1, <2>4, <2>6, OnlyTx
<1> QED BY <1>2, <1>3, <1>4

\* The till, the catalogue, the owner, and a request that starts or ends.
LEMMA OutsideSteps ==
    ASSUME SalesInv, PosInv', DaysKnown',
           \/ \E r \in Receipts : TillChange(r)
           \/ \E k \in Skus : ProductArrives(k) \/ IgnorePosSku(k)
           \/ \E p \in Procs : Receive(p) \/ Abort(p)
           \/ \E m \in Matchers \cap Procs : Lock(m)
           \/ UNCHANGED vars
    PROVE  SalesInv'
<1>0. tx \in [Procs -> Tx]
  BY DEF SalesInv, PosInv, Types
<1>1. ASSUME UNCHANGED <<lines, sales, tx, dirty>>, ignored \subseteq ignored' PROVE SalesInv'
  <2>1. OneLock'
    BY <1>1 DEF SalesInv, OneLock, HasLock
  <2>2. \A p \in Procs : RebuildOf(p, tx[p]) => RebuildOf(p, tx[p])'
    BY <1>1, HeldAgain
  <2>3. \A p \in Procs : MatchOf(p, tx[p]) => MatchOf(p, tx[p])'
    BY <1>1, HeldAgain
  <2>4. HeldInv'
    BY <2>2, <2>3 DEF SalesInv, HeldInv
  <2>5. OnTheirDay' /\ CountedOnce'
    BY <1>1 DEF SalesInv, Plain, OnTheirDay, CountedOnce, CleanRows
  <2>6. LinkedIsCounted'
    BY <1>1 DEF SalesInv, Plain, LinkedIsCounted, CleanRows, RowsWith
  <2> QED BY <2>1, <2>4, <2>5, <2>6 DEF SalesInv, Plain
<1>2. ASSUME NEW r \in Receipts, TillChange(r) PROVE SalesInv'
  BY <1>1, <1>2 DEF TillChange
<1>3. ASSUME NEW k \in Skus, ProductArrives(k) \/ IgnorePosSku(k) PROVE SalesInv'
  BY <1>1, <1>3 DEF ProductArrives, IgnorePosSku
<1>4. ASSUME NEW p \in Procs, Receive(p) PROVE SalesInv'
  <2>1. PICK batch \in SUBSET {r \in Receipts : till[r] # NoReceipt} :
           tx' = [tx EXCEPT ![p] = [Idle EXCEPT
                       !.pc = IF batch = {} THEN "heal" ELSE "ingest", !.batch = batch,
                       !.payload = [r \in Receipts |-> IF r \in batch THEN till[r]
                                                       ELSE NoReceipt]]]
    BY <1>4 DEF Receive
  <2>2. tx'[p].pc \in {"heal", "ingest"} /\ \A q \in Procs \ {p} : tx'[q] = tx[q]
    BY <1>0, <2>1 DEF Idle
  <2>3. UNCHANGED <<lines, sales, dirty, ignored>>
    BY <1>4 DEF Receive
  <2> QED BY <2>2, <2>3, OnlyTx DEF MatchOf, RebuildOf, Busy
<1>5. ASSUME NEW p \in Procs, Abort(p) PROVE SalesInv'
  <2>1. tx'[p].pc = "idle" /\ \A q \in Procs \ {p} : tx'[q] = tx[q]
    BY <1>0, <1>5 DEF Abort, Ends, Idle
  <2>2. UNCHANGED <<lines, sales, dirty, ignored>>
    BY <1>5 DEF Abort
  <2> QED BY <2>1, <2>2, OnlyTx DEF MatchOf, RebuildOf, Busy
<1>6. ASSUME NEW m \in Matchers \cap Procs, Lock(m) PROVE SalesInv'
  <2>1. UNCHANGED <<lines, sales, dirty, ignored>>
    BY <1>6 DEF Lock
  <2>2. tx'[m].pc = "locked" /\ \A q \in Procs \ {m} : tx'[q] = tx[q]
    BY <1>6, LockEffects DEF SalesInv, PosInv, Keeps
  <2> QED BY <2>1, <2>2, OnlyTx DEF MatchOf
<1>7. CASE UNCHANGED vars
  BY <1>1, <1>7 DEF vars
<1> QED BY <1>2, <1>3, <1>4, <1>5, <1>6, <1>7

\* What else a commit leaves with the others.
LEMMA CommittedKeeps ==
    ASSUME Types, NEW p \in Procs, NEW q \in Procs \ {p}
    PROVE  LET c == Committed(p)[q] IN
           /\ c.days = tx[q].days /\ c.rows = tx[q].rows /\ c.gone = tx[q].gone
           /\ c.ignored = tx[q].ignored
           /\ q \notin Matchers => c.batch = tx[q].batch
<1>1. tx[q] \in Tx
  BY DEF Types
<1>2. Committed(p)[q] =
        [tx[q] EXCEPT
           !.overlapped = tx[q].overlapped \/ tx[q].pc \in {"locked", "derived", "deleted"},
           !.batch = IF q \in Matchers /\ p \notin Matchers THEN tx[q].batch \ tx[p].batch
                     ELSE tx[q].batch]
  BY DEF Committed
<1> QED BY <1>1, <1>2 DEF Tx

\* The commit of a rebuild: its days' rows are what it added up, unless it is
\* overlapped, and the other days keep theirs.
LEMMA CommitStep ==
    ASSUME SalesInv, PosInv', DaysKnown', NEW p \in Procs, Commit(p)
    PROVE  SalesInv'
<1> DEFINE t == tx[p]
           D == tx[p].days
<1>0. /\ p \notin Matchers /\ t.pc = "deleted" /\ Types /\ Types' /\ RebuildOf(p, t)
      /\ tx \in [Procs -> Tx] /\ t \in Tx
  BY DEF Commit, SalesInv, PosInv, Types, HeldInv
<1>1. /\ lines' = LinesAfter(t)
      /\ sales' = (sales \ t.gone) \cup t.rows
      /\ dirty' = IF t.overlapped THEN dirty \cup D ELSE dirty \ D
      /\ ignored' = ignored
      /\ tx' = [Committed(p) EXCEPT ![p].pc =
                  IF p \in Pullers /\ tx[p].batch # {} THEN "heal" ELSE "idle"]
  BY DEF Commit
<1>2. tx'[p].pc \in {"heal", "idle"} /\ \A q \in Procs \ {p} : tx'[q] = Committed(p)[q]
  BY <1>0, <1>1, CommittedEffects DEF Idle
<1>3. \A q \in Procs \ {p} : tx'[q].pc = tx[q].pc /\ (tx[q].pc \in Busy => tx'[q].overlapped)
  BY <1>0, <1>2, CommittedEffects
<1>4. \A q \in Procs \ Matchers : tx'[q].pc \notin Busy
  <2>1. HasLock(p)
    BY <1>0 DEF HasLock
  <2>2. \A q \in Procs \ Matchers : q # p => tx[q].pc \notin Busy
    BY <2>1 DEF SalesInv, OneLock, HasLock, Busy
  <2> QED BY <1>2, <1>3, <2>2 DEF Busy
<1>5. OneLock'
  BY <1>4 DEF OneLock, HasLock, Busy
<1>6. HeldInv'
  <2>1. \A q \in Matchers \cap Procs : MatchOf(q, tx[q])'
    BY <1>0, <1>3 DEF MatchOf, Busy
  <2>2. \A q \in Procs \ Matchers : RebuildOf(q, tx[q])'
    BY <1>4 DEF RebuildOf, Busy
  <2> QED BY <2>1, <2>2 DEF HeldInv
\* What is not in the batch stays; what is was, and is, on one of its days.
<1>7. ASSUME NEW r \in Receipts
      PROVE  /\ r \notin t.batch => lines'[r] = lines[r]
             /\ r \in t.batch => lines[r].day \in D \cup {Null} /\ lines'[r].day \in D \cup {Null}
  <2>1. r \notin t.batch => lines'[r] = lines[r]
    BY <1>1 DEF LinesAfter
  <2>2. ASSUME r \in t.batch
        PROVE  lines[r].day \in D \cup {Null} /\ lines'[r].day \in D \cup {Null}
    <3>1. TouchedDays(t) \subseteq D
      BY <1>0, <2>2 DEF RebuildOf
    <3>2. lines'[r] = Stored(t, r)
      BY <1>1, <2>2 DEF LinesAfter
    <3>3. lines[r].day \in D \cup {Null}
      BY <2>2, <3>1 DEF TouchedDays
    <3>4. ~t.payload[r].online => t.payload[r].day \in D \cup {Null}
      BY <2>2, <3>1 DEF TouchedDays
    <3> QED BY <3>2, <3>3, <3>4 DEF Stored, NoLine
  <2> QED BY <2>1, <2>2
<1>8. \A row \in t.gone \cup t.rows : row.day \in D
  BY <1>0 DEF RebuildOf
<1> DEFINE old(row) == row \in CleanRows /\ row.day \notin D
           new(row) == row \in t.rows /\ row.day \in D /\ ~t.overlapped
<1>9. ASSUME NEW row \in CleanRows' PROVE row.day \in Days /\ (old(row) \/ new(row))
  <2>1. row \in sales' /\ row.day \notin dirty' /\ row.day \in Days
    BY <1>0 DEF CleanRows, Types, Row
  <2>2. CASE row.day \notin D
    <3>1. row \in sales /\ row.day \notin dirty
      BY <1>1, <1>8, <2>1, <2>2
    <3> QED BY <2>1, <2>2, <3>1 DEF CleanRows
  <2>3. CASE row.day \in D
    <3>1. ~t.overlapped
      BY <1>1, <2>1, <2>3
    <3>2. row \in t.rows
      BY <1>0, <1>1, <2>1, <2>3, <3>1 DEF RebuildOf, RowsReplaced
    <3> QED BY <2>1, <2>3, <3>1, <3>2
  <2> QED BY <2>2, <2>3
<1> DEFINE after == Rebuilt(t, lines')
<1>10. ~t.overlapped => t.rows = Rows(p, D, after)
  BY <1>0, <1>1 DEF RebuildOf
<1>11. \A r \in Receipts : \/ after[r].day = Null
                           \/ /\ after[r].day = lines'[r].day
                              /\ lines'[r].product \in {after[r].product, Null}
  <2>1. \A r \in Receipts : lines'[r] \in LineRow
    BY <1>0 DEF Types
  <2> QED BY <2>1 DEF Rebuilt, NoLine, LineRow
<1>12. ASSUME NEW r \in Receipts, lines'[r].product # Null, lines'[r].day \in Days,
              lines'[r].sku \notin ignored
       PROVE  after[r] = lines'[r]
  BY <1>0, <1>12, PosAssumption DEF RebuildOf, Busy, Rebuilt
<1> HIDE DEF after
<1>13. ASSUME NEW row \in t.rows, ~t.overlapped, NEW r \in row.from, row.day \in Days
       PROVE  /\ r \in Receipts /\ after[r].day = row.day /\ after[r].product = row.product
              /\ lines'[r].day = row.day /\ lines'[r].product \in {row.product, Null}
  <2>1. row.from = {s \in Receipts : after[s].day = row.day /\ after[s].product = row.product}
    BY <1>10, <1>13, RowsMembers
  <2>2. r \in Receipts /\ after[r].day = row.day /\ after[r].product = row.product
    BY <1>13, <2>1
  <2> QED BY <1>11, <1>13, <2>2, PosAssumption
<1>14. ASSUME NEW row, row.day \in Days, old(row), NEW r \in row.from
       PROVE  r \in Receipts /\ lines'[r] = lines[r] /\ lines[r].day = row.day
              /\ lines[r].product \in {row.product, Null}
  <2>1. r \in Receipts
    BY <1>0, <1>14 DEF CleanRows, Types, Row
  <2>2. lines[r].day = row.day /\ lines[r].product \in {row.product, Null}
    BY <1>14 DEF SalesInv, Plain, OnTheirDay
  <2> QED BY <1>7, <1>14, <2>1, <2>2, PosAssumption
<1>15. OnTheirDay'
  <2> SUFFICES ASSUME NEW row \in CleanRows', NEW r \in row.from
               PROVE  lines'[r].day = row.day /\ lines'[r].product \in {row.product, Null}
    BY DEF OnTheirDay
  <2>1. CASE old(row)
    BY <1>9, <1>14, <2>1
  <2>2. CASE new(row)
    BY <1>9, <1>13, <2>2
  <2> QED BY <1>9, <2>1, <2>2
<1>16. CountedOnce'
  <2> SUFFICES ASSUME NEW row \in CleanRows', NEW other \in CleanRows', NEW r \in row.from,
                      r \in other.from
               PROVE  row = other
    BY DEF CountedOnce
  <2>1. lines'[r].day = row.day /\ lines'[r].day = other.day
    BY <1>15 DEF OnTheirDay
  <2>2. CASE old(row) /\ old(other)
    BY <2>2 DEF SalesInv, Plain, CountedOnce
  <2>3. CASE new(row) /\ new(other)
    <3>1. row.product = other.product
      BY <1>9, <1>13, <2>3
    <3> QED BY <1>10, <2>1, <2>3, <3>1, RowsMembers
  <2> QED BY <1>9, <2>1, <2>2, <2>3
<1>17. LinkedIsCounted'
  <2> SUFFICES ASSUME NEW r \in Receipts, lines'[r].product # Null, lines'[r].day \notin dirty',
                      lines'[r].sku \notin ignored
               PROVE  \E row \in CleanRows' : r \in row.from /\ row.product = lines'[r].product
    BY <1>1 DEF LinkedIsCounted, RowsWith
  <2>1. lines'[r].day \in Days /\ lines'[r].product \in Products
    BY <1>0 DEF DaysKnown, NoLine, Types, LineRow
  <2>2. CASE lines'[r].day \notin D
    <3>1. lines'[r] = lines[r]
      BY <1>7, <2>1, <2>2, PosAssumption
    <3>2. lines[r].day \notin dirty
      BY <1>1, <2>2, <3>1
    <3>3. PICK row \in CleanRows : r \in row.from /\ row.product = lines[r].product
      BY <3>1, <3>2 DEF SalesInv, Plain, LinkedIsCounted, RowsWith
    <3>4. row.day = lines[r].day
      BY <3>3 DEF SalesInv, Plain, OnTheirDay
    <3>5. row \in sales' /\ row.day \notin dirty'
      BY <1>1, <1>8, <2>2, <3>1, <3>3, <3>4 DEF CleanRows
    <3> QED BY <3>1, <3>3, <3>5 DEF CleanRows
  <2>3. CASE lines'[r].day \in D
    <3>1. ~t.overlapped
      BY <1>1, <2>3
    <3>2. after[r] = lines'[r]
      BY <1>12, <2>1
    <3>3. PICK row \in Rows(p, D, after) :
             r \in row.from /\ row.product = after[r].product /\ row.day = after[r].day
      BY <2>1, <2>3, <3>2, RowsMembers
    <3>4. row \in sales'
      BY <1>1, <1>10, <3>1, <3>3
    <3> QED BY <3>2, <3>3, <3>4 DEF CleanRows
  <2> QED BY <2>2, <2>3
<1> QED BY <1>5, <1>6, <1>15, <1>16, <1>17 DEF SalesInv, Plain

\* The commit of a match: the product's rows are those of the lines linked to
\* it, and the days it takes receipts over on are excepted.
LEMMA MatchCommitStep ==
    ASSUME SalesInv, PosInv', DaysKnown', NEW m \in Procs, MatchCommit(m)
    PROVE  SalesInv'
<1> DEFINE t == tx[m]
           x == tx[m].product
<1>0. /\ m \in Matchers /\ t.pc = "deleted" /\ Types /\ Types' /\ MatchOf(m, t)
      /\ tx \in [Procs -> Tx] /\ t \in Tx /\ x \in Products
  BY DEF MatchCommit, SalesInv, PosInv, Types, HeldInv, CodesKnown
<1>1. /\ lines' = Linked(t)
      /\ sales' = (sales \ t.gone) \cup t.rows
      /\ dirty' = IF t.overlapped THEN Days ELSE dirty \cup TakenDays(t)
      /\ ignored' = ignored
      /\ tx' = Committed(m)
  BY DEF MatchCommit
<1>2. \A q \in Procs : tx'[q].pc = IF q = m THEN "idle" ELSE tx[q].pc
  BY <1>0, <1>1, CommittedEffects DEF Idle
<1>3. OneLock'
  <2>1. \A q \in Procs : HasLock(q)' => HasLock(q)
    BY <1>0, <1>2 DEF HasLock
  <2> QED BY <2>1 DEF SalesInv, OneLock
<1>4. \A r \in Receipts :
         /\ lines'[r].day = lines[r].day /\ lines'[r].sku = lines[r].sku
         /\ lines'[r].product = IF r \in t.batch THEN x ELSE lines[r].product
  BY <1>0, <1>1 DEF Linked, Types, LineRow
<1>5. HeldInv'
  <2>1. \A q \in Matchers \cap Procs : MatchOf(q, tx[q])'
    BY <1>0, <1>1, <1>2, CommittedEffects DEF MatchOf, Busy
  <2>2. ASSUME NEW q \in Procs \ Matchers PROVE RebuildOf(q, tx[q])'
    <3>1. q \in Procs \ {m}
      BY <1>0, <2>2
    <3>2. /\ tx'[q].pc = tx[q].pc /\ tx'[q].days = tx[q].days /\ tx'[q].rows = tx[q].rows
          /\ tx'[q].gone = tx[q].gone /\ tx'[q].ignored = tx[q].ignored
          /\ tx'[q].batch = tx[q].batch /\ tx'[q].payload = tx[q].payload
          /\ tx[q].pc \in Busy => tx'[q].overlapped
      BY <1>0, <1>1, <2>2, <3>1, CommittedEffects, CommittedKeeps
    <3>3. tx[q].batch \subseteq Receipts
      BY <1>0 DEF Tx
    <3>4. TouchedDays(tx[q])' = TouchedDays(tx[q])
      BY <1>4, <3>2, <3>3 DEF TouchedDays
    <3>5. RebuildOf(q, tx[q])
      BY <2>2 DEF SalesInv, HeldInv
    <3> HIDE DEF TouchedDays
    <3> QED BY <1>1, <3>2, <3>4, <3>5 DEF RebuildOf, Busy
  <2> QED BY <2>1, <2>2 DEF HeldInv
<1>6. CASE t.overlapped
  <2>1. dirty' = Days
    BY <1>1, <1>6
  <2>2. CleanRows' = {}
    BY <1>0, <2>1 DEF CleanRows, Types, Row
  <2>3. \A r \in Receipts : lines'[r].product # Null => lines'[r].day \in dirty'
    BY <2>1 DEF DaysKnown, NoLine
  <2>4. OnTheirDay' /\ CountedOnce'
    BY <2>2 DEF OnTheirDay, CountedOnce
  <2>5. LinkedIsCounted'
    BY <2>3 DEF LinkedIsCounted
  <2> QED BY <1>3, <1>5, <2>4, <2>5 DEF SalesInv, Plain
<1>7. CASE ~t.overlapped
  <2> DEFINE all == Rows(m, Days, Linked(t))
             old(row) == /\ row \in CleanRows /\ row.product # x
                         /\ row.from \cap t.batch = {}
             new(row) == row \in all /\ row.product = x
  <2>1. t.rows = {row \in all : row.product = x} /\ t.gone = OwnRows(t)
    BY <1>0, <1>7 DEF MatchOf, MatchRows
  <2>2. dirty' = dirty \cup TakenDays(t)
    BY <1>1, <1>7
  <2>3. ASSUME NEW row \in CleanRows' PROVE row.day \in Days /\ (old(row) \/ new(row))
    <3>1. row \in sales' /\ row.day \notin dirty' /\ row.day \in Days
      BY <1>0 DEF CleanRows, Types, Row
    <3>2. CASE row \in t.rows
      BY <2>1, <3>1, <3>2
    <3>3. CASE row \in sales /\ row \notin t.gone
      <4>1. row.product # x
        BY <2>1, <3>3 DEF OwnRows
      <4>2. row.from \cap t.batch = {}
        BY <2>2, <3>1, <3>3 DEF TakenDays
      <4>3. row \in CleanRows
        BY <2>2, <3>1, <3>3 DEF CleanRows
      <4> QED BY <3>1, <4>1, <4>2, <4>3
    <3> QED BY <1>1, <3>1, <3>2, <3>3
  <2>4. ASSUME NEW row \in all, NEW r \in row.from
        PROVE  r \in Receipts /\ lines'[r].day = row.day /\ lines'[r].product = row.product
    BY <1>1, <2>4, RowsMembers
  <2>5. ASSUME NEW row, old(row), NEW r \in row.from
        PROVE  /\ r \in Receipts /\ r \notin t.batch /\ lines'[r].product = lines[r].product
               /\ lines'[r].day = row.day /\ lines[r].product \in {row.product, Null}
    <3>1. r \in Receipts /\ r \notin t.batch
      BY <1>0, <2>5 DEF CleanRows, Types, Row
    <3>2. lines[r].day = row.day /\ lines[r].product \in {row.product, Null}
      BY <2>5 DEF SalesInv, Plain, OnTheirDay
    <3> QED BY <1>4, <3>1, <3>2
  <2> HIDE DEF all
  <2>6. OnTheirDay'
    <3> SUFFICES ASSUME NEW row \in CleanRows', NEW r \in row.from
                 PROVE  lines'[r].day = row.day /\ lines'[r].product \in {row.product, Null}
      BY DEF OnTheirDay
    <3>1. CASE old(row)
      BY <2>5, <3>1
    <3>2. CASE new(row)
      BY <2>4, <3>2
    <3> QED BY <2>3, <3>1, <3>2
  <2>7. CountedOnce'
    <3> SUFFICES ASSUME NEW row \in CleanRows', NEW other \in CleanRows', NEW r \in row.from,
                        r \in other.from
                 PROVE  row = other
      BY DEF CountedOnce
    <3>1. CASE old(row) /\ old(other)
      BY <3>1 DEF SalesInv, Plain, CountedOnce
    <3>2. CASE new(row) /\ new(other)
      <4>1. row.day = other.day
        BY <2>6 DEF OnTheirDay
      <4> QED BY <3>2, <4>1, RowsMembers DEF all
    <3>3. ASSUME NEW one, new(one), r \in one.from, NEW two, old(two), r \in two.from
          PROVE  FALSE
      <4>1. lines'[r].product = x
        BY <2>4, <3>3
      <4>2. lines'[r].product \in {two.product, Null} /\ two.product # x
        BY <2>5, <3>3
      <4> QED BY <1>0, <4>1, <4>2, PosAssumption
    <3> QED BY <2>3, <3>1, <3>2, <3>3
  <2>8. LinkedIsCounted'
    <3> SUFFICES ASSUME NEW r \in Receipts, lines'[r].product # Null, lines'[r].day \notin dirty',
                        lines'[r].sku \notin ignored
                 PROVE  \E row \in CleanRows' : r \in row.from /\ row.product = lines'[r].product
      BY <1>1 DEF LinkedIsCounted, RowsWith
    <3>1. lines'[r].day \in Days /\ lines'[r].product \in Products
      BY <1>0 DEF DaysKnown, NoLine, Types, LineRow
    <3>2. CASE lines'[r].product = x
      <4>1. PICK row \in all :
               r \in row.from /\ row.product = lines'[r].product /\ row.day = lines'[r].day
        BY <1>1, <3>1, RowsMembers DEF all
      <4>2. row \in sales' /\ row.day \notin dirty'
        BY <1>1, <2>1, <3>2, <4>1
      <4> QED BY <4>1, <4>2 DEF CleanRows
    <3>3. CASE lines'[r].product # x
      <4>1. lines[r].product = lines'[r].product /\ lines[r].day = lines'[r].day
            /\ lines[r].sku = lines'[r].sku
        BY <1>4, <3>3
      <4>2. PICK row \in CleanRows : r \in row.from /\ row.product = lines[r].product
        BY <2>2, <4>1 DEF SalesInv, Plain, LinkedIsCounted, RowsWith
      <4>3. row.day = lines[r].day
        BY <4>2 DEF SalesInv, Plain, OnTheirDay
      <4>4. row \in sales' /\ row.day \notin dirty'
        BY <1>1, <2>1, <3>3, <4>1, <4>2, <4>3 DEF CleanRows, OwnRows
      <4> QED BY <4>1, <4>2, <4>4 DEF CleanRows
    <3> QED BY <3>2, <3>3
  <2> QED BY <1>3, <1>5, <2>6, <2>7, <2>8 DEF SalesInv, Plain
<1> QED BY <1>6, <1>7

LEMMA SalesInit == Init => SalesInv
<1> SUFFICES ASSUME Init PROVE SalesInv
  OBVIOUS
<1>1. DaysKnown
  BY DEF Init, DaysKnown, NoPayload, Idle
<1>2. OneLock
  BY DEF Init, OneLock, HasLock, Idle
<1>3. HeldInv
  BY DEF Init, HeldInv, MatchOf, RebuildOf, Idle, Busy
<1>4. Plain
  BY DEF Init, Plain, OnTheirDay, CountedOnce, LinkedIsCounted, CleanRows, NoLine
<1> QED BY <1>1, <1>2, <1>3, <1>4, InvInit DEF SalesInv

LEMMA SalesStep ==
    ASSUME IsFiniteSet(Receipts), SalesInv, [Next]_vars
    PROVE  SalesInv'
<1>1. PosInv' /\ DaysKnown'
  BY InvNext, DaysStep DEF SalesInv
<1>2. ASSUME NEW p \in Procs, Lock(p) \/ Derive(p) \/ Delete(p) PROVE SalesInv'
  <2>1. CASE p \notin Matchers
    BY <1>1, <1>2, <2>1, RebuildSteps
  <2>2. CASE p \in Matchers
    BY <1>1, <1>2, <2>2, OutsideSteps DEF Derive, Delete
  <2> QED BY <2>1, <2>2
<1>3. ASSUME NEW m \in Procs, MatchRead(m) \/ MatchDerive(m) \/ MatchDelete(m) PROVE SalesInv'
  BY <1>1, <1>3, MatchSteps DEF MatchRead, MatchDerive, MatchDelete
<1>4. ASSUME NEW p \in Procs, Commit(p) \/ MatchCommit(p) PROVE SalesInv'
  BY <1>1, <1>4, CommitStep, MatchCommitStep
<1>5. ASSUME \/ \E r \in Receipts : TillChange(r)
             \/ \E k \in Skus : ProductArrives(k) \/ IgnorePosSku(k)
             \/ \E p \in Procs : Receive(p) \/ Abort(p)
             \/ UNCHANGED vars
      PROVE  SalesInv'
  BY <1>1, <1>5, OutsideSteps
<1> QED BY <1>2, <1>3, <1>4, <1>5 DEF Next

\* ingest.ts:177: a day's sales are what its stored receipts add up to: nothing
\* is counted that is not stored on that day, nothing twice, and a receipt with
\* a product is counted - for any finite number of receipts, sent, corrected,
\* repaired and matched in any order and number, but on the days the model
\* says a match wrote under an ingest's feet.
THEOREM SalesAddUp == ASSUME IsFiniteSet(Receipts) PROVE Spec => []SalesFollowReceipts
<1>1. SalesInv /\ [Next]_vars => SalesInv'
  BY SalesStep
<1>2. SalesInv => SalesFollowReceipts
  BY PlainIsIt DEF SalesInv, PosInv
<1> QED BY <1>1, <1>2, SalesInit, PTL DEF Spec
=============================================================================
