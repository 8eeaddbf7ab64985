-------------------------- MODULE TransfersProofs --------------------------
(***************************************************************************)
(* Proofs about Stock and Transfers, for all values of the constants.      *)
(***************************************************************************)
EXTENDS Transfers, Sums

-----------------------------------------------------------------------------
(* A confirmed role outlives every later sync.                             *)

PlaceShape == DOMAIN place = Locations /\ DOMAIN answer = Locations
StickInv   == PlaceShape /\ AnswerSticks

LEMMA StickInit == Init => StickInv
  BY DEF Init, StockInit, StickInv, PlaceShape, AnswerSticks

\* The sync's upsert: it keeps the row it read as confirmed, and an answer it
\* did not see is lost with the row (SyncUpserts).
LEMMA UpsertKeepsAnswers ==
    ASSUME StickInv, SyncUpserts
    PROVE  StickInv'
<1> DEFINE l == sync.at
<1>1. /\ place'  = [place EXCEPT ![l] = RoleData(l, sync.saw)]
      /\ answer' = [answer EXCEPT ![l] = IF sync.saw = "confirmed" THEN @ ELSE Null]
  BY DEF SyncUpserts
<1>2. DOMAIN place' = Locations /\ DOMAIN answer' = Locations
  BY <1>1 DEF StickInv, PlaceShape
<1>3. ASSUME NEW k \in Locations, answer'[k] # Null
      PROVE  place'[k] = [role |-> answer'[k], status |-> "confirmed"]
  <2>1. CASE k # l
    BY <2>1, <1>1, <1>3 DEF StickInv, PlaceShape, AnswerSticks
  <2>2. CASE k = l /\ sync.saw = "confirmed"
    <3>1. place'[k] = place[k] /\ answer'[k] = answer[k]
      BY <2>2, <1>1 DEF StickInv, PlaceShape, RoleData
    <3> QED BY <3>1, <1>3 DEF StickInv, AnswerSticks
  <2>3. CASE k = l /\ sync.saw # "confirmed"
    BY <2>3, <1>1, <1>3 DEF StickInv, PlaceShape
  <2> QED BY <2>1, <2>2, <2>3
<1> QED BY <1>2, <1>3 DEF StickInv, PlaceShape, AnswerSticks

\* setLocationRole writes the role and remembers it in one statement.
LEMMA ConfirmKeepsAnswers ==
    ASSUME StickInv, NEW a \in Askers, NEW k \in Locations, NEW r \in Asked,
           Confirms(a, k, r)
    PROVE  StickInv'
<1>1. /\ place'  = [place EXCEPT ![k] = [role |-> r, status |-> "confirmed"]]
      /\ answer' = [answer EXCEPT ![k] = r]
  BY DEF Confirms
<1>2. ASSUME NEW j \in Locations, answer'[j] # Null
      PROVE  place'[j] = [role |-> answer'[j], status |-> "confirmed"]
  BY <1>1, <1>2 DEF StickInv, PlaceShape, AnswerSticks
<1> QED BY <1>1, <1>2 DEF StickInv, PlaceShape, AnswerSticks

\* Every other step leaves the locations and the answers alone.
LEMMA StickStep == StickInv /\ [Next]_vars => StickInv'
<1> SUFFICES ASSUME StickInv, [Next]_vars PROVE StickInv'
  OBVIOUS
<1> USE DEF StickInv, PlaceShape, AnswerSticks
<1>1. CASE SyncUpserts
  BY <1>1, UpsertKeepsAnswers
<1>2. CASE \E a \in Askers, l \in Locations, r \in Asked : Confirms(a, l, r)
  BY <1>2, ConfirmKeepsAnswers
<1>3. CASE UNCHANGED <<place, answer>>
  BY <1>3
<1>4. CASE PlanNext
  <2>1. UNCHANGED <<place, answer>>
    BY <1>4 DEF PlanNext, Create, ResizeStarts, ResizeDeletes, ResizeWrites, ResizeDies,
                Finalise, Discard, EditStarts, EditReads, EditWrites, EditDies, NoStockStep
  <2> QED BY <2>1
<1>5. CASE StockNext
  BY <1>5, <1>1, <1>2, <1>3
     DEF StockNext, StoreMoves, SyncFetches, SyncReadsStatus, SyncWritesLevel,
         SyncReadsFigures, SyncWritesFigure, SyncDies, FindsAffected, SumsLevels,
         WritesStock, AskDies
<1>6. CASE UNCHANGED vars
  BY <1>6 DEF vars, stockVars
<1> QED BY <1>4, <1>5, <1>6 DEF Next

\* What a member confirmed about a location stays confirmed through every later
\* sync (the roleStatus check of syncLocationsAndInventory), for any number of
\* locations, members and syncs.
THEOREM AnswersStick == Spec => []AnswerSticks
<1>1. StickInv => AnswerSticks
  BY DEF StickInv
<1> QED BY <1>1, StickInit, StickStep, PTL DEF Spec

-----------------------------------------------------------------------------
(* A finalised plan.                                                       *)

\* An edit in progress holds the plan row, and holds it as a draft.
LockInv == /\ DOMAIN edit = Editors
           /\ \A e \in Editors : edit[e].pc # "idle" => lock = e /\ plan.status = "draft"

LEMMA LockInit == Init => LockInv
  BY DEF Init, LockInv, EditIdle

\* Only the row's holder moves on, and no one else touches the status meanwhile.
LEMMA LockStep == LockInv /\ [Next]_vars => LockInv'
<1> SUFFICES ASSUME LockInv, [Next]_vars PROVE LockInv'
  OBVIOUS
<1> USE EditorAssumption DEF LockInv, EditIdle
<1>1. CASE UNCHANGED <<edit, lock, plan>>
  BY <1>1
<1>2. CASE UNCHANGED planVars
  BY <1>1, <1>2 DEF planVars
<1>3. ASSUME NEW from, NEW xs, Create(from, xs) PROVE LockInv'
  BY <1>3 DEF Create
<1>4. ASSUME NEW r \in Resizers, NEW from, NEW xs, ResizeStarts(r, from, xs) PROVE LockInv'
  BY <1>4, <1>1 DEF ResizeStarts
<1>5. ASSUME NEW r \in Resizers, ResizeDeletes(r) \/ ResizeWrites(r) \/ ResizeDies(r)
      PROVE  LockInv'
  BY <1>5, <1>1 DEF ResizeDeletes, ResizeWrites, ResizeDies, Free
<1>6. CASE Finalise \/ Discard
  BY <1>6 DEF Finalise, Discard, Free
<1>7. ASSUME NEW e \in Editors, NEW x \in lines, NEW n \in Units, EditStarts(e, x, n)
      PROVE  LockInv'
  BY <1>7 DEF EditStarts, EditLocks, Draft, Free
<1>8. ASSUME NEW e \in Editors, EditReads(e) PROVE LockInv'
  BY <1>8 DEF EditReads, Unlocks
<1>9. ASSUME NEW e \in Editors, EditWrites(e) PROVE LockInv'
  BY <1>9 DEF EditWrites, Unlocks
<1>10. ASSUME NEW e \in Editors, EditDies(e) PROVE LockInv'
  BY <1>10 DEF EditDies, Unlocks
<1>11. CASE PlanNext
  BY <1>11, <1>3, <1>4, <1>5, <1>6, <1>7, <1>8, <1>9, <1>10 DEF PlanNext
<1>12. CASE UNCHANGED vars
  BY <1>12, <1>2 DEF vars
<1> QED BY <1>2, <1>11, <1>12 DEF Next

Stays == plan.status = "final" /\ Resizing = {} =>
            lines' = lines /\ plan'.from = plan.from /\ plan'.status = "final"

LEMMA StaysStep == LockInv /\ [Next]_vars => Stays
<1> SUFFICES ASSUME LockInv, [Next]_vars, plan.status = "final", Resizing = {}
             PROVE  lines' = lines /\ plan'.from = plan.from /\ plan'.status = "final"
  BY DEF Stays
<1> USE DEF LockInv
<1>1. CASE UNCHANGED <<plan, lines>>
  BY <1>1
<1>2. CASE UNCHANGED planVars
  BY <1>1, <1>2 DEF planVars
<1>3. ~ \E from, xs : Create(from, xs)
  BY DEF Create
<1>4. ~ \E r, from, xs : ResizeStarts(r, from, xs)
  BY DEF ResizeStarts, ResizeReads, Draft
<1>5. ASSUME NEW r \in Resizers
      PROVE  ~(ResizeDeletes(r) \/ ResizeWrites(r) \/ ResizeDies(r))
  BY DEF ResizeDeletes, ResizeWrites, ResizeDies, Resizing
<1>6. ~Finalise
  BY DEF Finalise, Draft
<1>7. CASE Discard
  <2>1. plan' = [plan EXCEPT !.deleted = TRUE] /\ lines' = lines
    BY <1>7 DEF Discard
  <2> QED BY <2>1
<1>8. ASSUME NEW e \in Editors
      PROVE  edit[e].pc = "idle"
  OBVIOUS
<1>9. ASSUME NEW e \in Editors, NEW x, NEW n PROVE ~EditStarts(e, x, n)
  BY DEF EditStarts, EditLocks, Draft
<1>10. ASSUME NEW e \in Editors PROVE ~(EditReads(e) \/ EditWrites(e) \/ EditDies(e))
  BY <1>8 DEF EditReads, EditWrites, EditDies
<1>11. CASE PlanNext
  BY <1>11, <1>3, <1>4, <1>5, <1>6, <1>7, <1>9, <1>10 DEF PlanNext
<1>12. CASE UNCHANGED vars
  BY <1>12, <1>2 DEF vars
<1> QED BY <1>2, <1>11, <1>12 DEF Next

\* "A finalised plan is a record of a decision": whatever edits, syncs, role
\* changes and failures surround it, its lines and its source stay, as long as
\* no resize read it while it was a draft.
THEOREM FinalPlansStay == Spec => FinalStays
<1>1. LockInv /\ [Next]_vars => [Stays]_vars
  BY StaysStep
<1>2. [Stays]_vars <=>
        [plan.status = "final" /\ Resizing = {} =>
          lines' = lines /\ plan'.from = plan.from /\ plan'.status = "final"]_vars
  BY DEF Stays
<1> QED BY <1>1, <1>2, LockInit, LockStep, PTL DEF Spec, FinalStays

-----------------------------------------------------------------------------
(* Types of the stock.  What the sync and a request hold between two steps *)
(* is there when the next step reads it.                                   *)

SyncShape ==
    /\ sync.pc # "idle" => sync.shot \in Levels /\ sync.tally \in [Products -> Figures]
    /\ sync.pc = "upsert" =>
         sync.at \in Locations /\ (sync.saw = "confirmed" => place[sync.at] # Null)
    /\ sync.pc = "levels" =>
         /\ sync.at \in Locations /\ sync.role \in Roles /\ sync.left # {}
         /\ \A p \in sync.left : sync.shot[sync.at][p] # Null
    /\ sync.pc = "figures" => sync.read \in [Products -> Figures] /\ sync.left # {}

AskShape ==
    \A a \in Askers :
      /\ ask[a].pc # "idle" => ask[a].at \in Locations
      /\ ask[a].pc \in {"sum", "write"} => ask[a].left # {}
      /\ ask[a].pc = "write" => ask[a].sums \in [Products -> Nat]

StockInv == StockTypeOK /\ SyncShape /\ AskShape

\* The rows that nothing has been written to yet.
LEMMA StockIdle ==
    /\ SyncIdle \in SyncRows /\ AskIdle \in AskRows /\ Zero \in Figures
    /\ SyncIdle.pc = "idle" /\ AskIdle.pc = "idle"
  BY DEF SyncIdle, SyncRows, AskIdle, AskRows, Zero, Figures

LEMMA StockInvInit == Init => StockInv
<1> SUFFICES ASSUME StockInit PROVE StockInv
  BY DEF Init
<1> USE StockIdle
<1>1. store \in Levels
  BY StockAssumption DEF StockInit, Levels, Units
<1>2. level \in Levels
  BY DEF StockInit, Levels
<1>3. /\ place \in [Locations -> PlaceRows \cup {Null}] /\ figure \in [Products -> Figures]
      /\ sync \in SyncRows /\ ask \in [Askers -> AskRows]
      /\ answer \in [Locations -> Roles \cup {Null}] /\ overlap \in BOOLEAN /\ gone \subseteq Products
  BY DEF StockInit
<1>4. budget \in [changes : Nat, answers : Nat, faults : Nat,
                  plans : Nat, edits : Nat, resizes : Nat]
  BY StockAssumption DEF StockInit
<1>5. SyncShape /\ AskShape
  BY DEF StockInit, SyncShape, AskShape
<1> QED BY <1>1, <1>2, <1>3, <1>4, <1>5 DEF StockInv, StockTypeOK

\* Units held are a number of units, and so is their sum a number.
LEMMA TotalNat ==
  ASSUME IsFiniteSet(Locations), NEW held \in Levels, NEW role, NEW p \in Products
  PROVE  Total(held, role, p) \in Nat
<1> DEFINE S == {l \in Locations : place[l] # Null /\ place[l].role = role}
           f == [l \in Locations |-> UnitsAt(held, l, p)]
<1>1. IsFiniteSet(S)
  BY FS_Subset
<1>2. \A l \in S : f[l] \in Nat
  BY StockAssumption DEF UnitsAt, Levels, Units
<1>3. Total(held, role, p) = SumFunctionOnSet(f, S)
  BY DEF Total
<1> HIDE DEF S, f
<1> QED BY <1>1, <1>2, <1>3, SumNat


Budget == [changes : Nat, answers : Nat, faults : Nat, plans : Nat, edits : Nat, resizes : Nat]

\* Units at a selling location are stock, units under way are on order.
LEMMA CountedStock ==
  ASSUME NEW f \in Figures, NEW role \in Roles, NEW n \in Nat
  PROVE  /\ Counted(f, role, n) \in Figures
         /\ Counted(f, role, n).stock = IF role = "sells" THEN f.stock + n ELSE f.stock
<1>1. CASE role = "sells"
  <2>1. Counted(f, role, n) = [f EXCEPT !.stock = f.stock + n]
    BY <1>1 DEF Counted
  <2> QED BY <1>1, <2>1 DEF Figures
<1>2. CASE role = "enroute"
  <2>1. Counted(f, role, n) = [f EXCEPT !.onOrder = f.onOrder + n]
    BY <1>2 DEF Counted
  <2> QED BY <1>2, <2>1 DEF Figures
<1>3. CASE role \notin {"sells", "enroute"}
  <2>1. Counted(f, role, n) = f
    BY <1>3 DEF Counted
  <2> QED BY <1>3, <2>1
<1> QED BY <1>1, <1>2, <1>3

\* Each step of the sync leaves a row the next step can read.
LEMMA SyncShapeStep ==
  ASSUME StockInv,
         \/ SyncFetches \/ SyncReadsStatus \/ SyncUpserts \/ SyncWritesLevel
         \/ SyncReadsFigures \/ SyncWritesFigure \/ SyncDies
  PROVE  sync' \in SyncRows /\ SyncShape'
<1> USE StockIdle
<1>1. sync \in SyncRows
  BY DEF StockInv, StockTypeOK
<1>2. CASE sync' = SyncIdle
  BY <1>2 DEF SyncShape
<1>3. CASE SyncFetches
  <2>1. sync' = [SyncIdle EXCEPT !.pc = "locations", !.shot = store, !.todo = Locations,
                                !.tally = [p \in Products |-> Zero]]
    BY <1>3 DEF SyncFetches
  <2>2. store \in Levels /\ [p \in Products |-> Zero] \in [Products -> Figures]
    BY DEF StockInv, StockTypeOK
  <2>3. sync' \in SyncRows /\ sync'.pc = "locations" /\ sync'.shot = store
        /\ sync'.tally = [p \in Products |-> Zero]
    BY <2>1, <2>2 DEF SyncRows, SyncIdle
  <2> QED BY <2>2, <2>3 DEF SyncShape
<1>4. CASE SyncReadsStatus
  <2> DEFINE l == CHOOSE l \in sync.todo : TRUE
             saw == IF place[l] = Null THEN "new" ELSE place[l].status
  <2>1. /\ sync.pc = "locations" /\ sync.todo # {} /\ place' = place
        /\ sync' = [sync EXCEPT !.pc = "upsert", !.at = l, !.todo = @ \ {l}, !.saw = saw]
    BY <1>4 DEF SyncReadsStatus
  <2>2. l \in Locations
    BY <1>1, <2>1 DEF SyncRows
  <2>3. saw \in {"new", "assumed", "confirmed"} /\ (saw = "confirmed" => place[l] # Null)
    BY <2>2 DEF StockInv, StockTypeOK, PlaceRows
  <2> HIDE DEF l, saw
  <2>4. sync' \in SyncRows /\ sync'.pc = "upsert" /\ sync'.at = l /\ sync'.saw = saw
        /\ sync'.shot = sync.shot /\ sync'.tally = sync.tally
    BY <1>1, <2>1, <2>2, <2>3 DEF SyncRows
  <2> QED BY <2>1, <2>2, <2>3, <2>4 DEF StockInv, SyncShape
<1>5. CASE SyncUpserts
  <2> DEFINE row == RoleData(sync.at, sync.saw)
             sold == {p \in Products : sync.shot[sync.at][p] # Null}
             pc == IF sold = {} THEN "locations" ELSE "levels"
  <2>1. /\ sync.pc = "upsert"
        /\ sync' = [sync EXCEPT !.pc = pc, !.role = row.role, !.left = sold]
    BY <1>5 DEF SyncUpserts
  <2>2. row \in PlaceRows /\ row.role \in Roles
    <3>1. sync.at \in Locations /\ (sync.saw = "confirmed" => place[sync.at] \in PlaceRows)
      BY <2>1 DEF StockInv, SyncShape, StockTypeOK
    <3>2. Guess[sync.at] \in Roles
      BY <3>1, StockAssumption DEF Roles
    <3> QED BY <3>1, <3>2 DEF RoleData, PlaceRows
  <2>3. sync.at \in Locations /\ sync.shot \in Levels /\ sync.tally \in [Products -> Figures]
    BY <2>1 DEF StockInv, SyncShape
  <2>4. sold \subseteq Products /\ \A p \in sold : sync.shot[sync.at][p] # Null
    OBVIOUS
  <2>5. pc \in {"locations", "levels"} /\ (pc = "levels" => sold # {})
    OBVIOUS
  <2> HIDE DEF row, sold, pc
  <2>6. sync' \in SyncRows /\ sync'.pc = pc /\ sync'.at = sync.at /\ sync'.role = row.role
        /\ sync'.left = sold /\ sync'.shot = sync.shot /\ sync'.tally = sync.tally
    BY <1>1, <2>1, <2>2, <2>4, <2>5 DEF SyncRows
  <2> QED BY <2>2, <2>3, <2>4, <2>5, <2>6 DEF SyncShape
<1>6. CASE SyncWritesLevel
  <2> DEFINE l == sync.at
             p == CHOOSE p \in sync.left : TRUE
             n == sync.shot[l][p]
             pc == IF sync.left = {p} THEN "locations" ELSE "levels"
             f == Counted(sync.tally[p], sync.role, n)
  <2>1. /\ sync.pc = "levels"
        /\ sync' = [sync EXCEPT !.left = @ \ {p}, !.seen = sync.seen \cup {p},
                                !.tally[p] = f, !.pc = pc]
    BY <1>6 DEF SyncWritesLevel, Seen
  <2>2. /\ sync.shot \in Levels /\ sync.tally \in [Products -> Figures]
        /\ l \in Locations /\ sync.role \in Roles /\ sync.left # {}
        /\ \A q \in sync.left : sync.shot[l][q] # Null
    BY <2>1 DEF StockInv, SyncShape
  <2>3. p \in sync.left /\ p \in Products
    BY <1>1, <2>2 DEF SyncRows
  <2>4. n \in Nat
    BY <2>2, <2>3, StockAssumption DEF Levels, Units
  <2>5. f \in Figures
    BY <2>2, <2>3, <2>4, CountedStock
  <2>6. pc \in {"locations", "levels"} /\ (pc = "levels" => sync.left \ {p} # {})
    BY <2>3
  <2> HIDE DEF p, n, f, pc
  <2>7. [sync.tally EXCEPT ![p] = f] \in [Products -> Figures]
    BY <2>2, <2>5
  <2>8. /\ sync' \in SyncRows /\ sync'.pc = pc /\ sync'.at = sync.at /\ sync'.role = sync.role
        /\ sync'.left = sync.left \ {p} /\ sync'.shot = sync.shot
        /\ sync'.tally = [sync.tally EXCEPT ![p] = f]
    BY <1>1, <2>1, <2>3, <2>6, <2>7 DEF SyncRows
  <2> QED BY <2>2, <2>6, <2>7, <2>8 DEF SyncShape
<1>7. CASE SyncReadsFigures
  <2>1. sync' = SyncIdle \/ /\ sync.seen # {} /\ sync.pc = "locations"
                            /\ sync' = [sync EXCEPT !.pc = "figures", !.left = sync.seen,
                                                    !.read = figure]
    BY <1>7 DEF SyncReadsFigures
  <2>2. figure \in [Products -> Figures]
    BY DEF StockInv, StockTypeOK
  <2>3. ASSUME sync' = [sync EXCEPT !.pc = "figures", !.left = sync.seen, !.read = figure],
               sync.seen # {}, sync.pc = "locations"
        PROVE  sync' \in SyncRows /\ SyncShape'
    <3>1. /\ sync' \in SyncRows /\ sync'.pc = "figures" /\ sync'.left = sync.seen
          /\ sync'.read = figure /\ sync'.shot = sync.shot /\ sync'.tally = sync.tally
      BY <1>1, <2>2, <2>3 DEF SyncRows
    <3>2. sync.shot \in Levels /\ sync.tally \in [Products -> Figures]
      BY <2>3 DEF StockInv, SyncShape
    <3> QED BY <2>2, <2>3, <3>1, <3>2 DEF SyncShape
  <2> QED BY <1>2, <2>1, <2>3
<1>8. CASE SyncWritesFigure
  <2> DEFINE p == CHOOSE p \in sync.left : TRUE
  <2>1. sync' = IF sync.left = {p} THEN SyncIdle ELSE [sync EXCEPT !.left = @ \ {p}]
    BY <1>8 DEF SyncWritesFigure
  <2>2. sync.pc = "figures" /\ sync.left # {} /\ p \in sync.left
    BY <1>8 DEF SyncWritesFigure, StockInv, SyncShape
  <2> HIDE DEF p
  <2>3. ASSUME sync.left # {p}, sync' = [sync EXCEPT !.left = @ \ {p}]
        PROVE  sync' \in SyncRows /\ SyncShape'
    <3>1. /\ sync' \in SyncRows /\ sync'.pc = "figures" /\ sync'.left = sync.left \ {p}
          /\ sync'.read = sync.read /\ sync'.shot = sync.shot /\ sync'.tally = sync.tally
      BY <1>1, <2>2, <2>3 DEF SyncRows
    <3> QED BY <2>2, <2>3, <3>1 DEF StockInv, SyncShape
  <2> QED BY <1>2, <2>1, <2>3
<1>9. SyncDies => sync' = SyncIdle
  BY DEF SyncDies
<1> QED BY <1>2, <1>3, <1>4, <1>5, <1>6, <1>7, <1>8, <1>9

\* The tables stay tables through the steps of the sync.
LEMMA SyncTypes ==
  ASSUME StockInv,
         \/ SyncFetches \/ SyncReadsStatus \/ SyncUpserts \/ SyncWritesLevel
         \/ SyncReadsFigures \/ SyncWritesFigure \/ SyncDies
  PROVE  StockInv'
<1>1. sync' \in SyncRows /\ SyncShape'
  BY SyncShapeStep
<1>2. AskShape' /\ ask' \in [Askers -> AskRows] /\ store' \in Levels /\ gone' \subseteq Products
  <2>1. UNCHANGED <<ask, store, gone>>
    BY DEF SyncFetches, SyncReadsStatus, SyncUpserts, SyncWritesLevel, SyncReadsFigures,
       SyncWritesFigure, SyncDies
  <2> QED BY <2>1 DEF StockInv, StockTypeOK, AskShape
<1>3. overlap' \in BOOLEAN
  BY DEF StockInv, StockTypeOK, Asking, SyncFetches, SyncReadsStatus, SyncUpserts,
     SyncWritesLevel, SyncReadsFigures, SyncWritesFigure, SyncDies
<1>4. budget' \in Budget
  <2>1. budget \in Budget
    BY DEF StockInv, StockTypeOK, Budget
  <2>2. CASE SyncDies
    BY <2>1, <2>2 DEF SyncDies, Budget
  <2>3. CASE UNCHANGED budget
    BY <2>1, <2>3
  <2> QED BY <2>2, <2>3 DEF SyncFetches, SyncReadsStatus, SyncUpserts, SyncWritesLevel,
             SyncReadsFigures, SyncWritesFigure
<1>5. /\ place' \in [Locations -> PlaceRows \cup {Null}]
      /\ answer' \in [Locations -> Roles \cup {Null}]
  <2>1. CASE SyncUpserts
    <3>1. sync.at \in Locations /\ (sync.saw = "confirmed" => place[sync.at] \in PlaceRows)
      BY <2>1 DEF SyncUpserts, StockInv, SyncShape, StockTypeOK
    <3>2. Guess[sync.at] \in Roles
      BY <3>1, StockAssumption DEF Roles
    <3>3. RoleData(sync.at, sync.saw) \in PlaceRows
      BY <3>1, <3>2 DEF RoleData, PlaceRows
    <3> QED BY <2>1, <3>1, <3>3 DEF SyncUpserts, StockInv, StockTypeOK
  <2>2. CASE UNCHANGED <<place, answer>>
    BY <2>2 DEF StockInv, StockTypeOK
  <2> QED BY <2>1, <2>2 DEF SyncFetches, SyncReadsStatus, SyncWritesLevel,
             SyncReadsFigures, SyncWritesFigure, SyncDies
<1>6. level' \in Levels
  <2>1. CASE SyncWritesLevel
    <3> DEFINE p == CHOOSE p \in sync.left : TRUE
               n == sync.shot[sync.at][p]
    <3>1. level' = [level EXCEPT ![sync.at][p] = n]
      BY <2>1 DEF SyncWritesLevel
    <3>2. sync.at \in Locations /\ sync.shot \in Levels /\ sync.left # {}
      BY <2>1 DEF SyncWritesLevel, StockInv, SyncShape
    <3>3. p \in Products
      BY <3>2 DEF StockInv, StockTypeOK, SyncRows
    <3>4. n \in Units \cup {Null} /\ level \in Levels
      BY <3>2, <3>3 DEF Levels, StockInv, StockTypeOK
    <3> HIDE DEF p, n
    <3> QED BY <3>1, <3>2, <3>3, <3>4 DEF Levels
  <2>2. CASE UNCHANGED level
    BY <2>2 DEF StockInv, StockTypeOK
  <2> QED BY <2>1, <2>2 DEF SyncFetches, SyncReadsStatus, SyncUpserts,
             SyncReadsFigures, SyncWritesFigure, SyncDies
<1>7. figure' \in [Products -> Figures]
  <2>1. CASE SyncWritesFigure
    <3> DEFINE p == CHOOSE p \in sync.left : TRUE
    <3>1. figure' = figure \/ figure' = [figure EXCEPT ![p] = sync.tally[p]]
      BY <2>1 DEF SyncWritesFigure
    <3>2. sync.tally \in [Products -> Figures] /\ sync.left # {}
      BY <2>1 DEF SyncWritesFigure, StockInv, SyncShape
    <3>3. p \in Products
      BY <3>2 DEF StockInv, StockTypeOK, SyncRows
    <3> HIDE DEF p
    <3> QED BY <3>1, <3>2, <3>3 DEF StockInv, StockTypeOK
  <2>2. CASE UNCHANGED figure
    BY <2>2 DEF StockInv, StockTypeOK
  <2> QED BY <2>1, <2>2 DEF SyncFetches, SyncReadsStatus, SyncUpserts, SyncWritesLevel,
             SyncReadsFigures, SyncDies
<1> QED BY <1>1, <1>2, <1>3, <1>4, <1>5, <1>6, <1>7 DEF StockInv, StockTypeOK, Budget


\* So do the steps of a member's answer.
LEMMA AskTypes ==
  ASSUME StockInv, IsFiniteSet(Locations), NEW a \in Askers,
         \/ \E l \in Locations, r \in Asked : Confirms(a, l, r)
         \/ FindsAffected(a) \/ SumsLevels(a) \/ WritesStock(a) \/ AskDies(a)
  PROVE  StockInv'
<1> USE StockIdle
<1>0. /\ ask \in [Askers -> AskRows] /\ ask[a] \in AskRows /\ sync \in SyncRows
      /\ place \in [Locations -> PlaceRows \cup {Null}] /\ figure \in [Products -> Figures]
      /\ answer \in [Locations -> Roles \cup {Null}] /\ budget \in Budget
      /\ overlap \in BOOLEAN /\ level \in Levels
  BY DEF StockInv, StockTypeOK, Budget
<1>1. UNCHANGED <<store, level, sync, gone>>
  BY DEF Confirms, FindsAffected, SumsLevels, WritesStock, AskDies
<1>2. /\ place' \in [Locations -> PlaceRows \cup {Null}]
      /\ answer' \in [Locations -> Roles \cup {Null}]
      /\ \A l \in Locations : place[l] # Null => place'[l] # Null
  <2>1. ASSUME NEW l \in Locations, NEW r \in Asked, Confirms(a, l, r)
        PROVE  /\ place' \in [Locations -> PlaceRows \cup {Null}]
               /\ answer' \in [Locations -> Roles \cup {Null}]
               /\ \A k \in Locations : place[k] # Null => place'[k] # Null
    <3>1. r \in Roles /\ [role |-> r, status |-> "confirmed"] \in PlaceRows
      BY StockAssumption DEF Roles, PlaceRows
    <3>2. [role |-> r, status |-> "confirmed"] # Null
      BY <3>1, NullAssumption
    <3> DEFINE row == [role |-> r, status |-> "confirmed"]
    <3>3. place' = [place EXCEPT ![l] = row] /\ answer' = [answer EXCEPT ![l] = r]
      BY <2>1 DEF Confirms
    <3> HIDE DEF row
    <3> QED BY <1>0, <3>1, <3>2, <3>3 DEF row
  <2> QED BY <1>0, <2>1 DEF FindsAffected, SumsLevels, WritesStock, AskDies
<1>3. SyncShape'
  BY <1>1, <1>2 DEF StockInv, SyncShape
<1>4. overlap' \in BOOLEAN
  BY <1>0 DEF Asking, Confirms, FindsAffected, SumsLevels, WritesStock, AskDies
<1>5. budget' \in Budget
  <2>1. \/ UNCHANGED budget
        \/ budget.answers > 0 /\ budget' = [budget EXCEPT !.answers = @ - 1]
        \/ budget.faults > 0 /\ budget' = [budget EXCEPT !.faults = @ - 1]
    BY DEF Confirms, FindsAffected, SumsLevels, WritesStock, AskDies
  <2> QED BY <1>0, <2>1 DEF Budget
<1>6. ask' \in [Askers -> AskRows] /\ AskShape'
  <2>1. ASSUME NEW new \in AskRows, ask' = [ask EXCEPT ![a] = new],
               new.pc # "idle" => new.at \in Locations,
               new.pc \in {"sum", "write"} => new.left # {},
               new.pc = "write" => new.sums \in [Products -> Nat]
        PROVE  ask' \in [Askers -> AskRows] /\ AskShape'
    BY <1>0, <2>1 DEF StockInv, AskShape
  <2>2. CASE ask' = [ask EXCEPT ![a] = AskIdle]
    BY <2>1, <2>2
  <2>3. ASSUME NEW l \in Locations, NEW r \in Asked, Confirms(a, l, r)
        PROVE  ask' \in [Askers -> AskRows] /\ AskShape'
    <3> DEFINE new == [AskIdle EXCEPT !.pc = "affected", !.at = l]
    <3>1. ask' = [ask EXCEPT ![a] = new]
      BY <2>3 DEF Confirms
    <3>2. new \in AskRows /\ new.pc = "affected" /\ new.at = l
      BY DEF AskIdle, AskRows
    <3> HIDE DEF new
    <3> QED BY <2>1, <3>1, <3>2
  <2>4. CASE FindsAffected(a)
    <3> DEFINE ps == Affected(ask[a].at)
               new == [ask[a] EXCEPT !.pc = "sum", !.left = ps]
    <3>1. ask' = [ask EXCEPT ![a] = IF ps = {} THEN AskIdle ELSE new]
      BY <1>0, <2>4 DEF FindsAffected
    <3>2. ps \subseteq Products
      BY DEF Affected
    <3>3. ask[a].at \in Locations
      BY <2>4 DEF FindsAffected, StockInv, AskShape
    <3> HIDE DEF ps
    <3>4. new \in AskRows /\ new.pc = "sum" /\ new.at = ask[a].at /\ new.left = ps
      BY <1>0, <3>2 DEF AskRows
    <3> HIDE DEF new
    <3>5. CASE ps = {}
      BY <2>2, <3>1, <3>5
    <3>6. CASE ps # {}
      BY <2>1, <3>1, <3>3, <3>4, <3>6
    <3> QED BY <3>5, <3>6
  <2>5. CASE SumsLevels(a)
    <3> DEFINE sums == [p \in Products |-> Sellable(p)]
               new == [ask[a] EXCEPT !.pc = "write", !.sums = sums]
    <3>1. ask' = [ask EXCEPT ![a] = new]
      BY <1>0, <2>5 DEF SumsLevels
    <3>2. sums \in [Products -> Nat]
      BY <1>0, TotalNat DEF Sellable
    <3>3. ask[a].at \in Locations /\ ask[a].left # {}
      BY <2>5 DEF SumsLevels, StockInv, AskShape
    <3> HIDE DEF sums
    <3>4. new \in AskRows /\ new.pc = "write" /\ new.at = ask[a].at
          /\ new.left = ask[a].left /\ new.sums = sums
      BY <1>0, <3>2 DEF AskRows
    <3> HIDE DEF new
    <3> QED BY <2>1, <3>1, <3>2, <3>3, <3>4
  <2>6. CASE WritesStock(a)
    <3> DEFINE p == CHOOSE p \in ask[a].left : TRUE
               new == [ask[a] EXCEPT !.left = @ \ {p}]
    <3>1. ask' = [ask EXCEPT ![a] = IF ask[a].left = {p} THEN AskIdle ELSE new]
      BY <2>6 DEF WritesStock
    <3>2. /\ ask[a].at \in Locations /\ ask[a].left # {} /\ ask[a].pc = "write"
          /\ ask[a].sums \in [Products -> Nat] /\ p \in ask[a].left
      BY <2>6 DEF WritesStock, StockInv, AskShape
    <3> HIDE DEF p
    <3>3. new \in AskRows /\ new.pc = "write" /\ new.at = ask[a].at
          /\ new.left = ask[a].left \ {p} /\ new.sums = ask[a].sums
      BY <1>0, <3>2 DEF AskRows
    <3> HIDE DEF new
    <3>4. CASE ask[a].left = {p}
      BY <2>2, <3>1, <3>4
    <3>5. CASE ask[a].left # {p}
      BY <2>1, <3>1, <3>2, <3>3, <3>5
    <3> QED BY <3>4, <3>5
  <2>7. AskDies(a) => ask' = [ask EXCEPT ![a] = AskIdle]
    BY DEF AskDies
  <2> QED BY <2>2, <2>3, <2>4, <2>5, <2>6, <2>7
<1>7. figure' \in [Products -> Figures]
  <2>1. CASE WritesStock(a)
    <3> DEFINE p == CHOOSE p \in ask[a].left : TRUE
    <3>1. figure' = [figure EXCEPT ![p].stock = ask[a].sums[p]]
      BY <2>1 DEF WritesStock
    <3>2. ask[a].left # {} /\ ask[a].sums \in [Products -> Nat]
      BY <2>1 DEF WritesStock, StockInv, AskShape
    <3>3. p \in Products
      BY <1>0, <3>2 DEF AskRows
    <3> HIDE DEF p
    <3>4. figure[p] \in Figures /\ ask[a].sums[p] \in Nat
      BY <1>0, <3>2, <3>3
    <3>5. [figure[p] EXCEPT !.stock = ask[a].sums[p]] \in Figures
      BY <3>4 DEF Figures
    <3> QED BY <1>0, <3>1, <3>3, <3>5
  <2> QED BY <1>0, <2>1 DEF Confirms, FindsAffected, SumsLevels, AskDies
<1> QED BY <1>1, <1>2, <1>3, <1>4, <1>5, <1>6, <1>7 DEF StockInv, StockTypeOK, Budget

\* And the store moving its own levels.
LEMMA StoreTypes ==
  ASSUME StockInv, NEW l \in Locations, NEW p \in Products, NEW n \in Units \cup {Null},
         StoreMoves(l, p, n)
  PROVE  StockInv'
<1>1. store' \in Levels
  BY DEF StoreMoves, Levels, StockInv, StockTypeOK
<1>2. gone' \subseteq Products
  BY DEF StoreMoves, StockInv, StockTypeOK
<1>3. budget' \in Budget
  BY DEF StoreMoves, StockInv, StockTypeOK, Budget
<1>4. UNCHANGED <<place, level, figure, sync, ask, answer, overlap>>
  BY DEF StoreMoves
<1> QED BY <1>1, <1>2, <1>3, <1>4 DEF StockInv, StockTypeOK, SyncShape, AskShape, Budget

LEMMA StockTypes ==
  ASSUME StockInv, IsFiniteSet(Locations), StockNext
  PROVE  StockInv'
  BY SyncTypes, AskTypes, StoreTypes DEF StockNext

-----------------------------------------------------------------------------
(* Types of the plan.                                                      *)

Plans == [status : {"none", "draft", "final"}, deleted : BOOLEAN,
          from : Locations \cup {Null}]

PlanTypeOK ==
    /\ plan \in Plans /\ lines \subseteq Lines /\ lock \in Editors \cup {Null}
    /\ edit \in [Editors -> EditRows] /\ resize \in [Resizers -> ResizeRows]
    /\ doubled \in BOOLEAN

LockHeld == \A e \in Editors : (lock = e) <=> (edit[e].pc # "idle")

PlanTypes == StockInv /\ PlanTypeOK /\ LockHeld

\* A use takes one of what is left of its kind.
LEMMA UsesBudget ==
  ASSUME budget \in Budget,
         NEW kind \in {"plans", "edits", "resizes", "faults"}, Uses(kind)
  PROVE  budget' \in Budget
<1>1. CASE kind = "plans"
  BY <1>1 DEF Uses, Budget
<1>2. CASE kind = "edits"
  BY <1>2 DEF Uses, Budget
<1>3. CASE kind = "resizes"
  BY <1>3 DEF Uses, Budget
<1>4. CASE kind = "faults"
  BY <1>4 DEF Uses, Budget
<1> QED BY <1>1, <1>2, <1>3, <1>4

\* The lines of a proposal are lines, of its author.
LEMMA SizedLines ==
  ASSUME NEW who \in Resizers \cup {Created}, NEW from \in Locations,
         NEW xs \in Sized(who, from)
  PROVE  xs \subseteq Lines /\ \A x \in xs : x.by = who
<1> DEFINE slots == Products \X (With("sells") \ {from})
<1>1. PICK f \in [slots -> Units] :
        xs = {[by |-> who, product |-> s[1], to |-> s[2], qty |-> f[s]] :
                s \in {s \in slots : f[s] > 0}}
  BY DEF Sized
<1>2. SUFFICES ASSUME NEW s \in slots
               PROVE  LET x == [by |-> who, product |-> s[1], to |-> s[2], qty |-> f[s]]
                      IN  x \in Lines /\ x.by = who
  BY <1>1
<1>3. s[1] \in Products /\ s[2] \in Locations /\ f[s] \in Units
  BY DEF With
<1> QED BY <1>3 DEF Lines

\* What a step of the plan leaves of the stock.
LEMMA PlanLeavesStock ==
  ASSUME StockInv, NoStockStep, budget' \in Budget
  PROVE  StockInv'
<1>1. StockTypeOK'
  BY DEF StockInv, StockTypeOK, NoStockStep, Budget
<1>2. SyncShape' /\ AskShape'
  BY DEF StockInv, SyncShape, AskShape, NoStockStep
<1> QED BY <1>1, <1>2 DEF StockInv

\* The row of a line that an edit sets.
LEMMA SetQty ==
  ASSUME NEW x \in Lines, NEW n \in Units
  PROVE  /\ [x EXCEPT !.qty = n] \in Lines
         /\ Id([x EXCEPT !.qty = n]) = Id(x)
         /\ [x EXCEPT !.qty = n].product = x.product
         /\ [x EXCEPT !.qty = n].qty = n
  BY DEF Lines, Id

LEMMA PlanTypesStep ==
  ASSUME PlanTypes, PlanNext
  PROVE  PlanTypes'
<1> USE EditorAssumption
<1>0. /\ StockInv /\ budget \in Budget /\ PlanTypeOK /\ LockHeld
      /\ plan \in Plans /\ lines \subseteq Lines
      /\ edit \in [Editors -> EditRows] /\ resize \in [Resizers -> ResizeRows]
  BY DEF PlanTypes, PlanTypeOK, StockInv, StockTypeOK, Budget
<1>1. ASSUME NEW from \in Locations, NEW xs \in Sized(Created, from), Create(from, xs)
      PROVE  PlanTypes'
  <2>1. budget' \in Budget /\ NoStockStep
    BY <1>0, <1>1, UsesBudget DEF Create
  <2>2. plan' \in Plans /\ lines' \subseteq Lines
    BY <1>1, SizedLines DEF Create, Plans
  <2>3. UNCHANGED <<lock, edit, resize, doubled>>
    BY <1>1 DEF Create
  <2> QED BY <1>0, <2>1, <2>2, <2>3, PlanLeavesStock DEF PlanTypes, PlanTypeOK, LockHeld
<1>2. ASSUME NEW r \in Resizers, NEW from \in Locations, NEW xs \in Sized(r, from),
             ResizeStarts(r, from, xs)
      PROVE  PlanTypes'
  <2>1. budget' \in Budget /\ NoStockStep
    BY <1>0, <1>2, UsesBudget DEF ResizeStarts
  <2> DEFINE row == [pc |-> "delete", from |-> from, lines |-> xs]
  <2>2. row \in ResizeRows
    BY SizedLines DEF ResizeRows
  <2>3. resize' = [resize EXCEPT ![r] = row]
    BY <1>2 DEF ResizeStarts
  <2> HIDE DEF row
  <2>4. UNCHANGED <<plan, lines, lock, edit>> /\ doubled' \in BOOLEAN
    BY <1>2, <1>0 DEF ResizeStarts, PlanTypeOK
  <2> QED BY <1>0, <2>1, <2>2, <2>3, <2>4, PlanLeavesStock DEF PlanTypes, PlanTypeOK, LockHeld
<1>3. ASSUME NEW r \in Resizers, ResizeDeletes(r) \/ ResizeWrites(r) \/ ResizeDies(r)
      PROVE  PlanTypes'
  <2>1. budget' \in Budget /\ NoStockStep
    BY <1>0, <1>3, UsesBudget DEF ResizeDeletes, ResizeWrites, ResizeDies
  <2>2. resize[r] \in ResizeRows
    BY <1>0
  <2>3. [pc |-> "done", from |-> Null, lines |-> {}] \in ResizeRows
    BY DEF ResizeRows
  <2>4. [resize[r] EXCEPT !.pc = "write"] \in ResizeRows
    BY <2>2 DEF ResizeRows
  <2>5. resize' \in [Resizers -> ResizeRows]
    BY <1>0, <1>3, <2>3, <2>4 DEF ResizeDeletes, ResizeWrites, ResizeDies
  <2>6. lines' \subseteq Lines
    BY <1>0, <1>3, <2>2 DEF ResizeDeletes, ResizeWrites, ResizeDies, LinesKept, ResizeRows
  <2>7. plan' \in Plans
    BY <1>0, <1>3, <2>2 DEF ResizeDeletes, ResizeWrites, ResizeDies, ResizeRows, Plans
  <2>8. UNCHANGED <<lock, edit, doubled>>
    BY <1>3 DEF ResizeDeletes, ResizeWrites, ResizeDies
  <2> QED BY <1>0, <2>1, <2>5, <2>6, <2>7, <2>8, PlanLeavesStock
          DEF PlanTypes, PlanTypeOK, LockHeld
<1>4. CASE Finalise \/ Discard
  <2>1. budget' \in Budget /\ NoStockStep
    BY <1>0, <1>4 DEF Finalise, Discard
  <2>2. plan' \in Plans
    BY <1>0, <1>4 DEF Finalise, Discard, Plans
  <2>3. UNCHANGED <<lines, lock, edit, resize, doubled>>
    BY <1>4 DEF Finalise, Discard
  <2> QED BY <1>0, <2>1, <2>2, <2>3, PlanLeavesStock DEF PlanTypes, PlanTypeOK, LockHeld
<1>5. ASSUME NEW e \in Editors, NEW x \in lines, NEW n \in Units, EditStarts(e, x, n)
      PROVE  PlanTypes'
  <2>1. budget' \in Budget /\ NoStockStep
    BY <1>0, <1>5, UsesBudget DEF EditStarts
  <2> DEFINE row == [pc |-> "read", id |-> Id(x), qty |-> n]
  <2>2. row \in EditRows /\ row.pc # "idle"
    BY <1>0 DEF EditRows, Id, Ids, Lines
  <2>3. edit' = [edit EXCEPT ![e] = row] /\ lock' = e /\ lock = Null
    BY <1>5 DEF EditStarts, EditLocks, Free
  <2> HIDE DEF row
  <2>4. UNCHANGED <<plan, lines, resize, doubled>>
    BY <1>5 DEF EditStarts
  <2>5. edit' \in [Editors -> EditRows] /\ LockHeld'
    BY <1>0, <2>2, <2>3 DEF LockHeld
  <2> QED BY <1>0, <2>1, <2>3, <2>4, <2>5, PlanLeavesStock DEF PlanTypes, PlanTypeOK
<1>6. ASSUME NEW e \in Editors, EditReads(e) \/ EditWrites(e) \/ EditDies(e)
      PROVE  PlanTypes'
  <2>1. budget' \in Budget /\ NoStockStep
    BY <1>0, <1>6, UsesBudget DEF EditReads, EditWrites, EditDies
  <2>2. edit[e] \in EditRows /\ edit[e].pc # "idle" /\ edit[e].qty \in Units /\ lock = e
    BY <1>0, <1>6 DEF EditReads, EditWrites, EditDies, LockHeld, EditRows
  <2>3. EditIdle \in EditRows /\ EditIdle.pc = "idle"
    BY StockAssumption DEF EditIdle, EditRows, Units
  <2> DEFINE on == [edit[e] EXCEPT !.pc = "write"]
  <2>4. on \in EditRows /\ on.pc = "write"
    BY <2>2 DEF EditRows
  <2>5. \/ lock' = Null /\ edit' = [edit EXCEPT ![e] = EditIdle]
        \/ lock' = lock /\ edit' = [edit EXCEPT ![e] = on]
    BY <1>0, <1>6, Zenon DEF EditReads, EditWrites, EditDies, Unlocks
  <2> HIDE DEF on
  <2>6. edit' \in [Editors -> EditRows] /\ LockHeld' /\ lock' \in Editors \cup {Null}
    BY <1>0, <2>2, <2>3, <2>4, <2>5 DEF LockHeld
  <2>7. lines' \subseteq Lines
    <3>1. CASE EditWrites(e)
      BY <1>0, <2>2, <3>1, SetQty DEF EditWrites
    <3> QED BY <1>0, <1>6, <3>1 DEF EditReads, EditDies
  <2>8. UNCHANGED <<plan, resize, doubled>>
    BY <1>6 DEF EditReads, EditWrites, EditDies
  <2> QED BY <1>0, <2>1, <2>6, <2>7, <2>8, PlanLeavesStock DEF PlanTypes, PlanTypeOK
<1> QED BY <1>1, <1>2, <1>3, <1>4, <1>5, <1>6 DEF PlanNext

LEMMA PlanTypesInit == Init => PlanTypes
<1> SUFFICES ASSUME Init PROVE PlanTypes
  OBVIOUS
<1>1. EditIdle \in EditRows /\ EditIdle.pc = "idle"
  BY StockAssumption DEF EditIdle, EditRows, Units
<1>2. [pc |-> "idle", from |-> Null, lines |-> {}] \in ResizeRows
  BY DEF ResizeRows
<1>3. PlanTypeOK
  BY <1>1, <1>2 DEF Init, PlanTypeOK, Plans
<1>4. LockHeld
  BY <1>1, EditorAssumption DEF Init, LockHeld
<1> QED BY <1>3, <1>4, StockInvInit DEF PlanTypes

LEMMA PlanTypesNext ==
  ASSUME IsFiniteSet(Locations), PlanTypes, [Next]_vars
  PROVE  PlanTypes'
<1>1. CASE StockNext /\ UNCHANGED planVars
  BY <1>1, StockTypes DEF PlanTypes, PlanTypeOK, LockHeld, planVars
<1>2. CASE PlanNext
  BY <1>2, PlanTypesStep
<1>3. CASE UNCHANGED vars
  <2>1. NoStockStep /\ budget' = budget /\ UNCHANGED planVars
    BY <1>3 DEF vars, stockVars, NoStockStep
  <2>2. budget' \in Budget
    BY <2>1 DEF PlanTypes, StockInv, StockTypeOK, Budget
  <2> QED BY <2>1, <2>2, PlanLeavesStock DEF PlanTypes, PlanTypeOK, LockHeld, planVars
<1> QED BY <1>1, <1>2, <1>3 DEF Next

\* Every row the sync, a member or a plan leaves has the shape the next reader
\* expects, over any number of finite locations, requests and edits.
THEOREM TransferTypes ==
  ASSUME IsFiniteSet(Locations)
  PROVE  Spec => []TypeOK
<1>1. PlanTypes /\ [Next]_vars => PlanTypes'
  BY PlanTypesNext
<1>2. PlanTypes => TypeOK
  BY DEF PlanTypes, PlanTypeOK, LockHeld, Plans, StockInv, TypeOK
<1> QED BY <1>1, <1>2, PlanTypesInit, PTL DEF Spec

-----------------------------------------------------------------------------
(* What the branches are promised.                                         *)

Distinct(xs) == \A x, y \in xs : Id(x) = Id(y) => x = y
Modest(xs)   == \A p \in Products : Planned(xs, p) <= MaxUnits
Promise(xs)  == xs \subseteq Lines /\ IsFiniteSet(xs) /\ Distinct(xs) /\ Modest(xs)

OfProduct(xs, p) == {x \in xs : x.product = p}

LEMMA PlannedIs ==
  ASSUME NEW xs \in SUBSET Lines, IsFiniteSet(xs), NEW p \in Products,
         NEW f, \A x \in xs : f[x] = x.qty
  PROVE  /\ Planned(xs, p) = SumFunctionOnSet(f, OfProduct(xs, p))
         /\ IsFiniteSet(OfProduct(xs, p)) /\ \A x \in OfProduct(xs, p) : f[x] \in Nat
<1> DEFINE q == [x \in xs |-> x.qty]
           S == OfProduct(xs, p)
<1>1. IsFiniteSet(S) /\ S \subseteq xs
  BY FS_Subset DEF OfProduct
<1>2. \A x \in xs : x.qty \in Nat
  BY StockAssumption DEF Lines, Units
<1>3. \A x \in S : q[x] = f[x] /\ f[x] \in Nat
  BY <1>1, <1>2
<1>4. Planned(xs, p) = SumFunctionOnSet(q, S)
  BY DEF Planned, OfProduct
<1> HIDE DEF q, S
<1>5. SumFunctionOnSet(q, S) = SumFunctionOnSet(f, S)
  BY <1>1, <1>3, SumSame
<1> QED BY <1>1, <1>3, <1>4, <1>5 DEF S

\* Units planned are a number, and one line's units are part of them.
LEMMA PlannedRemove ==
  ASSUME NEW xs \in SUBSET Lines, IsFiniteSet(xs)
  PROVE  /\ \A p \in Products : Planned(xs, p) \in Nat
         /\ \A x \in xs : Planned(xs, x.product) = x.qty + Planned(xs \ {x}, x.product)
<1> DEFINE f == [x \in xs |-> x.qty]
<1>1. \A x \in xs : f[x] = x.qty
  OBVIOUS
<1> HIDE DEF f
<1>2. ASSUME NEW p \in Products PROVE Planned(xs, p) \in Nat
  BY <1>1, PlannedIs, SumNat
<1>3. ASSUME NEW x \in xs
      PROVE  Planned(xs, x.product) = x.qty + Planned(xs \ {x}, x.product)
  <2> DEFINE p == x.product
             S == OfProduct(xs, p)
             R == OfProduct(xs \ {x}, p)
  <2>1. p \in Products /\ x \in S /\ R = S \ {x}
    BY DEF Lines, OfProduct
  <2>2. IsFiniteSet(xs \ {x}) /\ xs \ {x} \in SUBSET Lines
    BY FS_Subset
  <2> HIDE DEF p
  <2>3. /\ Planned(xs, p) = SumFunctionOnSet(f, S) /\ IsFiniteSet(S) /\ \A y \in S : f[y] \in Nat
    BY <1>1, <2>1, PlannedIs
  <2>4. Planned(xs \ {x}, p) = SumFunctionOnSet(f, R)
    BY <1>1, <2>1, <2>2, PlannedIs
  <2> HIDE DEF S, R
  <2>5. SumFunctionOnSet(f, S) = f[x] + SumFunctionOnSet(f, S \ {x})
    BY <2>1, <2>3, SumRemove
  <2> QED BY <1>1, <2>1, <2>3, <2>4, <2>5 DEF p
<1> QED BY <1>2, <1>3

\* Lines of other products do not count.
LEMMA PlannedOther ==
  ASSUME NEW xs \in SUBSET Lines, IsFiniteSet(xs), NEW ys \in SUBSET Lines, IsFiniteSet(ys),
         NEW p \in Products, OfProduct(xs, p) = OfProduct(ys, p)
  PROVE  Planned(xs, p) = Planned(ys, p)
<1> DEFINE f == [x \in Lines |-> x.qty]
<1>1. \A x \in Lines : f[x] = x.qty
  OBVIOUS
<1> HIDE DEF f
<1> QED BY <1>1, PlannedIs

\* What sizing proposes can be promised.
LEMMA SizedPromise ==
  ASSUME IsFiniteSet(Products), IsFiniteSet(Locations), level \in Levels,
         NEW who \in Resizers \cup {Created}, NEW from \in Locations,
         NEW xs \in Sized(who, from)
  PROVE  Promise(xs)
<1> DEFINE slots == Products \X (With("sells") \ {from})
           line(f, s) == [by |-> who, product |-> s[1], to |-> s[2], qty |-> f[s]]
<1>1. PICK f \in [slots -> Units] : xs = {line(f, s) : s \in {s \in slots : f[s] > 0}}
  BY DEF Sized
<1>2. IsFiniteSet(xs)
  <2>1. IsFiniteSet(With("sells") \ {from})
    BY FS_Subset DEF With
  <2> HIDE DEF line
  <2>2. IsFiniteSet(slots)
    BY <2>1, FS_Product
  <2> DEFINE S == {s \in slots : f[s] > 0}
  <2>3. IsFiniteSet(S)
    BY <2>2, FS_Subset
  <2>4. xs = {line(f, s) : s \in S}
    BY <1>1
  <2> HIDE DEF S, slots
  <2> DEFINE map == [s \in S |-> line(f, s)]
  <2>5. map \in Surjection(S, xs)
    BY <2>4 DEF Surjection
  <2> HIDE DEF map
  <2> QED BY <2>3, <2>5, FS_Surjection
<1>3. Distinct(xs)
  BY <1>1 DEF Distinct, Id
<1>4. Modest(xs)
  <2> SUFFICES ASSUME NEW p \in Products PROVE Planned(xs, p) <= MaxUnits
    BY DEF Modest
  <2>1. Planned(xs, p) <= UnitsAt(level, from, p)
    BY DEF Sized
  <2>2. UnitsAt(level, from, p) \in Units
    BY StockAssumption DEF UnitsAt, Levels, Units
  <2>3. Planned(xs, p) \in Nat
    BY <1>2, SizedLines, PlannedRemove
  <2> QED BY <2>1, <2>2, <2>3, StockAssumption DEF Units
<1> QED BY <1>2, <1>3, <1>4, SizedLines DEF Promise

\* An edited line fits beside the others of its product.
LEMMA EditKeepsPromise ==
  ASSUME NEW xs \in SUBSET Lines, Promise(xs), NEW x \in xs, NEW n \in Units,
         n = 0 \/ n + Planned(xs \ {x}, x.product) <= MaxUnits,
         NEW ys, ys = {IF Id(y) = Id(x) THEN [y EXCEPT !.qty = n] ELSE y : y \in xs}
  PROVE  Promise(ys)
<1> DEFINE new  == [x EXCEPT !.qty = n]
           rest == xs \ {x}
<1>1. new \in Lines /\ Id(new) = Id(x) /\ new.product = x.product /\ new.qty = n
  BY SetQty
<1>2. x \in Lines /\ x.product \in Products /\ IsFiniteSet(xs) /\ Distinct(xs)
  BY DEF Promise, Lines
<1>3. \A y \in rest : Id(y) # Id(x)
  BY <1>2 DEF Distinct
<1>4. ys = rest \cup {new}
  BY <1>3
<1> HIDE DEF new
<1>5. new \notin rest
  BY <1>1, <1>3
<1>6. IsFiniteSet(rest) /\ rest \in SUBSET Lines
  BY <1>2, FS_Subset
<1> HIDE DEF rest
<1>7. IsFiniteSet(ys) /\ ys \in SUBSET Lines /\ ys \ {new} = rest /\ new \in ys
  BY <1>1, <1>4, <1>5, <1>6, FS_AddElement
<1>8. Distinct(ys)
  BY <1>1, <1>2, <1>3, <1>4 DEF Distinct, rest
<1>9. ASSUME NEW p \in Products PROVE Planned(ys, p) <= MaxUnits
  <2>1. Planned(xs, p) <= MaxUnits /\ Planned(xs, p) \in Nat
    BY <1>2, PlannedRemove DEF Promise, Modest
  <2>2. CASE p # x.product
    <3>1. OfProduct(ys, p) = OfProduct(xs, p)
      BY <1>1, <1>4, <2>2 DEF OfProduct, rest
    <3>2. Planned(ys, p) = Planned(xs, p)
      BY <1>2, <1>7, <3>1, PlannedOther
    <3> QED BY <2>1, <3>2
  <2>3. CASE p = x.product
    <3>1. Planned(ys, p) = n + Planned(rest, p)
      BY <1>1, <1>7, <2>3, PlannedRemove
    <3>2. Planned(xs, p) = x.qty + Planned(rest, p)
      BY <1>2, <2>3, PlannedRemove DEF rest
    <3>3. Planned(rest, p) \in Nat /\ x.qty \in Nat /\ n \in Nat
      BY <1>2, <1>6, PlannedRemove, StockAssumption DEF Lines, Units
    <3>4. n = 0 \/ n + Planned(rest, p) <= MaxUnits
      BY <2>3 DEF rest
    <3> QED BY <2>1, <3>1, <3>2, <3>3, <3>4, StockAssumption
  <2> QED BY <2>2, <2>3
<1> QED BY <1>7, <1>8, <1>9 DEF Promise, Modest

\* Between deleting its lines and writing the new ones a resize owns the plan,
\* if it is the only one; an edit that has checked its line still may write it.
PromiseInv ==
    /\ Resizing # {} => plan.status # "none"
    /\ \A r \in Resizing : Promise(resize[r].lines)
    /\ ~doubled =>
         /\ Promise(lines)
         /\ \A r, s \in Resizing : r = s
         /\ \A r \in Resizing : resize[r].pc = "write" => lines = {}
         /\ \A e \in Editors : edit[e].pc = "write" =>
              \A x \in lines : Id(x) = edit[e].id =>
                \/ edit[e].qty = 0
                \/ edit[e].qty + Planned(lines \ {x}, x.product) <= MaxUnits

LEMMA EmptyPromise == Promise({})
<1>1. \A p \in Products : Planned({}, p) = 0
  BY SumEmpty DEF Planned
<1> QED BY <1>1, FS_EmptySet, StockAssumption DEF Promise, Distinct, Modest

LEMMA PromiseInit == Init => PromiseInv
  BY EmptyPromise DEF Init, PromiseInv, Resizing, EditIdle

\* What an invariant of the plan asks of a step that changes nothing of it.
LEMMA PromiseStock == PromiseInv /\ UNCHANGED planVars => PromiseInv'
  BY DEF PromiseInv, planVars, Resizing

LEMMA PromiseResize ==
  ASSUME PlanTypes, LockInv, PromiseInv, IsFiniteSet(Products), IsFiniteSet(Locations),
         NEW r \in Resizers,
         \/ \E from \in Locations : \E xs \in Sized(r, from) : ResizeStarts(r, from, xs)
         \/ ResizeDeletes(r) \/ ResizeWrites(r) \/ ResizeDies(r)
  PROVE  PromiseInv'
<1>0. /\ resize \in [Resizers -> ResizeRows] /\ level \in Levels /\ resize[r] \in ResizeRows
      /\ \A e \in Editors : edit[e].pc # "idle" => lock = e
  BY DEF PlanTypes, PlanTypeOK, StockInv, StockTypeOK, LockHeld
<1>1. ASSUME NEW from \in Locations, NEW xs \in Sized(r, from), ResizeStarts(r, from, xs)
      PROVE  PromiseInv'
  <2> DEFINE row == [pc |-> "delete", from |-> from, lines |-> xs]
  <2>1. row.pc = "delete" /\ row.lines = xs
    OBVIOUS
  <2>2. /\ resize' = [resize EXCEPT ![r] = row] /\ plan.status = "draft"
        /\ UNCHANGED <<plan, lines, edit>> /\ resize[r].pc = "idle"
        /\ doubled' = (doubled \/ Resizing # {})
    BY <1>1 DEF ResizeStarts, ResizeReads, Draft
  <2> HIDE DEF row
  <2>3. Promise(xs)
    BY <1>0, SizedPromise
  <2>4. Resizing' = Resizing \cup {r} /\ \A s \in Resizing : s # r /\ resize'[s] = resize[s]
    BY <1>0, <2>1, <2>2 DEF Resizing
  <2>5. resize'[r] = row
    BY <1>0, <2>2
  <2>6. ~doubled' => ~doubled /\ Resizing' = {r}
    BY <2>2, <2>4
  <2> HIDE DEF Resizing
  <2>7. \A s \in Resizing' : Promise(resize'[s].lines)
    BY <2>1, <2>3, <2>4, <2>5 DEF PromiseInv
  <2> QED BY <2>1, <2>2, <2>5, <2>6, <2>7 DEF PromiseInv
<1>2. CASE ResizeDeletes(r)
  <2> DEFINE row == [resize[r] EXCEPT !.pc = "write"]
  <2>1. row.pc = "write" /\ row.lines = resize[r].lines
    BY <1>0 DEF ResizeRows
  <2>2. /\ resize' = [resize EXCEPT ![r] = row] /\ UNCHANGED <<plan, edit, doubled>>
        /\ resize[r].pc = "delete" /\ lines' = {}
    BY <1>2 DEF ResizeDeletes, LinesKept
  <2> HIDE DEF row
  <2>3. Resizing' = Resizing /\ r \in Resizing
    BY <1>0, <2>1, <2>2 DEF Resizing
  <2>4. \A s \in Resizers : resize'[s].lines = resize[s].lines
    BY <1>0, <2>1, <2>2
  <2>5. Promise({})
    BY EmptyPromise
  <2>6. \A s \in Resizing' : Promise(resize'[s].lines)
    BY <2>3, <2>4 DEF PromiseInv, Resizing
  <2> QED BY <2>2, <2>3, <2>5, <2>6 DEF PromiseInv
<1>3. ASSUME resize' = [resize EXCEPT ![r] = [pc |-> "done", from |-> Null, lines |-> {}]],
             r \in Resizing
      PROVE  Resizing' = Resizing \ {r} /\ \A s \in Resizing' : resize'[s] = resize[s]
  BY <1>0, <1>3 DEF Resizing
<1>4. CASE ResizeWrites(r)
  <2>1. /\ lines' = lines \cup resize[r].lines /\ UNCHANGED <<edit, doubled, lock>>
        /\ r \in Resizing /\ resize[r].pc = "write" /\ plan'.status = plan.status
        /\ Resizing' = Resizing \ {r} /\ \A s \in Resizing' : resize'[s] = resize[s]
    BY <1>3, <1>4 DEF ResizeWrites, Resizing, PlanTypes, PlanTypeOK, Plans
  <2>2. \A e \in Editors : edit'[e].pc = "idle"
    BY <1>0, <1>4, <2>1, EditorAssumption DEF ResizeWrites, Free
  <2>3. ~doubled => lines' = resize[r].lines
    BY <2>1 DEF PromiseInv
  <2> HIDE DEF Resizing
  <2>4. \A s \in Resizing' : Promise(resize'[s].lines)
    BY <2>1 DEF PromiseInv
  <2>5. ~doubled => Promise(lines')
    BY <2>1, <2>3 DEF PromiseInv
  <2> QED BY <2>1, <2>2, <2>4, <2>5 DEF PromiseInv
<1>5. CASE ResizeDies(r)
  <2>1. /\ UNCHANGED <<lines, edit, doubled, plan>> /\ r \in Resizing
        /\ Resizing' = Resizing \ {r} /\ \A s \in Resizing' : resize'[s] = resize[s]
    BY <1>3, <1>5 DEF ResizeDies
  <2> HIDE DEF Resizing
  <2>2. \A s \in Resizing' : Promise(resize'[s].lines)
    BY <2>1 DEF PromiseInv
  <2> QED BY <2>1, <2>2 DEF PromiseInv
<1> QED BY <1>1, <1>2, <1>4, <1>5

LEMMA PromiseEdit ==
  ASSUME PlanTypes, LockInv, PromiseInv, NEW e \in Editors,
         \/ \E x \in lines, n \in Units : EditStarts(e, x, n)
         \/ EditReads(e) \/ EditWrites(e) \/ EditDies(e)
  PROVE  PromiseInv'
<1>0. /\ edit \in [Editors -> EditRows] /\ edit[e] \in EditRows /\ lines \subseteq Lines
      /\ plan \in Plans /\ level \in Levels
      /\ \A d \in Editors : edit[d].pc # "idle" => lock = d
  BY DEF PlanTypes, PlanTypeOK, StockInv, StockTypeOK, LockHeld
<1>1. UNCHANGED <<plan, resize, doubled>> /\ Resizing' = Resizing
  BY DEF EditStarts, EditReads, EditWrites, EditDies, Resizing
<1> DEFINE Checked(d, xs) ==
              \A x \in xs : Id(x) = edit[d].id =>
                edit[d].qty = 0 \/ edit[d].qty + Planned(xs \ {x}, x.product) <= MaxUnits
<1>2. ASSUME UNCHANGED lines,
             \A d \in Editors : edit'[d].pc = "write" => edit'[d] = edit[d]
      PROVE  PromiseInv'
  BY <1>1, <1>2 DEF PromiseInv
<1>3. ASSUME NEW x \in lines, NEW n \in Units, EditStarts(e, x, n) PROVE PromiseInv'
  <2> DEFINE row == [pc |-> "read", id |-> Id(x), qty |-> n]
  <2>1. row.pc = "read"
    OBVIOUS
  <2>2. edit' = [edit EXCEPT ![e] = row] /\ UNCHANGED lines
    BY <1>3 DEF EditStarts
  <2> HIDE DEF row
  <2> QED BY <1>0, <1>2, <2>1, <2>2
<1>4. CASE edit' = [edit EXCEPT ![e] = EditIdle] /\ UNCHANGED lines
  <2>1. EditIdle.pc = "idle"
    BY DEF EditIdle
  <2> QED BY <1>0, <1>2, <1>4, <2>1
<1>5. CASE EditReads(e)
  <2>1. CASE edit' = [edit EXCEPT ![e] = EditIdle]
    BY <1>4, <1>5, <2>1 DEF EditReads
  <2>2. ASSUME NEW x \in lines, Id(x) = edit[e].id, Editable(x, edit[e].qty),
               edit' = [edit EXCEPT ![e].pc = "write"]
        PROVE  PromiseInv'
    <3> DEFINE n == edit[e].qty
    <3>1. n \in Nat /\ x \in Lines /\ x.product \in Products
      BY <1>0, StockAssumption DEF EditRows, Units, Lines
    <3>2. plan.from \in Locations
      BY <2>2 DEF Editable, With
    <3>3. UnitsAt(level, plan.from, x.product) \in Units
      BY <1>0, <3>1, <3>2, StockAssumption DEF UnitsAt, Levels, Units
    <3>4. ~doubled => n = 0 \/ n + Planned(lines \ {x}, x.product) <= MaxUnits
      <4>1. SUFFICES ASSUME ~doubled, n # 0 PROVE n + Planned(lines \ {x}, x.product) <= MaxUnits
        OBVIOUS
      <4>2. n + Planned(lines \ {x}, x.product) <= UnitsAt(level, plan.from, x.product)
        BY <2>2, <4>1 DEF Editable, Fits
      <4>3. IsFiniteSet(lines \ {x}) /\ lines \ {x} \in SUBSET Lines
        BY <1>0, <4>1, FS_Subset DEF PromiseInv, Promise
      <4>4. Planned(lines \ {x}, x.product) \in Nat
        BY <3>1, <4>3, PlannedRemove
      <4> QED BY <3>1, <3>3, <4>2, <4>4, StockAssumption DEF Units
    <3>5. ~doubled => \A y \in lines : Id(y) = edit[e].id => y = x
      BY <2>2 DEF PromiseInv, Promise, Distinct
    <3>6. ~doubled => Checked(e, lines)
      BY <3>4, <3>5
    <3>7. \A d \in Editors : /\ edit'[d].id = edit[d].id /\ edit'[d].qty = edit[d].qty
                             /\ d # e => edit'[d].pc = edit[d].pc
      BY <1>0, <2>2 DEF EditRows
    <3>8. ~doubled => \A d \in Editors : edit'[d].pc = "write" => Checked(d, lines)
      BY <3>6, <3>7 DEF PromiseInv
    <3>9. UNCHANGED lines
      BY <1>5 DEF EditReads
    <3> QED BY <1>1, <3>7, <3>8, <3>9 DEF PromiseInv
  <2> QED BY <1>5, <2>1, <2>2 DEF EditReads, Unlocks
<1>6. CASE EditWrites(e)
  <2>1. /\ edit' = [edit EXCEPT ![e] = EditIdle] /\ edit[e].pc = "write"
        /\ lines' = {IF Id(x) = edit[e].id THEN [x EXCEPT !.qty = edit[e].qty] ELSE x : x \in lines}
    BY <1>6 DEF EditWrites, Unlocks
  <2>2. CASE \A x \in lines : Id(x) # edit[e].id
    <3>1. lines' = lines
      BY <2>1, <2>2
    <3> QED BY <1>4, <2>1, <3>1
  <2>3. ASSUME NEW x \in lines, Id(x) = edit[e].id PROVE PromiseInv'
    <3>1. \A d \in Editors : edit'[d].pc # "write"
      <4>1. EditIdle.pc = "idle"
        BY DEF EditIdle
      <4>2. \A d \in Editors : d # e => edit[d].pc = "idle"
        BY <1>0, <2>1
      <4> QED BY <1>0, <2>1, <4>1, <4>2
    <3>2. ~doubled => Promise(lines')
      <4> SUFFICES ASSUME ~doubled PROVE Promise(lines')
        OBVIOUS
      <4>1. edit[e].qty = 0 \/ edit[e].qty + Planned(lines \ {x}, x.product) <= MaxUnits
        BY <2>1, <2>3 DEF PromiseInv
      <4>2. edit[e].qty \in Units /\ Promise(lines)
        BY <1>0 DEF EditRows, PromiseInv
      <4> DEFINE n == edit[e].qty
                 ys == {IF Id(y) = Id(x) THEN [y EXCEPT !.qty = n] ELSE y : y \in lines}
      <4>3. lines' = ys
        BY <2>1, <2>3
      <4>4. n \in Units /\ (n = 0 \/ n + Planned(lines \ {x}, x.product) <= MaxUnits)
        BY <4>1, <4>2
      <4> HIDE DEF n
      <4>5. ys = {IF Id(y) = Id(x) THEN [y EXCEPT !.qty = n] ELSE y : y \in lines}
        OBVIOUS
      <4> HIDE DEF ys
      <4>6. lines \in SUBSET Lines /\ x \in lines
        BY <1>0, <2>3
      <4>7. Promise(ys)
        BY <4>2, <4>4, <4>5, <4>6, EditKeepsPromise
      <4> QED BY <4>3, <4>7
    <3>3. ~doubled => \A r \in Resizing : resize[r].pc = "write" => lines' = {}
      BY <2>3 DEF PromiseInv
    <3> HIDE DEF Resizing
    <3>4. \A r \in Resizing' : resize'[r] = resize[r] /\ Promise(resize'[r].lines)
      BY <1>1 DEF PromiseInv
    <3> QED BY <1>1, <3>1, <3>2, <3>3, <3>4 DEF PromiseInv
  <2> QED BY <2>2, <2>3
<1>7. CASE EditDies(e)
  BY <1>4, <1>7 DEF EditDies, Unlocks
<1> QED BY <1>3, <1>5, <1>6, <1>7

LEMMA PromiseStep ==
  ASSUME PlanTypes, LockInv, PromiseInv, IsFiniteSet(Products), IsFiniteSet(Locations),
         [Next]_vars
  PROVE  PromiseInv'
<1>1. CASE UNCHANGED planVars
  BY <1>1, PromiseStock
<1>2. ASSUME NEW from \in Locations, NEW xs \in Sized(Created, from), Create(from, xs)
      PROVE  PromiseInv'
  <2>1. Promise(xs)
    BY SizedPromise DEF PlanTypes, StockInv, StockTypeOK
  <2>2. /\ plan.status = "none" /\ lines' = xs /\ UNCHANGED <<edit, resize, doubled>>
        /\ plan'.status = "draft"
    BY <1>2 DEF Create
  <2>3. \A e \in Editors : edit[e].pc = "idle"
    BY <2>2 DEF LockInv
  <2>4. Resizing = {} /\ Resizing' = {}
    BY <2>2 DEF PromiseInv, Resizing
  <2> QED BY <2>1, <2>2, <2>3, <2>4 DEF PromiseInv
<1>3. ASSUME NEW r \in Resizers,
             \/ \E from \in Locations : \E xs \in Sized(r, from) : ResizeStarts(r, from, xs)
             \/ ResizeDeletes(r) \/ ResizeWrites(r) \/ ResizeDies(r)
      PROVE  PromiseInv'
  BY <1>3, PromiseResize
<1>4. CASE Finalise \/ Discard
  <2>1. /\ UNCHANGED <<lines, edit, resize, doubled>> /\ Resizing' = Resizing
        /\ plan'.status # "none"
    BY <1>4 DEF Finalise, Discard, Draft, Resizing, PlanTypes, PlanTypeOK, Plans
  <2> HIDE DEF Resizing
  <2> QED BY <2>1 DEF PromiseInv
<1>5. ASSUME NEW e \in Editors,
             \/ \E x \in lines, n \in Units : EditStarts(e, x, n)
             \/ EditReads(e) \/ EditWrites(e) \/ EditDies(e)
      PROVE  PromiseInv'
  BY <1>5, PromiseEdit
<1>6. CASE PlanNext
  BY <1>2, <1>3, <1>4, <1>5, <1>6 DEF PlanNext
<1> QED BY <1>1, <1>6 DEF Next, vars

\* However edits, resizes, syncs and role changes interleave, the branches are
\* never promised more than the source can hold: the edit's check still holds
\* when it writes, and a resize replaces all lines or none.
THEOREM NoOverPromise ==
  ASSUME IsFiniteSet(Products), IsFiniteSet(Locations)
  PROVE  Spec => []NeverOverPromised
<1> DEFINE I == PlanTypes /\ LockInv /\ PromiseInv
<1>1. Init => I
  BY PlanTypesInit, LockInit, PromiseInit
<1>2. I /\ [Next]_vars => I'
  BY PlanTypesNext, LockStep, PromiseStep
<1>3. I => NeverOverPromised
  BY DEF PromiseInv, Promise, Modest, NeverOverPromised
<1> HIDE DEF I
<1> QED BY <1>1, <1>2, <1>3, PTL DEF Spec
-----------------------------------------------------------------------------
(* The two writers of a figure agree.                                      *)

Sells(pl, l) == pl[l] # Null /\ pl[l].role = "sells"

\* what a product sells under these roles and levels, location by location
SoldAt(pl, held, l, p) == IF Sells(pl, l) THEN UnitsAt(held, l, p) ELSE 0
Sold(pl, held, p) ==
    SumFunctionOnSet([l \in Locations |-> SoldAt(pl, held, l, p)], Locations)

\* The sync's level of the product at the location is written and tallied.
Done(sy, l, p) ==
    /\ l \notin sy.todo
    /\ ~(sy.pc = "upsert" /\ sy.at = l)
    /\ ~(sy.pc = "levels" /\ sy.at = l /\ p \in sy.left)

Share(pl, sy, p) ==
    [l \in Locations |-> IF Done(sy, l, p) /\ Sells(pl, l) THEN UnitsAt(sy.shot, l, p) ELSE 0]

Kept == Products \ gone

\* A row is only ever written from what the store reported, so a product no
\* location ever lost has rows exactly where the store reports it.
LevelInv ==
    /\ \A p \in Kept, l \in Locations : level[l][p] # Null => store[l][p] # Null
    /\ \A p \in Products : (\A l \in Locations : level[l][p] = Null) => figure[p].stock = 0
    /\ \A a \in Askers : \A p \in ask[a].left : \E l \in Locations : level[l][p] # Null

\* What the running sync has done so far.
WalkInv == sync.pc # "idle" =>
    /\ \A p \in Kept, l \in Locations : sync.shot[l][p] # Null => store[l][p] # Null
    /\ \A p \in Kept, l \in Locations : level[l][p] # Null => sync.shot[l][p] # Null
    /\ \A p \in sync.seen : \E l \in Locations : level[l][p] # Null
    /\ \A p \in Products, l \in Locations : Done(sync, l, p) /\ sync.shot[l][p] # Null =>
         level[l][p] = sync.shot[l][p] /\ p \in sync.seen
    /\ sync.pc = "figures" => sync.todo = {} /\ sync.left \subseteq sync.seen
    /\ sync.pc \in {"upsert", "levels"} => sync.at \notin sync.todo

\* A sync nobody interrupted: its tally is what sells of the levels so far.
TallyInv == sync.pc # "idle" /\ ~overlap =>
    /\ ~Asking
    /\ sync.pc = "levels" => place[sync.at] # Null /\ place[sync.at].role = sync.role
    /\ \A p \in Products :
         sync.tally[p].stock = SumFunctionOnSet(Share(place, sync, p), Locations)
    /\ sync.pc = "figures" =>
         /\ \A p \in sync.left : sync.read[p] = figure[p]
         /\ \A p \in sync.seen \ sync.left : figure[p] = sync.tally[p]

Right(p) == figure[p].stock = Sold(place, level, p)

\* One member at a time: what the request has yet to correct.
RightInv == ~overlap =>
    /\ \A a, b \in Askers : ask[a].pc # "idle" /\ ask[b].pc # "idle" => a = b
    /\ sync.pc = "idle" /\ ~Asking => \A p \in Kept : Right(p)
    /\ \A a \in Askers :
         /\ ask[a].pc = "affected" =>
              \A p \in Kept : level[ask[a].at][p] = Null => Right(p)
         /\ ask[a].pc \in {"sum", "write"} => \A p \in Kept \ ask[a].left : Right(p)
         /\ ask[a].pc = "write" =>
              \A p \in Products : ask[a].sums[p] = Sold(place, level, p)

FigInv == StockInv /\ LevelInv /\ WalkInv /\ TallyInv /\ RightInv

LEMMA UnitsNat ==
  ASSUME NEW held \in Levels, NEW l \in Locations, NEW p \in Products
  PROVE  UnitsAt(held, l, p) \in Nat
  BY StockAssumption DEF UnitsAt, Levels, Units

\* recomputeSellableStock sums over the selling locations alone.
LEMMA SoldIs ==
  ASSUME IsFiniteSet(Locations), NEW pl, NEW held \in Levels, NEW p \in Products
  PROVE  SumFunctionOnSet([l \in Locations |-> UnitsAt(held, l, p)],
                          {l \in Locations : pl[l] # Null /\ pl[l].role = "sells"})
         = Sold(pl, held, p)
<1> DEFINE f == [l \in Locations |-> UnitsAt(held, l, p)]
           g == [l \in Locations |-> SoldAt(pl, held, l, p)]
           A == {l \in Locations : pl[l] # Null /\ pl[l].role = "sells"}
<1>1. A \in SUBSET Locations /\ \A l \in A : f[l] \in Int /\ g[l] = f[l]
  BY UnitsNat DEF SoldAt, Sells
<1>2. \A l \in Locations \ A : g[l] = 0
  BY DEF SoldAt, Sells
<1>3. Sold(pl, held, p) = SumFunctionOnSet(g, Locations)
  BY DEF Sold
<1> HIDE DEF f, g, A
<1>4. SumFunctionOnSet(f, A) = SumFunctionOnSet(g, Locations)
  BY <1>1, <1>2, SumSupport
<1> QED BY <1>3, <1>4 DEF f, A

LEMMA SellableIsSold ==
  ASSUME IsFiniteSet(Locations), level \in Levels, NEW p \in Products
  PROVE  Sellable(p) = Sold(place, level, p)
  BY SoldIs DEF Sellable, Total

\* Two views that agree wherever a location sells sell the same.
LEMMA SoldSame ==
  ASSUME IsFiniteSet(Locations), NEW pl, NEW held, NEW q, NEW over, NEW p \in Products,
         \A l \in Locations : SoldAt(pl, held, l, p) = SoldAt(q, over, l, p)
  PROVE  Sold(pl, held, p) = Sold(q, over, p)
<1> DEFINE f == [l \in Locations |-> SoldAt(pl, held, l, p)]
           g == [l \in Locations |-> SoldAt(q, over, l, p)]
<1>1. \A l \in Locations : f[l] = g[l]
  OBVIOUS
<1> HIDE DEF f, g
<1>2. SumFunctionOnSet(f, Locations) = SumFunctionOnSet(g, Locations)
  BY <1>1, SumSame
<1> QED BY <1>2 DEF f, g, Sold

\* A product no location holds sells nothing.
LEMMA NothingSold ==
  ASSUME IsFiniteSet(Locations), NEW pl, NEW held, NEW p \in Products,
         \A l \in Locations : held[l][p] = Null
  PROVE  Sold(pl, held, p) = 0
<1> DEFINE g == [l \in Locations |-> SoldAt(pl, held, l, p)]
<1>1. \A l \in Locations : g[l] = 0
  BY DEF SoldAt, UnitsAt
<1>2. Sold(pl, held, p) = SumFunctionOnSet(g, Locations)
  BY DEF Sold
<1> HIDE DEF g
<1> QED BY <1>1, <1>2, SumZero

LEMMA FigInit ==
  ASSUME IsFiniteSet(Locations), Init
  PROVE  FigInv
<1>1. StockInv /\ StockInit
  BY StockInvInit DEF Init
<1>2. /\ \A l \in Locations, p \in Products : level[l][p] = Null
      /\ \A p \in Products : figure[p].stock = 0
      /\ sync.pc = "idle" /\ \A a \in Askers : ask[a].pc = "idle" /\ ask[a].left = {}
  BY <1>1 DEF StockInit, SyncIdle, AskIdle, Zero
<1>3. \A p \in Products : Right(p)
  BY <1>2, NothingSold DEF Right
<1>4. LevelInv
  BY <1>2 DEF LevelInv, Kept
<1>5. RightInv
  BY <1>2, <1>3 DEF RightInv, Kept
<1> QED BY <1>1, <1>2, <1>4, <1>5 DEF FigInv, WalkInv, TallyInv

LEMMA FigStore ==
  ASSUME FigInv, NEW k \in Locations, NEW q \in Products, NEW n \in Units \cup {Null},
         StoreMoves(k, q, n)
  PROVE  FigInv'
<1>0. StockInv' /\ store \in Levels /\ gone \subseteq Products
  BY StoreTypes DEF FigInv, StockInv, StockTypeOK
<1>1. /\ UNCHANGED <<place, level, figure, sync, ask, overlap>> /\ Kept' \subseteq Kept
      /\ store' = [store EXCEPT ![k][q] = n] /\ (n = Null => q \in gone')
  BY <1>0 DEF StoreMoves, Kept
<1>2. \A p \in Kept', l \in Locations : store[l][p] # Null => store'[l][p] # Null
  BY <1>0, <1>1 DEF Levels, Kept
<1> HIDE DEF Kept
<1>3. LevelInv'
  BY <1>1, <1>2 DEF FigInv, LevelInv
<1>4. WalkInv'
  BY <1>1, <1>2 DEF FigInv, WalkInv, Done
<1>5. TallyInv'
  BY <1>1 DEF FigInv, TallyInv, Asking
<1>6. RightInv'
  BY <1>1 DEF FigInv, RightInv, Right, Asking
<1> QED BY <1>0, <1>3, <1>4, <1>5, <1>6 DEF FigInv

LEMMA FigFetch ==
  ASSUME FigInv, IsFiniteSet(Locations), SyncFetches
  PROVE  FigInv'
<1>0. StockInv'
  BY SyncTypes DEF FigInv
<1>1. /\ sync'.pc = "locations" /\ sync'.shot = store /\ sync'.todo = Locations
      /\ sync'.tally = [p \in Products |-> Zero] /\ sync'.seen = {} /\ sync.pc = "idle"
      /\ overlap' = Asking /\ UNCHANGED <<store, place, level, figure, ask, gone>>
  BY DEF SyncFetches, SyncIdle
<1>2. LevelInv'
  BY <1>1 DEF FigInv, LevelInv, Kept
<1>3. \A l \in Locations, p \in Products : ~Done(sync', l, p)
  BY <1>1 DEF Done
<1>4. WalkInv'
  BY <1>1, <1>3 DEF FigInv, LevelInv, WalkInv, Kept
<1>5. ASSUME NEW p \in Products
      PROVE  sync'.tally[p].stock = SumFunctionOnSet(Share(place', sync', p), Locations)
  <2> DEFINE f == Share(place', sync', p)
  <2>1. \A l \in Locations : f[l] = 0
    BY <1>3 DEF Share
  <2> HIDE DEF f
  <2>2. SumFunctionOnSet(f, Locations) = 0
    BY <2>1, SumZero
  <2> QED BY <1>1, <2>2 DEF f, Zero
<1>6. TallyInv'
  BY <1>1, <1>5 DEF TallyInv, Asking
<1>7. RightInv'
  BY <1>1 DEF RightInv, Asking
<1> QED BY <1>0, <1>2, <1>4, <1>6, <1>7 DEF FigInv

LEMMA FigReadsStatus ==
  ASSUME FigInv, IsFiniteSet(Locations), SyncReadsStatus
  PROVE  FigInv'
<1>0. StockInv' /\ sync \in SyncRows
  BY SyncTypes DEF FigInv, StockInv, StockTypeOK
<1> DEFINE k == CHOOSE l \in sync.todo : TRUE
<1>1. /\ sync.pc = "locations" /\ k \in sync.todo
      /\ sync' = [sync EXCEPT !.pc = "upsert", !.at = k, !.todo = @ \ {k},
                      !.saw = IF place[k] = Null THEN "new" ELSE place[k].status]
      /\ UNCHANGED <<store, place, level, figure, ask, overlap, gone>>
  BY DEF SyncReadsStatus
<1> HIDE DEF k
<1>2. /\ sync'.pc = "upsert" /\ sync'.at = k /\ sync'.todo = sync.todo \ {k}
      /\ sync'.shot = sync.shot /\ sync'.tally = sync.tally /\ sync'.seen = sync.seen
  BY <1>0, <1>1 DEF SyncRows
<1>3. \A l \in Locations, p \in Products : Done(sync', l, p) <=> Done(sync, l, p)
  BY <1>1, <1>2 DEF Done
<1>4. \A p \in Products : Share(place', sync', p) = Share(place, sync, p)
  BY <1>1, <1>2, <1>3 DEF Share
<1>5. LevelInv'
  BY <1>1 DEF FigInv, LevelInv, Kept
<1>6. WalkInv'
  BY <1>1, <1>2, <1>3 DEF FigInv, WalkInv, Kept
<1>7. TallyInv'
  BY <1>1, <1>2, <1>4 DEF FigInv, TallyInv, Asking
<1>8. RightInv'
  BY <1>1, <1>2 DEF FigInv, RightInv, Right, Asking, Kept
<1> QED BY <1>0, <1>5, <1>6, <1>7, <1>8 DEF FigInv

\* While the sync runs undisturbed no member's request does.
LEMMA FigRunning ==
  ASSUME FigInv, sync.pc # "idle", sync'.pc # "idle", UNCHANGED <<ask, overlap>>
  PROVE  RightInv'
  BY DEF FigInv, TallyInv, RightInv, Asking

LEMMA FigUpserts ==
  ASSUME FigInv, IsFiniteSet(Locations), SyncUpserts
  PROVE  FigInv'
<1>0. StockInv' /\ sync \in SyncRows /\ place \in [Locations -> PlaceRows \cup {Null}]
  BY SyncTypes DEF FigInv, StockInv, StockTypeOK
<1> DEFINE k == sync.at
           row == RoleData(k, sync.saw)
           sold == {p \in Products : sync.shot[k][p] # Null}
<1>1. /\ sync.pc = "upsert" /\ place' = [place EXCEPT ![k] = row]
      /\ sync' = [sync EXCEPT !.pc = IF sold = {} THEN "locations" ELSE "levels",
                      !.role = row.role, !.left = sold]
      /\ UNCHANGED <<store, level, figure, ask, overlap, gone>>
  BY DEF SyncUpserts
<1>2. k \in Locations /\ k \notin sync.todo
  BY <1>1 DEF FigInv, StockInv, SyncShape, WalkInv
<1>3. row # Null
  <2>1. sync.saw = "confirmed" => place[k] # Null
    BY <1>1 DEF FigInv, StockInv, SyncShape
  <2>2. Guess[k] \in Roles
    BY <1>2, StockAssumption DEF Roles
  <2>3. [role |-> Guess[k], status |-> "assumed"] \in PlaceRows
    BY <2>2 DEF PlaceRows
  <2> QED BY <2>1, <2>3, NullAssumption DEF RoleData
<1> HIDE DEF row
<1>4. /\ sync'.pc = IF sold = {} THEN "locations" ELSE "levels"
      /\ sync'.role = row.role /\ sync'.left = sold /\ sync'.at = k /\ sync'.todo = sync.todo
      /\ sync'.shot = sync.shot /\ sync'.tally = sync.tally /\ sync'.seen = sync.seen
  BY <1>0, <1>1 DEF SyncRows
<1> HIDE DEF k
<1>5. \A l \in Locations, p \in Products :
        /\ l # k => (Done(sync', l, p) <=> Done(sync, l, p))
        /\ l = k => ~Done(sync, l, p) /\ (Done(sync', l, p) => sync.shot[l][p] = Null)
  BY <1>1, <1>2, <1>4 DEF Done, k
<1>6. \A l \in Locations : l # k => (Sells(place', l) <=> Sells(place, l))
  BY <1>0, <1>1, <1>2 DEF Sells
<1> HIDE DEF sold
<1>7. \A p \in Products : Share(place', sync', p) = Share(place, sync, p)
  BY <1>4, <1>5, <1>6 DEF Share, UnitsAt
<1>8. LevelInv'
  BY <1>1 DEF FigInv, LevelInv, Kept
<1>9. WalkInv'
  <2>1. WalkInv /\ sync.pc # "idle" /\ sync'.pc # "figures"
    BY <1>1, <1>4 DEF FigInv
  <2>2. UNCHANGED <<store, level>> /\ Kept' = Kept
    BY <1>1 DEF Kept
  <2>3. \A q \in Products, l \in Locations : Done(sync', l, q) /\ sync'.shot[l][q] # Null =>
          level'[l][q] = sync'.shot[l][q] /\ q \in sync'.seen
    BY <1>4, <1>5, <2>1, <2>2 DEF WalkInv
  <2> QED BY <1>2, <1>4, <2>1, <2>2, <2>3 DEF WalkInv
<1>10. sync'.pc = "levels" => place'[sync'.at] # Null /\ place'[sync'.at].role = sync'.role
  BY <1>0, <1>1, <1>2, <1>3, <1>4
<1>11. TallyInv'
  <2>1. TallyInv /\ sync.pc # "idle" /\ sync'.pc # "figures" /\ overlap' = overlap
        /\ Asking' = Asking
    BY <1>1, <1>4 DEF FigInv, Asking
  <2>2. ~overlap => \A p \in Products :
          sync'.tally[p].stock = SumFunctionOnSet(Share(place', sync', p), Locations)
    BY <1>4, <1>7, <2>1 DEF TallyInv
  <2> QED BY <1>10, <2>1, <2>2 DEF TallyInv
<1>12. RightInv'
  BY <1>1, <1>4, FigRunning
<1> QED BY <1>0, <1>8, <1>9, <1>11, <1>12 DEF FigInv

LEMMA FigWritesLevel ==
  ASSUME FigInv, IsFiniteSet(Locations), SyncWritesLevel
  PROVE  FigInv'
<1>0. StockInv' /\ sync \in SyncRows /\ level \in Levels
  BY SyncTypes DEF FigInv, StockInv, StockTypeOK
<1> DEFINE k == sync.at
           p == CHOOSE p \in sync.left : TRUE
           n == sync.shot[k][p]
<1>1. /\ sync.pc = "levels" /\ level' = [level EXCEPT ![k][p] = n]
      /\ sync' = [sync EXCEPT !.left = @ \ {p}, !.seen = Seen(k, p, n),
                      !.tally[p] = Counted(@, sync.role, n),
                      !.pc = IF sync.left = {p} THEN "locations" ELSE "levels"]
      /\ UNCHANGED <<store, place, figure, ask, overlap, gone>>
  BY DEF SyncWritesLevel
<1>2. /\ k \in Locations /\ sync.role \in Roles /\ p \in sync.left /\ p \in Products
      /\ sync.shot \in Levels /\ sync.tally \in [Products -> Figures] /\ n # Null
      /\ k \notin sync.todo
  BY <1>0, <1>1 DEF FigInv, StockInv, SyncShape, SyncRows, WalkInv
<1>3. n \in Nat
  BY <1>2, StockAssumption DEF Levels, Units
<1> HIDE DEF p
<1>4. /\ sync'.left = sync.left \ {p} /\ sync'.seen = sync.seen \cup {p}
      /\ sync'.pc = IF sync.left = {p} THEN "locations" ELSE "levels"
      /\ sync'.tally = [sync.tally EXCEPT ![p] = Counted(sync.tally[p], sync.role, n)]
      /\ sync'.at = k /\ sync'.todo = sync.todo /\ sync'.shot = sync.shot
      /\ sync'.role = sync.role
  BY <1>0, <1>1 DEF SyncRows, Seen
<1>5. \A l \in Locations, q \in Products :
        IF l = k /\ q = p THEN ~Done(sync, l, q) /\ Done(sync', l, q)
                          ELSE Done(sync', l, q) <=> Done(sync, l, q)
  BY <1>1, <1>2, <1>4 DEF Done
<1>6. /\ level'[k][p] = n
      /\ \A l \in Locations, q \in Products : l # k \/ q # p => level'[l][q] = level[l][q]
  BY <1>0, <1>1, <1>2 DEF Levels
<1>7. LevelInv'
  <2>1. Kept' = Kept
    BY <1>1 DEF Kept
  <2>2. \A q \in Products, l \in Locations : level[l][q] # Null => level'[l][q] # Null
    BY <1>2, <1>6
  <2>3. \A a \in Askers : ask[a].left \subseteq Products
    BY DEF FigInv, StockInv, StockTypeOK, AskRows
  <2>4. p \in Kept => store[k][p] # Null
    BY <1>1, <1>2 DEF FigInv, WalkInv
  <2>5. \A q \in Kept, l \in Locations : level'[l][q] # Null => store'[l][q] # Null
    BY <1>1, <1>6, <2>4 DEF FigInv, LevelInv, Kept
  <2>6. \A q \in Products : (\A l \in Locations : level'[l][q] = Null) => figure'[q].stock = 0
    BY <1>1, <2>2 DEF FigInv, LevelInv
  <2>7. \A a \in Askers : \A q \in ask'[a].left : \E l \in Locations : level'[l][q] # Null
    BY <1>1, <2>2, <2>3 DEF FigInv, LevelInv
  <2> QED BY <2>1, <2>5, <2>6, <2>7 DEF LevelInv
<1>8. WalkInv'
  <2>1. sync.seen \subseteq Products
    BY <1>0 DEF SyncRows
  <2>2. \A q \in sync'.seen : \E l \in Locations : level'[l][q] # Null
    BY <1>1, <1>2, <1>4, <1>6, <2>1 DEF FigInv, WalkInv
  <2>3. \A q \in Kept', l \in Locations : level'[l][q] # Null => sync'.shot[l][q] # Null
    BY <1>1, <1>2, <1>4, <1>6 DEF FigInv, WalkInv, Kept
  <2>4. \A q \in Kept', l \in Locations : sync'.shot[l][q] # Null => store'[l][q] # Null
    BY <1>1, <1>4 DEF FigInv, WalkInv, Kept
  <2>5. \A q \in Products, l \in Locations : Done(sync', l, q) /\ sync'.shot[l][q] # Null =>
          level'[l][q] = sync'.shot[l][q] /\ q \in sync'.seen
    <3>1. WalkInv /\ sync.pc # "idle"
      BY <1>1 DEF FigInv
    <3> SUFFICES ASSUME NEW q \in Products, NEW l \in Locations, Done(sync', l, q),
                        sync.shot[l][q] # Null
                 PROVE  level'[l][q] = sync.shot[l][q] /\ q \in sync'.seen
      BY <1>4
    <3>2. CASE l = k /\ q = p
      BY <1>4, <1>6, <3>2
    <3>3. CASE ~(l = k /\ q = p)
      <4>1. Done(sync, l, q) /\ level'[l][q] = level[l][q]
        BY <1>5, <1>6, <3>3
      <4> QED BY <1>4, <3>1, <4>1 DEF WalkInv
    <3> QED BY <3>2, <3>3
  <2>6. sync'.pc # "figures" /\ sync'.at \notin sync'.todo
    BY <1>2, <1>4
  <2> QED BY <2>2, <2>3, <2>4, <2>5, <2>6 DEF WalkInv
<1>9. ASSUME ~overlap, NEW q \in Products
      PROVE  sync'.tally[q].stock = SumFunctionOnSet(Share(place', sync', q), Locations)
  <2>0. sync.tally[q].stock = SumFunctionOnSet(Share(place, sync, q), Locations)
    BY <1>1, <1>9 DEF FigInv, TallyInv
  <2>1. CASE q # p
    <3>1. \A l \in Locations : Done(sync', l, q) <=> Done(sync, l, q)
      BY <1>5, <2>1
    <3>2. place' = place /\ sync'.shot = sync.shot
      BY <1>1, <1>4
    <3>3. Share(place', sync', q) = Share(place, sync, q)
      BY <3>1, <3>2 DEF Share
    <3> QED BY <1>2, <1>4, <2>0, <2>1, <3>3
  <2>2. CASE q = p
    <3> DEFINE f == Share(place, sync, p)
               g == Share(place', sync', p)
    <3>1. \A l \in Locations : f[l] \in Int /\ g[l] \in Int
      <4>1. \A l \in Locations : UnitsAt(sync.shot, l, p) \in Int
        BY <1>2, UnitsNat
      <4> QED BY <1>4, <4>1 DEF Share
    <3>2. \A l \in Locations \ {k} : f[l] = g[l]
      BY <1>1, <1>2, <1>4, <1>5 DEF Share
    <3>3. f[k] = 0 /\ g[k] = IF Sells(place, k) THEN n ELSE 0
      <4>1. ~Done(sync, k, p) /\ Done(sync', k, p)
        BY <1>2, <1>5
      <4>2. place' = place /\ sync'.shot = sync.shot
        BY <1>1, <1>4
      <4>3. UnitsAt(sync.shot, k, p) = n
        BY <1>2 DEF UnitsAt
      <4> HIDE DEF n
      <4> QED BY <1>2, <4>1, <4>2, <4>3 DEF Share
    <3>4. Sells(place, k) <=> sync.role = "sells"
      BY <1>1, <1>9 DEF FigInv, TallyInv, Sells
    <3> HIDE DEF f, g, k, n
    <3>5. SumFunctionOnSet(g, Locations) = SumFunctionOnSet(f, Locations) + (g[k] - f[k])
      BY <1>2, <3>1, <3>2, SumUpdate
    <3>6. /\ Counted(sync.tally[p], sync.role, n).stock
             = IF sync.role = "sells" THEN sync.tally[p].stock + n ELSE sync.tally[p].stock
          /\ sync.tally[p].stock \in Nat
      BY <1>2, <1>3, CountedStock DEF Figures
    <3>7. sync'.tally[p] = Counted(sync.tally[p], sync.role, n)
      BY <1>2, <1>4
    <3>8. SumFunctionOnSet(f, Locations) = sync.tally[p].stock
      BY <2>0, <2>2 DEF f
    <3>9. SumFunctionOnSet(g, Locations) = sync'.tally[p].stock
      BY <1>3, <3>3, <3>4, <3>5, <3>6, <3>7, <3>8
    <3> QED BY <2>2, <3>9 DEF g
  <2> QED BY <2>1, <2>2
<1>10. TallyInv'
  <2>1. TallyInv /\ sync.pc # "idle" /\ sync'.pc # "figures" /\ overlap' = overlap
        /\ Asking' = Asking /\ place' = place
    BY <1>1, <1>4 DEF FigInv, Asking
  <2>2. sync'.pc = "levels" => sync.pc = "levels" /\ sync'.at = sync.at /\ sync'.role = sync.role
    BY <1>1, <1>4
  <2> QED BY <1>9, <2>1, <2>2 DEF TallyInv
<1>11. RightInv'
  BY <1>1, <1>4, FigRunning
<1> QED BY <1>0, <1>7, <1>8, <1>10, <1>11 DEF FigInv

\* When every location is tallied the tally is what sells, and a product the
\* store did not report has a figure of zero already.
LEMMA FigTallied ==
  ASSUME FigInv, IsFiniteSet(Locations), ~overlap, sync.pc \in {"locations", "figures"},
         sync.todo = {}, NEW p \in Kept
  PROVE  /\ sync.tally[p].stock = Sold(place, level, p)
         /\ p \notin sync.seen => Right(p)
<1>1. p \in Products /\ WalkInv /\ TallyInv /\ LevelInv
  BY DEF FigInv, Kept
<1>2. \A l \in Locations : Done(sync, l, p)
  BY DEF Done
<1>3. ASSUME NEW l \in Locations PROVE level[l][p] = sync.shot[l][p]
  <2>1. CASE sync.shot[l][p] # Null
    BY <1>1, <1>2, <2>1 DEF WalkInv
  <2>2. CASE sync.shot[l][p] = Null
    BY <1>1, <2>2 DEF WalkInv
  <2> QED BY <2>1, <2>2
<1>4. sync.tally[p].stock = Sold(place, level, p)
  <2>1. sync.tally[p].stock = SumFunctionOnSet(Share(place, sync, p), Locations)
    BY <1>1 DEF TallyInv
  <2> DEFINE f == Share(place, sync, p)
             g == [l \in Locations |-> SoldAt(place, level, l, p)]
  <2>2. \A l \in Locations : f[l] = g[l]
    BY <1>2, <1>3 DEF Share, SoldAt, UnitsAt
  <2> HIDE DEF f, g
  <2>3. SumFunctionOnSet(f, Locations) = SumFunctionOnSet(g, Locations)
    BY <2>2, SumSame
  <2> QED BY <2>1, <2>3 DEF f, g, Sold
<1>5. p \notin sync.seen => Right(p)
  <2> SUFFICES ASSUME p \notin sync.seen PROVE Right(p)
    OBVIOUS
  <2>1. \A l \in Locations : level[l][p] = Null
    BY <1>1, <1>2, <1>3 DEF WalkInv
  <2>2. figure[p].stock = 0
    BY <1>1, <2>1 DEF LevelInv
  <2>3. Sold(place, level, p) = 0
    BY <1>1, <2>1, NothingSold
  <2> QED BY <2>2, <2>3 DEF Right
<1> QED BY <1>4, <1>5

LEMMA FigReadsFigures ==
  ASSUME FigInv, IsFiniteSet(Locations), SyncReadsFigures
  PROVE  FigInv'
<1>0. StockInv' /\ sync \in SyncRows
  BY SyncTypes DEF FigInv, StockInv, StockTypeOK
<1>1. /\ sync.pc = "locations" /\ sync.todo = {}
      /\ sync' = IF sync.seen = {} THEN SyncIdle
                 ELSE [sync EXCEPT !.pc = "figures", !.left = sync.seen, !.read = figure]
      /\ UNCHANGED <<store, place, level, figure, ask, overlap, gone>>
  BY DEF SyncReadsFigures
<1>2. LevelInv' /\ Kept' = Kept /\ Asking' = Asking
  BY <1>1 DEF FigInv, LevelInv, Kept, Asking
<1>3. CASE sync.seen = {}
  <2>1. sync'.pc = "idle"
    BY <1>1, <1>3, StockIdle
  <2>2. ~overlap => ~Asking /\ \A p \in Kept : Right(p)
    BY <1>1, <1>3, FigTallied DEF FigInv, TallyInv
  <2>3. RightInv'
    BY <1>1, <1>2, <2>2 DEF RightInv, Right, Asking
  <2> QED BY <1>0, <1>2, <2>1, <2>3 DEF FigInv, WalkInv, TallyInv
<1>4. CASE sync.seen # {}
  <2>1. /\ sync'.pc = "figures" /\ sync'.left = sync.seen /\ sync'.read = figure
        /\ sync'.todo = {} /\ sync'.shot = sync.shot /\ sync'.tally = sync.tally
        /\ sync'.seen = sync.seen
    BY <1>0, <1>1, <1>4 DEF SyncRows
  <2>2. \A l \in Locations, p \in Products : Done(sync', l, p) <=> Done(sync, l, p)
    BY <1>1, <2>1 DEF Done
  <2>3. WalkInv'
    <3>1. WalkInv /\ sync.pc # "idle" /\ UNCHANGED <<store, level>>
      BY <1>1 DEF FigInv
    <3> QED BY <1>2, <2>1, <2>2, <3>1 DEF WalkInv
  <2>4. TallyInv'
    <3>1. TallyInv /\ sync.pc # "idle" /\ UNCHANGED <<place, figure, overlap>>
      BY <1>1 DEF FigInv
    <3>2. \A p \in Products : Share(place', sync', p) = Share(place, sync, p)
      BY <2>1, <2>2, <3>1 DEF Share
    <3> QED BY <1>2, <2>1, <3>1, <3>2 DEF TallyInv
  <2>5. RightInv'
    BY <1>1, <2>1, FigRunning
  <2> QED BY <1>0, <1>2, <2>3, <2>4, <2>5 DEF FigInv
<1> QED BY <1>3, <1>4

LEMMA FigWritesFigure ==
  ASSUME FigInv, IsFiniteSet(Locations), SyncWritesFigure
  PROVE  FigInv'
<1>0. /\ StockInv' /\ sync \in SyncRows /\ figure \in [Products -> Figures]
      /\ LevelInv /\ WalkInv /\ TallyInv
  BY SyncTypes DEF FigInv, StockInv, StockTypeOK
<1> DEFINE p == CHOOSE p \in sync.left : TRUE
<1>1. /\ sync.pc = "figures"
      /\ figure' = IF sync.read[p] = sync.tally[p] THEN figure
                   ELSE [figure EXCEPT ![p] = sync.tally[p]]
      /\ sync' = IF sync.left = {p} THEN SyncIdle ELSE [sync EXCEPT !.left = @ \ {p}]
      /\ UNCHANGED <<store, place, level, ask, overlap, gone>>
  BY DEF SyncWritesFigure
<1>2. /\ p \in sync.left /\ p \in sync.seen /\ p \in Products /\ sync.todo = {}
      /\ sync.left \subseteq sync.seen
  BY <1>0, <1>1 DEF FigInv, StockInv, SyncShape, SyncRows, WalkInv
<1> HIDE DEF p
<1>3. /\ \A q \in Products : q # p => figure'[q] = figure[q]
      /\ ~overlap => figure'[p] = sync.tally[p]
  BY <1>0, <1>1, <1>2 DEF TallyInv
<1>4. LevelInv' /\ Kept' = Kept /\ Asking' = Asking
  <2>1. \E l \in Locations : level[l][p] # Null
    BY <1>0, <1>1, <1>2 DEF WalkInv
  <2>2. Kept' = Kept /\ UNCHANGED <<store, level, ask>> /\ Asking' = Asking
    BY <1>1 DEF Kept, Asking
  <2> QED BY <1>0, <1>3, <2>1, <2>2 DEF LevelInv
<1>5. CASE sync.left = {p}
  <2>1. sync'.pc = "idle"
    BY <1>1, <1>5, StockIdle
  <2>2. ~overlap => ~Asking
    BY <1>0, <1>1 DEF TallyInv
  <2>3. ASSUME ~overlap, NEW q \in Kept PROVE figure'[q].stock = Sold(place, level, q)
    <3>1. q \in Products /\ sync.tally[q].stock = Sold(place, level, q)
      BY <1>1, <1>2, <2>3, FigTallied DEF Kept
    <3>2. CASE q \in sync.seen
      <4>1. figure'[q] = sync.tally[q]
        BY <1>0, <1>1, <1>3, <1>5, <2>3, <3>1, <3>2 DEF TallyInv
      <4> QED BY <3>1, <4>1
    <3>3. CASE q \notin sync.seen
      <4>1. Right(q) /\ figure'[q] = figure[q]
        BY <1>1, <1>2, <1>3, <2>3, <3>1, <3>3, FigTallied
      <4> QED BY <4>1 DEF Right
    <3> QED BY <3>2, <3>3
  <2>4. RightInv'
    BY <1>1, <1>4, <2>2, <2>3 DEF RightInv, Right, Asking
  <2> QED BY <1>0, <1>4, <2>1, <2>4 DEF FigInv, WalkInv, TallyInv
<1>6. CASE sync.left # {p}
  <2>1. /\ sync'.pc = "figures" /\ sync'.left = sync.left \ {p} /\ sync'.read = sync.read
        /\ sync'.todo = sync.todo /\ sync'.shot = sync.shot /\ sync'.tally = sync.tally
        /\ sync'.seen = sync.seen
    BY <1>0, <1>1, <1>6 DEF SyncRows
  <2>2. \A l \in Locations, q \in Products : Done(sync', l, q) <=> Done(sync, l, q)
    BY <1>1, <2>1 DEF Done
  <2>3. WalkInv'
    <3>1. WalkInv /\ sync.pc = "figures" /\ UNCHANGED <<store, level>>
      BY <1>1 DEF FigInv
    <3> QED BY <1>4, <2>1, <2>2, <3>1 DEF WalkInv
  <2>4. TallyInv'
    <3>1. TallyInv /\ sync.pc = "figures" /\ UNCHANGED <<place, overlap>>
      BY <1>1 DEF FigInv
    <3>2. \A q \in Products : Share(place', sync', q) = Share(place, sync, q)
      BY <2>1, <2>2, <3>1 DEF Share
    <3>3. sync.seen \subseteq Products /\ sync.left \subseteq Products
      BY <1>0 DEF SyncRows
    <3> QED BY <1>3, <1>4, <2>1, <3>1, <3>2, <3>3 DEF TallyInv
  <2>5. RightInv'
    <3>1. sync.pc # "idle" /\ UNCHANGED <<ask, overlap>>
      BY <1>1
    <3> QED BY <2>1, <3>1, FigRunning
  <2> QED BY <1>0, <1>4, <2>3, <2>4, <2>5 DEF FigInv
<1> QED BY <1>5, <1>6

\* Whoever dies leaves the figures to the next sync.
LEMMA FigDies ==
  ASSUME FigInv, IsFiniteSet(Locations), SyncDies \/ \E a \in Askers : AskDies(a)
  PROVE  FigInv'
<1>1. StockInv'
  BY SyncTypes, AskTypes DEF FigInv
<1>2. /\ overlap' = TRUE /\ UNCHANGED <<store, level, figure, gone>>
      /\ sync' = SyncIdle \/ sync' = sync
      /\ \A a \in Askers : ask'[a].left \subseteq ask[a].left
  <2>1. ask \in [Askers -> AskRows] /\ AskIdle.left = {}
    BY DEF FigInv, StockInv, StockTypeOK, AskIdle
  <2> QED BY <2>1 DEF SyncDies, AskDies
<1>3. LevelInv'
  BY <1>2 DEF FigInv, LevelInv, Kept
<1>4. WalkInv'
  BY <1>2, StockIdle DEF FigInv, WalkInv, Kept, Done
<1> QED BY <1>1, <1>2, <1>3, <1>4 DEF FigInv, TallyInv, RightInv

\* The plan's steps do not touch the stock.
LEMMA FigPlan ==
  ASSUME FigInv, StockInv', NoStockStep
  PROVE  FigInv'
<1>1. Kept' = Kept /\ Asking' = Asking
  BY DEF NoStockStep, Kept, Asking
<1>2. UNCHANGED <<store, place, level, figure, sync, ask, overlap>>
  BY DEF NoStockStep
<1>3. LevelInv' /\ WalkInv' /\ TallyInv'
  BY <1>1, <1>2 DEF FigInv, LevelInv, WalkInv, TallyInv
<1>4. RightInv'
  BY <1>1, <1>2 DEF FigInv, RightInv, Right
<1> QED BY <1>3, <1>4 DEF FigInv

\* What a step of a member's request leaves alone.
LEMMA FigAsking ==
  ASSUME FigInv, NEW a \in Askers, ask[a].pc # "idle",
         UNCHANGED <<store, place, level, sync, overlap, gone>>,
         \A b \in Askers : ask'[b].left \subseteq ask[b].left
                           \/ \A p \in ask'[b].left : \E l \in Locations : level[l][p] # Null,
         \A p \in Products : figure'[p] # figure[p] => \E l \in Locations : level[l][p] # Null
  PROVE  /\ LevelInv' /\ WalkInv' /\ TallyInv' /\ Kept' = Kept
         /\ ~overlap => /\ sync.pc = "idle"
                        /\ \A b \in Askers : b # a => ask[b].pc = "idle"
<1>1. LevelInv /\ WalkInv /\ TallyInv /\ RightInv /\ Asking
  BY DEF FigInv, Asking
<1>2. Kept' = Kept /\ Kept \subseteq Products
  BY DEF Kept
<1>3. LevelInv'
  <2>1. \A p \in Products : (\A l \in Locations : level'[l][p] = Null) => figure'[p].stock = 0
    BY <1>1 DEF LevelInv
  <2>2. \A b \in Askers : \A p \in ask'[b].left : \E l \in Locations : level'[l][p] # Null
    BY <1>1 DEF LevelInv
  <2>3. \A p \in Kept', l \in Locations : level'[l][p] # Null => store'[l][p] # Null
    BY <1>1, <1>2 DEF LevelInv
  <2> QED BY <2>1, <2>2, <2>3 DEF LevelInv
<1>4. WalkInv'
  BY <1>1, <1>2 DEF WalkInv
<1>5. ~overlap => sync.pc = "idle"
  BY <1>1 DEF TallyInv
<1>6. TallyInv'
  BY <1>5 DEF TallyInv
<1>7. ~overlap => \A b \in Askers : b # a => ask[b].pc = "idle"
  BY <1>1 DEF RightInv
<1> QED BY <1>2, <1>3, <1>4, <1>5, <1>6, <1>7

LEMMA FigConfirms ==
  ASSUME FigInv, IsFiniteSet(Locations), NEW a \in Askers, NEW k \in Locations,
         NEW r \in Asked, Confirms(a, k, r)
  PROVE  FigInv'
<1>0. /\ StockInv' /\ ask \in [Askers -> AskRows] /\ LevelInv /\ WalkInv /\ RightInv
      /\ place \in [Locations -> PlaceRows \cup {Null}]
  BY AskTypes DEF FigInv, StockInv, StockTypeOK
<1> DEFINE row == [role |-> r, status |-> "confirmed"]
           new == [AskIdle EXCEPT !.pc = "affected", !.at = k]
<1>1. /\ place' = [place EXCEPT ![k] = row] /\ ask' = [ask EXCEPT ![a] = new]
      /\ overlap' = (overlap \/ Asking \/ sync.pc # "idle")
      /\ UNCHANGED <<store, level, figure, sync, gone>>
  BY DEF Confirms
<1>2. new.pc = "affected" /\ new.at = k /\ new.left = {}
  BY DEF AskIdle
<1> HIDE DEF row, new
<1>3. /\ \A b \in Askers : b # a => ask'[b] = ask[b]
      /\ ask'[a] = new /\ Kept' = Kept
  BY <1>0, <1>1 DEF Kept
<1>4. LevelInv'
  BY <1>0, <1>1, <1>2, <1>3 DEF LevelInv
<1>5. WalkInv'
  BY <1>0, <1>1, <1>3 DEF WalkInv
<1>6. TallyInv'
  BY <1>1 DEF TallyInv
<1>7. RightInv'
  <2> SUFFICES ASSUME ~overlap' PROVE RightInv'
    BY DEF RightInv
  <2>1. ~overlap /\ ~Asking /\ sync.pc = "idle"
    BY <1>1
  <2>2. \A b \in Askers : b # a => ask'[b].pc = "idle"
    BY <1>3, <2>1 DEF Asking
  <2>3. \A p \in Kept : Right(p)
    BY <1>0, <2>1 DEF RightInv
  <2>4. ASSUME NEW p \in Kept, level[k][p] = Null
        PROVE  figure'[p].stock = Sold(place', level', p)
    <3>1. p \in Products
      BY DEF Kept
    <3>2. \A l \in Locations : SoldAt(place', level, l, p) = SoldAt(place, level, l, p)
      BY <1>0, <1>1, <2>4 DEF SoldAt, Sells, UnitsAt
    <3>3. Sold(place', level, p) = Sold(place, level, p)
      BY <3>1, <3>2, SoldSame
    <3> QED BY <1>1, <2>3, <3>3 DEF Right
  <2>5. /\ ask'[a].pc = "affected"
        /\ \A p \in Kept' : level'[ask'[a].at][p] = Null => Right(p)'
    BY <1>1, <1>2, <1>3, <2>4 DEF Right
  <2>6. Asking'
    BY <2>5 DEF Asking
  <2> QED BY <2>2, <2>5, <2>6 DEF RightInv
<1> QED BY <1>0, <1>4, <1>5, <1>6, <1>7 DEF FigInv

LEMMA FigFinds ==
  ASSUME FigInv, IsFiniteSet(Locations), NEW a \in Askers, FindsAffected(a)
  PROVE  FigInv'
<1>0. StockInv' /\ ask \in [Askers -> AskRows] /\ RightInv
  BY AskTypes DEF FigInv, StockInv, StockTypeOK
<1> DEFINE ps == Affected(ask[a].at)
           new == IF ps = {} THEN AskIdle ELSE [ask[a] EXCEPT !.pc = "sum", !.left = ps]
<1>1. /\ ask[a].pc = "affected" /\ ask' = [ask EXCEPT ![a] = new]
      /\ UNCHANGED <<store, place, level, figure, sync, overlap, gone>>
  BY DEF FindsAffected
<1>2. /\ ask[a].at \in Locations /\ ps \subseteq Products
      /\ \A p \in Products : p \in ps <=> level[ask[a].at][p] # Null
  BY <1>1 DEF Affected, FigInv, StockInv, AskShape
<1>3. new.left = ps /\ new.pc = IF ps = {} THEN "idle" ELSE "sum"
  BY <1>0 DEF AskIdle, AskRows
<1> HIDE DEF ps, new
<1>4. ask'[a] = new /\ \A b \in Askers : b # a => ask'[b] = ask[b]
  BY <1>0, <1>1
<1>5. /\ LevelInv' /\ WalkInv' /\ TallyInv' /\ Kept' = Kept
      /\ ~overlap => sync.pc = "idle" /\ \A b \in Askers : b # a => ask[b].pc = "idle"
  <2>1. \A p \in ps : \E l \in Locations : level[l][p] # Null
    BY <1>2
  <2>2. \A b \in Askers : ask'[b].left \subseteq ask[b].left
                          \/ \A p \in ask'[b].left : \E l \in Locations : level[l][p] # Null
    BY <1>3, <1>4, <2>1
  <2> QED BY <1>1, <2>2, FigAsking
<1>6. RightInv'
  <2> SUFFICES ASSUME ~overlap PROVE RightInv'
    BY <1>1 DEF RightInv
  <2>1. \A p \in Kept : p \notin ps => Right(p)
    BY <1>0, <1>1, <1>2 DEF RightInv, Kept
  <2>2. \A b \in Askers : b # a => ask'[b].pc = "idle"
    BY <1>4, <1>5
  <2>3. \A p \in Kept' : p \notin ps => Right(p)'
    BY <1>1, <1>5, <2>1 DEF Right
  <2>4. Asking' <=> ps # {}
    BY <1>3, <1>4, <2>2 DEF Asking
  <2> QED BY <1>3, <1>4, <2>2, <2>3, <2>4 DEF RightInv
<1> QED BY <1>0, <1>5, <1>6 DEF FigInv

LEMMA FigSums ==
  ASSUME FigInv, IsFiniteSet(Locations), NEW a \in Askers, SumsLevels(a)
  PROVE  FigInv'
<1>0. StockInv' /\ ask \in [Askers -> AskRows] /\ RightInv /\ level \in Levels
  BY AskTypes DEF FigInv, StockInv, StockTypeOK
<1> DEFINE sums == [p \in Products |-> Sellable(p)]
           new == [ask[a] EXCEPT !.pc = "write", !.sums = sums]
<1>1. /\ ask[a].pc = "sum" /\ ask' = [ask EXCEPT ![a] = new]
      /\ UNCHANGED <<store, place, level, figure, sync, overlap, gone>>
  BY <1>0 DEF SumsLevels
<1>2. \A p \in Products : sums[p] = Sold(place, level, p)
  BY <1>0, SellableIsSold
<1> HIDE DEF sums
<1>3. new.pc = "write" /\ new.left = ask[a].left /\ new.sums = sums
  BY <1>0 DEF AskRows
<1> HIDE DEF new
<1>4. ask'[a] = new /\ \A b \in Askers : b # a => ask'[b] = ask[b]
  BY <1>0, <1>1
<1>5. /\ LevelInv' /\ WalkInv' /\ TallyInv' /\ Kept' = Kept
      /\ ~overlap => sync.pc = "idle" /\ \A b \in Askers : b # a => ask[b].pc = "idle"
  <2>1. \A b \in Askers : ask'[b].left \subseteq ask[b].left
    BY <1>3, <1>4
  <2> QED BY <1>1, <2>1, FigAsking
<1>6. RightInv'
  <2> SUFFICES ASSUME ~overlap PROVE RightInv'
    BY <1>1 DEF RightInv
  <2>1. \A p \in Kept \ ask[a].left : Right(p)
    BY <1>0, <1>1 DEF RightInv
  <2>2. \A b \in Askers : b # a => ask'[b].pc = "idle"
    BY <1>4, <1>5
  <2>3. \A p \in Kept' \ ask'[a].left : Right(p)'
    BY <1>1, <1>3, <1>4, <1>5, <2>1 DEF Right
  <2>4. \A p \in Products : ask'[a].sums[p] = Sold(place', level', p)
    BY <1>1, <1>2, <1>3, <1>4
  <2>5. Asking'
    BY <1>3, <1>4 DEF Asking
  <2> QED BY <1>3, <1>4, <2>2, <2>3, <2>4, <2>5 DEF RightInv
<1> QED BY <1>0, <1>5, <1>6 DEF FigInv

LEMMA FigWritesStock ==
  ASSUME FigInv, IsFiniteSet(Locations), NEW a \in Askers, WritesStock(a)
  PROVE  FigInv'
<1>0. /\ StockInv' /\ ask \in [Askers -> AskRows] /\ RightInv /\ LevelInv
      /\ figure \in [Products -> Figures]
  BY AskTypes DEF FigInv, StockInv, StockTypeOK
<1> DEFINE p == CHOOSE p \in ask[a].left : TRUE
           new == IF ask[a].left = {p} THEN AskIdle ELSE [ask[a] EXCEPT !.left = ask[a].left \ {p}]
<1>1. /\ ask[a].pc = "write" /\ ask' = [ask EXCEPT ![a] = new]
      /\ figure' = [figure EXCEPT ![p].stock = ask[a].sums[p]]
      /\ UNCHANGED <<store, place, level, sync, overlap, gone>>
  BY DEF WritesStock
<1>2. p \in ask[a].left /\ p \in Products
  BY <1>0, <1>1 DEF FigInv, StockInv, AskShape, AskRows
<1> HIDE DEF p
<1>3. /\ new.pc # "idle" => new.sums = ask[a].sums
      /\ new.pc = IF ask[a].left = {p} THEN "idle" ELSE "write"
      /\ new.left = ask[a].left \ {p}
  BY <1>0, <1>1 DEF AskIdle, AskRows
<1> HIDE DEF new
<1>4. ask'[a] = new /\ \A b \in Askers : b # a => ask'[b] = ask[b]
  BY <1>0, <1>1
<1>5. /\ \A q \in Products : q # p => figure'[q] = figure[q]
      /\ figure'[p].stock = ask[a].sums[p]
  BY <1>0, <1>1, <1>2 DEF Figures
<1>6. /\ LevelInv' /\ WalkInv' /\ TallyInv' /\ Kept' = Kept
      /\ ~overlap => sync.pc = "idle" /\ \A b \in Askers : b # a => ask[b].pc = "idle"
  <2>1. \A b \in Askers : ask'[b].left \subseteq ask[b].left
    BY <1>3, <1>4
  <2>2. \E l \in Locations : level[l][p] # Null
    BY <1>0, <1>2 DEF LevelInv
  <2>3. \A q \in Products : figure'[q] # figure[q] => \E l \in Locations : level[l][q] # Null
    BY <1>5, <2>2
  <2> QED BY <1>1, <2>1, <2>3, FigAsking
<1>7. RightInv'
  <2> SUFFICES ASSUME ~overlap PROVE RightInv'
    BY <1>1 DEF RightInv
  <2>1. /\ \A q \in Kept \ ask[a].left : Right(q)
        /\ \A q \in Products : ask[a].sums[q] = Sold(place, level, q)
    BY <1>0, <1>1 DEF RightInv
  <2>2. \A b \in Askers : b # a => ask'[b].pc = "idle"
    BY <1>4, <1>6
  <2>3. \A q \in Kept : q \notin ask[a].left \ {p} => figure'[q].stock = Sold(place, level, q)
    BY <1>2, <1>5, <2>1 DEF Right, Kept
  <2>4. \A q \in Kept' : q \notin ask[a].left \ {p} => Right(q)'
    BY <1>1, <1>6, <2>3 DEF Right
  <2>5. ask[a].left = {p} => ask[a].left \ {p} = {}
    OBVIOUS
  <2>6. Asking' <=> ask[a].left # {p}
    BY <1>3, <1>4, <2>2 DEF Asking
  <2>7. ask'[a].pc = "write" => \A q \in Products : ask'[a].sums[q] = Sold(place', level', q)
    BY <1>1, <1>3, <1>4, <2>1
  <2> QED BY <1>3, <1>4, <2>2, <2>4, <2>5, <2>6, <2>7 DEF RightInv
<1> QED BY <1>0, <1>6, <1>7 DEF FigInv

LEMMA FigStep ==
  ASSUME IsFiniteSet(Locations), PlanTypes, FigInv, [Next]_vars
  PROVE  FigInv'
<1>1. CASE StockNext
  BY <1>1, FigStore, FigFetch, FigReadsStatus, FigUpserts, FigWritesLevel, FigReadsFigures,
     FigWritesFigure, FigDies, FigConfirms, FigFinds, FigSums, FigWritesStock DEF StockNext
<1>2. StockInv'
  BY PlanTypesNext DEF PlanTypes
<1>3. CASE PlanNext
  <2>1. NoStockStep
    BY <1>3, Zenon DEF PlanNext, Create, ResizeStarts, ResizeDeletes, ResizeWrites, ResizeDies,
       Finalise, Discard, EditStarts, EditReads, EditWrites, EditDies
  <2> QED BY <1>2, <2>1, FigPlan
<1>4. CASE UNCHANGED vars
  BY <1>2, <1>4, FigPlan DEF vars, stockVars, NoStockStep
<1> QED BY <1>1, <1>3, <1>4 DEF Next

\* The sync tallies what the store sent and setLocationRole sums the level
\* rows: whatever came before, once both are done and neither overlapped the
\* other or died since the last sync began, the figures are the units at the
\* locations that sell, over any finite set of locations.
THEOREM FiguresAgree ==
  ASSUME IsFiniteSet(Locations)
  PROVE  Spec => []FiguresFollowRoles
<1> DEFINE I == PlanTypes /\ FigInv
<1>1. Init => I
  BY PlanTypesInit, FigInit
<1>2. I /\ [Next]_vars => I'
  BY PlanTypesNext, FigStep
<1>3. I => FiguresFollowRoles
  <2> SUFFICES ASSUME I, sync.pc = "idle", ~Asking, ~overlap, NEW p \in Products \ gone
               PROVE  figure[p].stock = Sellable(p)
    BY DEF FiguresFollowRoles
  <2>1. Right(p) /\ level \in Levels
    BY DEF FigInv, RightInv, Kept, StockInv, StockTypeOK
  <2> QED BY <2>1, SellableIsSold DEF Right
<1> HIDE DEF I
<1> QED BY <1>1, <1>2, <1>3, PTL DEF Spec
=============================================================================
