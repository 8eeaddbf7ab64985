------------------------------- MODULE Stock -------------------------------
(***************************************************************************)
(* The sellable figures of a workspace and their two writers: the stock    *)
(* phase of the Shopify sync (syncLocationsAndInventory of                 *)
(* apps/worker/src/shopify-sync.ts) and a member confirming what a         *)
(* location is for (setLocationRole, which calls recomputeSellableStock).  *)
(* Neither runs in a transaction: every read and every write below is a    *)
(* step of its own.  `store` is the shop's own truth.                      *)
(*                                                                         *)
(* Units stand for sellableUnits(level): available, or on-hand where the   *)
(* store sent none.  Incoming units and costs are left out.                *)
(***************************************************************************)
EXTENDS Integers, FiniteSets, Functions

CONSTANTS Locations, Products, Null,
          Guess,        \* guessRoleFromName, by location
          Asked,        \* the roles a member picks from
          Askers,       \* requests of setLocationRole
          Opening,      \* what the store holds at first
          MaxUnits,     \* bound on the units of one level
          Budgets       \* bounds: how often each thing may happen, by scenario

ASSUME StockAssumption ==
    /\ Guess \in [Locations -> {"sells", "holds", "enroute", "ignore"}]
    /\ Asked \subseteq {"sells", "holds", "enroute", "ignore"}
    /\ MaxUnits \in Nat
    /\ Opening \in [Locations -> [Products -> (0..MaxUnits) \cup {Null}]]
    /\ Budgets \subseteq [changes : Nat, answers : Nat, faults : Nat,
                           plans : Nat, edits : Nat, resizes : Nat]

VARIABLES
    store,      \* units the store reports at a location, Null: no level there
    place,      \* Location rows: role and roleStatus
    level,      \* InventoryLevel rows
    figure,     \* Product.currentStock and onOrder
    sync,       \* the stock phase of the running sync
    ask,        \* the running setLocationRole requests
    answer,     \* history: the standing answer of a member about a location
    overlap,    \* history: writers overlapped or died since the last clean sync
    gone,       \* history: products that lost a level in the store
    budget      \* what may still happen in this scenario

stockVars == <<store, place, level, figure, sync, ask, answer, overlap, gone, budget>>

Roles   == {"sells", "holds", "enroute", "ignore"}
Units   == 0..MaxUnits
Levels  == [Locations -> [Products -> Units \cup {Null}]]
Figures == [stock : Nat, onOrder : Nat]
PlaceRows == [role : Roles, status : {"assumed", "confirmed"}]

ASSUME NullAssumption == Null \notin Int \cup PlaceRows

Zero    == [stock |-> 0, onOrder |-> 0]

SyncIdle == [pc |-> "idle", shot |-> Null, todo |-> {}, at |-> Null, saw |-> Null,
             role |-> Null, left |-> {}, tally |-> Null, seen |-> {}, read |-> Null]
AskIdle  == [pc |-> "idle", at |-> Null, left |-> {}, sums |-> Null]

Asking == \E a \in Askers : ask[a].pc # "idle"

-----------------------------------------------------------------------------
(* The store                                                               *)

\* Sales, counts and transfers in the shop move a level; a variant taken off
\* a location loses it.
StoreMoves(l, p, n) ==
    /\ budget.changes > 0 /\ store[l][p] # n
    /\ store' = [store EXCEPT ![l][p] = n]
    /\ gone'  = IF n = Null THEN gone \cup {p} ELSE gone
    /\ budget' = [budget EXCEPT !.changes = @ - 1]
    /\ UNCHANGED <<place, level, figure, sync, ask, answer, overlap>>

-----------------------------------------------------------------------------
(* The stock phase of the sync                                             *)

\* The API answered with every location and its levels.
SyncFetches ==
    /\ sync.pc = "idle"
    /\ sync' = [SyncIdle EXCEPT !.pc = "locations", !.shot = store, !.todo = Locations,
                                !.tally = [p \in Products |-> Zero]]
    /\ overlap' = Asking
    /\ UNCHANGED <<store, place, level, figure, ask, answer, gone, budget>>

\* The location's roleStatus is read, the rows are upserted afterwards.
SyncReadsStatus ==
    /\ sync.pc = "locations" /\ sync.todo # {}
    /\ LET l == CHOOSE l \in sync.todo : TRUE
       IN  sync' = [sync EXCEPT !.pc = "upsert", !.at = l, !.todo = @ \ {l},
                        !.saw = IF place[l] = Null THEN "new" ELSE place[l].status]
    /\ UNCHANGED <<store, place, level, figure, ask, answer, overlap, gone, budget>>

RoleData_Always(l, saw) == [role |-> Guess[l], status |-> "assumed"]
\* "Guess a role for new / still-assumed locations; never touch a confirmed one."
RoleData(l, saw) ==
    IF saw = "confirmed" THEN place[l] ELSE [role |-> Guess[l], status |-> "assumed"]

\* The upsert returns the stored role: the tally goes by it.
SyncUpserts ==
    /\ sync.pc = "upsert"
    /\ LET l == sync.at
           row == RoleData(l, sync.saw)
           sold == {p \in Products : sync.shot[l][p] # Null}
       IN  /\ place' = [place EXCEPT ![l] = row]
           /\ sync'  = [sync EXCEPT !.pc = IF sold = {} THEN "locations" ELSE "levels",
                            !.role = row.role, !.left = sold]
           \* an answer given between the read and this write is lost
           /\ answer' = [answer EXCEPT ![l] = IF sync.saw = "confirmed" THEN @ ELSE Null]
    /\ UNCHANGED <<store, level, figure, ask, overlap, gone, budget>>

\* sellsByProduct and enrouteByProduct
Counted(f, role, n) ==
    CASE role = "sells"   -> [f EXCEPT !.stock = @ + n]
      [] role = "enroute" -> [f EXCEPT !.onOrder = @ + n]
      [] OTHER            -> f

Seen_MovedOnly(l, p, n) == IF level[l][p] = n THEN sync.seen ELSE sync.seen \cup {p}
\* a product counts as seen whether or not its level moved
Seen(l, p, n) == sync.seen \cup {p}

\* An unchanged level is not written back, which leaves the same row.
SyncWritesLevel ==
    /\ sync.pc = "levels"
    /\ LET l == sync.at
           p == CHOOSE p \in sync.left : TRUE
           n == sync.shot[l][p]
       IN  /\ level' = [level EXCEPT ![l][p] = n]
           /\ sync'  = [sync EXCEPT !.left = @ \ {p}, !.seen = Seen(l, p, n),
                            !.tally[p] = Counted(@, sync.role, n),
                            !.pc = IF sync.left = {p} THEN "locations" ELSE "levels"]
    /\ UNCHANGED <<store, place, figure, ask, answer, overlap, gone, budget>>

\* One bulk read of the figures before the products are written one by one.
SyncReadsFigures ==
    /\ sync.pc = "locations" /\ sync.todo = {}
    /\ sync' = IF sync.seen = {} THEN SyncIdle
               ELSE [sync EXCEPT !.pc = "figures", !.left = sync.seen, !.read = figure]
    /\ UNCHANGED <<store, place, level, figure, ask, answer, overlap, gone, budget>>

SyncWritesFigure ==
    /\ sync.pc = "figures"
    /\ LET p == CHOOSE p \in sync.left : TRUE
       IN  /\ figure' = IF sync.read[p] = sync.tally[p] THEN figure
                        ELSE [figure EXCEPT ![p] = sync.tally[p]]
           /\ sync' = IF sync.left = {p} THEN SyncIdle ELSE [sync EXCEPT !.left = @ \ {p}]
    /\ UNCHANGED <<store, place, level, ask, answer, overlap, gone, budget>>

\* A write throws, or the worker dies: what is written stays written.
SyncDies ==
    /\ sync.pc # "idle" /\ budget.faults > 0
    /\ sync'  = SyncIdle
    /\ overlap' = TRUE
    /\ budget' = [budget EXCEPT !.faults = @ - 1]
    /\ UNCHANGED <<store, place, level, figure, ask, answer, gone>>

-----------------------------------------------------------------------------
(* A member confirms a location's role                                     *)

\* the products with a level at the location
Affected(l) == {p \in Products : level[l][p] # Null}

\* setLocationRole: the role is written and confirmed at once.
Confirms(a, l, r) ==
    /\ ask[a].pc = "idle" /\ place[l] # Null /\ budget.answers > 0
    /\ place'   = [place EXCEPT ![l] = [role |-> r, status |-> "confirmed"]]
    /\ answer'  = [answer EXCEPT ![l] = r]
    /\ overlap' = (overlap \/ Asking \/ sync.pc # "idle")
    /\ ask'     = [ask EXCEPT ![a] = [AskIdle EXCEPT !.pc = "affected", !.at = l]]
    /\ budget'   = [budget EXCEPT !.answers = @ - 1]
    /\ UNCHANGED <<store, level, figure, sync, gone>>

FindsAffected(a) ==
    /\ ask[a].pc = "affected"
    /\ LET ps == Affected(ask[a].at)
       IN  ask' = [ask EXCEPT ![a] = IF ps = {} THEN AskIdle
                                     ELSE [@ EXCEPT !.pc = "sum", !.left = ps]]
    /\ UNCHANGED <<store, place, level, figure, sync, answer, overlap, gone, budget>>

UnitsAt(held, l, p) == IF held[l][p] = Null THEN 0 ELSE held[l][p]

\* the units of a product over the locations with a role
Total(held, role, p) ==
    SumFunctionOnSet([l \in Locations |-> UnitsAt(held, l, p)],
                     {l \in Locations : place[l] # Null /\ place[l].role = role})

Sellable_AllLevels(p) ==
    SumFunctionOnSet([l \in Locations |-> UnitsAt(level, l, p)], Locations)
\* recomputeSellableStock: the levels at selling locations, zero without one
Sellable(p) == Total(level, "sells", p)

SumsLevels(a) ==
    /\ ask[a].pc = "sum"
    /\ ask' = [ask EXCEPT ![a].pc = "write", ![a].sums = [p \in Products |-> Sellable(p)]]
    /\ UNCHANGED <<store, place, level, figure, sync, answer, overlap, gone, budget>>

WritesStock(a) ==
    /\ ask[a].pc = "write"
    /\ LET p == CHOOSE p \in ask[a].left : TRUE
       IN  /\ figure' = [figure EXCEPT ![p].stock = ask[a].sums[p]]
           /\ ask' = [ask EXCEPT ![a] = IF @.left = {p} THEN AskIdle
                                        ELSE [@ EXCEPT !.left = ask[a].left \ {p}]]
    /\ UNCHANGED <<store, place, level, sync, answer, overlap, gone, budget>>

AskDies(a) ==
    /\ ask[a].pc # "idle" /\ budget.faults > 0
    /\ ask'   = [ask EXCEPT ![a] = AskIdle]
    /\ overlap' = TRUE
    /\ budget' = [budget EXCEPT !.faults = @ - 1]
    /\ UNCHANGED <<store, place, level, figure, sync, answer, gone>>

-----------------------------------------------------------------------------
SyncSteps   == \/ SyncFetches \/ SyncReadsStatus \/ SyncUpserts \/ SyncWritesLevel
               \/ SyncReadsFigures \/ SyncWritesFigure
AskSteps(a) == FindsAffected(a) \/ SumsLevels(a) \/ WritesStock(a)

\* A workspace whose store is connected and not yet read.
StockInit ==
    /\ store = Opening
    /\ place = [l \in Locations |-> Null]
    /\ level = [l \in Locations |-> [p \in Products |-> Null]]
    /\ figure = [p \in Products |-> Zero]
    /\ sync = SyncIdle
    /\ ask = [a \in Askers |-> AskIdle]
    /\ answer = [l \in Locations |-> Null]
    /\ overlap = FALSE
    /\ gone = {}
    /\ budget \in Budgets

StockNext ==
    \/ \E l \in Locations, p \in Products, n \in Units \cup {Null} : StoreMoves(l, p, n)
    \/ SyncFetches \/ SyncReadsStatus \/ SyncUpserts \/ SyncWritesLevel
    \/ SyncReadsFigures \/ SyncWritesFigure \/ SyncDies
    \/ \E a \in Askers, l \in Locations, r \in Asked : Confirms(a, l, r)
    \/ \E a \in Askers : FindsAffected(a) \/ SumsLevels(a) \/ WritesStock(a) \/ AskDies(a)

StockSpec == StockInit /\ [][StockNext]_stockVars

-----------------------------------------------------------------------------
SyncRows == [pc : {"idle", "locations", "upsert", "levels", "figures"},
             shot : Levels \cup {Null}, todo : SUBSET Locations,
             at : Locations \cup {Null}, saw : {"new", "assumed", "confirmed", Null},
             role : Roles \cup {Null}, left : SUBSET Products,
             tally : [Products -> Figures] \cup {Null}, seen : SUBSET Products,
             read : [Products -> Figures] \cup {Null}]

AskRows == [pc : {"idle", "affected", "sum", "write"}, at : Locations \cup {Null},
            left : SUBSET Products, sums : [Products -> Nat] \cup {Null}]

StockTypeOK ==
    /\ store \in Levels /\ level \in Levels
    /\ place \in [Locations -> PlaceRows \cup {Null}]
    /\ figure \in [Products -> Figures]
    /\ sync \in SyncRows
    /\ ask \in [Askers -> AskRows]
    /\ answer \in [Locations -> Roles \cup {Null}]
    /\ overlap \in BOOLEAN /\ gone \subseteq Products
    /\ budget \in [changes : Nat, answers : Nat, faults : Nat,
                          plans : Nat, edits : Nat, resizes : Nat]

(* What a member confirmed stays: no later sync writes its guess over the  *)
(* answer.  Excepted (see SyncUpserts): the answer given between a sync's  *)
(* read of the location and its upsert, which the sync overwrites.         *)
AnswerSticks ==
    \A l \in Locations : answer[l] # Null =>
        place[l] = [role |-> answer[l], status |-> "confirmed"]

(* The stored figure has two writers that compute it separately: the sync  *)
(* tallies what the store sent, setLocationRole sums the level rows.  They *)
(* agree: once both are done, and since the last sync neither overlapped   *)
(* the other or died, every product shows the units at the locations that  *)
(* sell.  Excepted: a product the store dropped at a location, whose level *)
(* row is never deleted and only the second writer counts.                 *)
FiguresFollowRoles ==
    sync.pc = "idle" /\ ~Asking /\ ~overlap =>
        \A p \in Products \ gone : figure[p].stock = Sellable(p)

(* Whatever overlapped, died or was lost, the figures come right by        *)
(* themselves once the store and the members are quiet: every product the  *)
(* store reports ends at exactly what it reports under the roles that      *)
(* stand, and stays there.                                                 *)
FiguresRecover ==
    <>[](\A p \in Products : (\E l \in Locations : store[l][p] # Null) =>
            figure[p] = [stock |-> Total(store, "sells", p),
                         onOrder |-> Total(store, "enroute", p)])
=============================================================================
