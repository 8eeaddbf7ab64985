----------------------------- MODULE Transfers -----------------------------
(***************************************************************************)
(* One transfer plan of a workspace, over the stock of Stock.tla           *)
(* (apps/web/lib/data/transfers.ts, transfer-edit.ts and                   *)
(* app/(shell)/transfers/actions.ts).  A plan sends units from one         *)
(* location to the branches.  editTransferQuantity runs in a transaction   *)
(* that first updates, and so locks, the plan row; a resize is three       *)
(* statements of their own; finalise and discard are one guarded update.   *)
(* Names, cover and run rates are left out.                                *)
(***************************************************************************)
EXTENDS Stock

CONSTANTS Editors, Resizers     \* requests in flight

ASSUME EditorAssumption == Null \notin Editors

VARIABLES
    plan,       \* the DistributionPlan row
    lines,      \* its DistributionPlanLine rows
    lock,       \* the edit transaction that holds the plan row
    edit,       \* the running editTransferQuantity calls
    resize,     \* the running updateDistributionPlan calls
    doubled     \* history: two resizes overlapped

planVars == <<plan, lines, lock, edit, resize, doubled>>
vars == <<stockVars, planVars>>

EditIdle == [pc |-> "idle", id |-> Null, qty |-> 0]
Created  == "created"       \* who wrote the first lines

Id(x) == <<x.by, x.product, x.to>>

Uses(kind) == budget[kind] > 0 /\ budget' = [budget EXCEPT ![kind] = @ - 1]
NoStockStep == UNCHANGED <<store, place, level, figure, sync, ask, answer, overlap, gone>>

-----------------------------------------------------------------------------
(* Sizing and saving                                                       *)

With(role) == {l \in Locations : place[l] # Null /\ place[l].role = role}

\* What the source has assigned among these lines.
Planned(xs, p) ==
    SumFunctionOnSet([x \in xs |-> x.qty], {x \in xs : x.product = p})

\* getDistributionProposal and sizeTransfers: from a warehouse to the shops,
\* whole units, never more of a product than the source holds.
Sized(who, from) ==
    LET slots == Products \X (With("sells") \ {from})
    IN  {xs \in {{[by |-> who, product |-> s[1], to |-> s[2], qty |-> f[s]] :
                      s \in {s \in slots : f[s] > 0}} : f \in [slots -> Units]} :
            \A p \in Products : Planned(xs, p) <= UnitsAt(level, from, p)}

Create(from, xs) ==
    /\ Uses("plans") /\ plan.status = "none"
    /\ from \in With("holds") /\ xs \in Sized(Created, from) \ {{}}
    /\ plan'  = [status |-> "draft", deleted |-> FALSE, from |-> from]
    /\ lines' = xs
    /\ UNCHANGED <<lock, edit, resize, doubled>> /\ NoStockStep

-----------------------------------------------------------------------------
(* Resizing a draft: updateTransferPlan and updateDistributionPlan         *)

Draft == plan.status = "draft" /\ ~plan.deleted
Resizing == {r \in Resizers : resize[r].pc \in {"delete", "write"}}

\* the findFirst of a draft
ResizeReads == Draft

\* The proposal is sized first, then the plan is read as a draft.
ResizeStarts(r, from, xs) ==
    /\ Uses("resizes") /\ resize[r].pc = "idle" /\ ResizeReads
    /\ from \in With("holds") /\ xs \in Sized(r, from)
    /\ resize'  = [resize EXCEPT ![r] = [pc |-> "delete", from |-> from, lines |-> xs]]
    /\ doubled' = (doubled \/ Resizing # {})
    /\ UNCHANGED <<plan, lines, lock, edit>> /\ NoStockStep

\* deleteMany of the plan's lines
LinesKept == {}

ResizeDeletes(r) ==
    /\ resize[r].pc = "delete"
    /\ lines'  = LinesKept
    /\ resize' = [resize EXCEPT ![r].pc = "write"]
    /\ UNCHANGED <<plan, lock, edit, doubled, budget>> /\ NoStockStep

Free_Always == TRUE
\* a write of the plan row waits for the edit that holds it
Free == lock = Null

\* No guard on the status: a plan finalised or discarded meanwhile changes too.
ResizeWrites(r) ==
    /\ resize[r].pc = "write" /\ Free
    /\ plan'   = [plan EXCEPT !.from = resize[r].from]
    /\ lines'  = lines \cup resize[r].lines
    /\ resize' = [resize EXCEPT ![r] = [pc |-> "done", from |-> Null, lines |-> {}]]
    /\ UNCHANGED <<lock, edit, doubled, budget>> /\ NoStockStep

\* The request dies between its statements: the plan may be left without lines.
ResizeDies(r) ==
    /\ r \in Resizing /\ Uses("faults")
    /\ resize' = [resize EXCEPT ![r] = [pc |-> "done", from |-> Null, lines |-> {}]]
    /\ UNCHANGED <<plan, lines, lock, edit, doubled>> /\ NoStockStep

-----------------------------------------------------------------------------
(* Finalising and discarding                                               *)

Finalise ==
    /\ Draft /\ Free
    /\ plan' = [plan EXCEPT !.status = "final"]
    /\ UNCHANGED <<lines, lock, edit, resize, doubled, budget>> /\ NoStockStep

Discard ==
    /\ plan.status # "none" /\ ~plan.deleted /\ Free
    /\ plan' = [plan EXCEPT !.deleted = TRUE]
    /\ UNCHANGED <<lines, lock, edit, resize, doubled, budget>> /\ NoStockStep

-----------------------------------------------------------------------------
(* Editing a line: editTransferQuantity                                    *)

\* "Only a current draft can be edited."
EditLocks == Draft /\ Free

EditStarts(e, x, n) ==
    /\ Uses("edits") /\ edit[e].pc = "idle" /\ EditLocks
    /\ lock' = e
    /\ edit' = [edit EXCEPT ![e] = [pc |-> "read", id |-> Id(x), qty |-> n]]
    /\ UNCHANGED <<plan, lines, resize, doubled>> /\ NoStockStep

Fits_OwnOnly(x, n) == n = 0 \/ n <= UnitsAt(level, plan.from, x.product)
\* The other destinations' units count; zero is always allowed.
Fits(x, n) ==
    n = 0 \/ n + Planned(lines \ {x}, x.product) <= UnitsAt(level, plan.from, x.product)

Editable(x, n) ==
    /\ plan.from \in With("holds") \cup With("sells")
    /\ x.to \in With("sells") \ {plan.from}
    /\ Fits(x, n)

Unlocks_Kept(e) == lock' = lock /\ edit' = [edit EXCEPT ![e] = EditIdle]
\* commit and rollback both release the row
Unlocks(e) == lock' = Null /\ edit' = [edit EXCEPT ![e] = EditIdle]

EditReads(e) ==
    /\ edit[e].pc = "read"
    /\ \/ /\ \E x \in lines : Id(x) = edit[e].id /\ Editable(x, edit[e].qty)
          /\ edit' = [edit EXCEPT ![e].pc = "write"] /\ lock' = lock
       \/ /\ \A x \in lines : Id(x) = edit[e].id => ~Editable(x, edit[e].qty)
          /\ Unlocks(e)
    /\ UNCHANGED <<plan, lines, resize, doubled, budget>> /\ NoStockStep

\* The update of a line deleted meanwhile throws, and nothing is written.
EditWrites(e) ==
    /\ edit[e].pc = "write"
    /\ lines' = {IF Id(x) = edit[e].id THEN [x EXCEPT !.qty = edit[e].qty] ELSE x : x \in lines}
    /\ Unlocks(e)
    /\ UNCHANGED <<plan, resize, doubled, budget>> /\ NoStockStep

\* The transaction times out or its connection drops: it rolls back.
EditDies(e) ==
    /\ edit[e].pc # "idle" /\ Uses("faults")
    /\ Unlocks(e)
    /\ UNCHANGED <<plan, lines, resize, doubled>> /\ NoStockStep

-----------------------------------------------------------------------------
Init ==
    /\ StockInit
    /\ plan = [status |-> "none", deleted |-> FALSE, from |-> Null]
    /\ lines = {}
    /\ lock = Null
    /\ edit = [e \in Editors |-> EditIdle]
    /\ resize = [r \in Resizers |-> [pc |-> "idle", from |-> Null, lines |-> {}]]
    /\ doubled = FALSE

PlanNext ==
    \/ \E from \in Locations : \E xs \in Sized(Created, from) : Create(from, xs)
    \/ \E r \in Resizers, from \in Locations : \E xs \in Sized(r, from) : ResizeStarts(r, from, xs)
    \/ \E r \in Resizers : ResizeDeletes(r) \/ ResizeWrites(r) \/ ResizeDies(r)
    \/ Finalise \/ Discard
    \/ \E e \in Editors, x \in lines, n \in Units : EditStarts(e, x, n)
    \/ \E e \in Editors : EditReads(e) \/ EditWrites(e) \/ EditDies(e)

Next == (StockNext /\ UNCHANGED planVars) \/ PlanNext

Spec == Init /\ [][Next]_vars

\* The scheduler starts a sync every quarter of an hour and requests run on.
Fairness == /\ WF_vars(SyncSteps /\ UNCHANGED planVars)
            /\ \A a \in Askers : WF_vars(AskSteps(a) /\ UNCHANGED planVars)
FairSpec == Spec /\ Fairness

-----------------------------------------------------------------------------
Lines == [by : Resizers \cup {Created}, product : Products, to : Locations, qty : Units]
Ids   == (Resizers \cup {Created}) \X Products \X Locations

EditRows   == [pc : {"idle", "read", "write"}, id : Ids \cup {Null}, qty : Units]
ResizeRows == [pc : {"idle", "delete", "write", "done"},
               from : Locations \cup {Null}, lines : SUBSET Lines]

TypeOK ==
    /\ StockTypeOK
    /\ plan \in [status : {"none", "draft", "final"}, deleted : BOOLEAN,
                 from : Locations \cup {Null}]
    /\ lines \subseteq Lines
    /\ lock \in Editors \cup {Null}
    /\ \A e \in Editors : (lock = e) <=> (edit[e].pc # "idle")
    /\ edit \in [Editors -> EditRows]
    /\ resize \in [Resizers -> ResizeRows]
    /\ doubled \in BOOLEAN

(* However edits of different lines, resizes, syncs and role changes       *)
(* interleave, the branches of a plan are never promised more of a product *)
(* than its source ever held.  Excepted: two resizes at once, which both   *)
(* delete and then both create their lines.                                *)
NeverOverPromised == ~doubled => \A p \in Products : Planned(lines, p) <= MaxUnits

(* "A finalised plan is a record of a decision": no edit and no finishing  *)
(* request changes its lines or its source.  Excepted: a resize that read  *)
(* the plan while it was a draft.                                          *)
FinalStays ==
    [][plan.status = "final" /\ Resizing = {} =>
        lines' = lines /\ plan'.from = plan.from /\ plan'.status = "final"]_vars
=============================================================================
