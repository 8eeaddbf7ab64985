----------------------------- MODULE SyncQueue -----------------------------
(***************************************************************************)
(* The queue that the Shopify syncs of one workspace go through: asking    *)
(* for a sync (packages/queue/src/index.ts), the workers that run it       *)
(* (apps/worker/src/worker.ts), the row that shows a run on the screen     *)
(* (sync-run.ts), its nightly sweep (sync-schedule-cron.ts), and what a    *)
(* failure for good leads to: counting rejections until the store is       *)
(* paused (recordAuthFailure in shopify-sync.ts) and one mail per incident *)
(* (incident.ts).  What a run does to the catalogue is module ShopifySync. *)
(*                                                                         *)
(* BullMQ keeps the job, its lock and its delays; it is modelled from the  *)
(* options the code gives it.  A worker that dies comes back idle, and the *)
(* lock it held expires.  A hook of a worker ends before the worker's next *)
(* failure is reported.  Left out: bell notices, realtime events, progress *)
(* inside a run, and the seconds a delay lasts.                            *)
(***************************************************************************)
EXTENDS Naturals, FiniteSets

CONSTANTS
    Workers,
    Callers,     \* executions of enqueueSyncOnce
    Rows,        \* SyncRun rows
    Attempts,    \* SYNC_ATTEMPTS
    MaxStalls,   \* SYNC_MAX_STALLED_COUNT
    PauseAfter,  \* AUTH_FAILURES_BEFORE_PAUSE
    Recipients,  \* how many people the workspace's alert is written to
    MaxTroubles, \* bound on crashes, stalls, failing calls and what people do
    Null

ASSUME QueueAssumption ==
    /\ Attempts \in Nat \ {0}
    /\ MaxStalls \in Nat
    /\ PauseAfter \in Nat \ {0}
    /\ Recipients \in Nat \ {0}
    /\ MaxTroubles \in Nat
    /\ Null \notin Workers \cup Rows

VARIABLES
    job,       \* the one job of this workspace and source
    worker,    \* what each worker is doing
    row,       \* the SyncRun rows
    conn,      \* ShopifyConnection
    hook,      \* handleSyncFailure, one execution per worker
    adding,    \* callers of enqueueSyncOnce that found no job
    incident,  \* is the incident latch armed?
    past,      \* history: what the properties are about
    troubles   \* how often something happened that need not

vars == <<job, worker, row, conn, hook, adding, incident, past, troubles>>

NoJob == [state |-> "none", made |-> 0, stalls |-> 0, holder |-> Null,
          deferred |-> FALSE]
NewJob == [NoJob EXCEPT !.state = "waiting"]
IdleWorker == [pc |-> "idle", row |-> Null, token |-> FALSE, kind |-> "other"]
IdleHook == [pc |-> "idle", count |-> 0, open |-> FALSE, sent |-> 0]
NoMails == [i \in 1..Recipients |-> 0]

\* Earlier attempts and stalls may have left a job waiting.
Init ==
    /\ \/ job = NoJob
       \/ \E m \in 0..Attempts-1, n \in 0..MaxStalls :
             job = [NewJob EXCEPT !.made = m, !.stalls = n]
    /\ worker = [w \in Workers |-> IdleWorker]
    /\ row = [r \in Rows |-> "free"]
    /\ \E good \in BOOLEAN :
          conn = [exists |-> TRUE, live |-> TRUE, good |-> good,
                  failures |-> 0, paused |-> FALSE]
    /\ hook = [w \in Workers |-> IdleHook]
    /\ adding = {}
    /\ incident = FALSE
    /\ past = [owed |-> FALSE, handed |-> 0, strikes |-> 0, raced |-> FALSE,
               mails |-> NoMails, rearmed |-> 0, hookLost |-> FALSE]
    /\ troubles = 0

-----------------------------------------------------------------------------
(* Helpers.  A name with an underscore is a faulty variant of the          *)
(* definition that follows it.                                             *)

Live == conn.exists /\ conn.live
Processing == {w \in Workers : worker[w].pc # "idle"}
Trouble == troubles < MaxTroubles /\ troubles' = troubles + 1

Holds(w) == job.state = "active" /\ job.holder = w

\* An update of a row by id: nothing happens when there is no row.
Written(r, status) ==
    [x \in Rows |-> IF x = r /\ row[x] # "free" THEN status ELSE row[x]]

Fails(w, kind) == worker' = [worker EXCEPT ![w] = [IdleWorker EXCEPT !.pc = "failing", !.kind = kind]]

\* A failing run closes its row before the error reaches the queue.
ClosesFailed(w, kind) ==
    /\ Fails(w, kind)
    /\ row' = Written(worker[w].row, "closed")

\* The token has just proved itself: the rejections in a row end here.  A hook
\* that has one still to record is racing with this.
Proven == [past EXCEPT !.strikes = 0,
                       !.raced = \E v \in Workers : hook[v].pc \in {"count", "write"}]

\* A hook that armed the latch of the incident which is still going on.
Open == {w \in Workers : hook[w].open}
NoneOpen == [w \in Workers |-> [hook[w] EXCEPT !.open = FALSE]]

-----------------------------------------------------------------------------
(* Asking for a sync: the tick, Sync now and the OAuth callback.           *)

\* Jobs are removed as they finish, so a job that exists is queued or running,
\* and the caller is told so.
Look(c) ==
    /\ c \notin adding
    /\ adding' = IF job.state = "none" THEN adding \cup {c} ELSE adding

Tick(c) ==
    /\ Live /\ ~conn.paused
    /\ Look(c)
    /\ past' = [past EXCEPT !.owed = TRUE]
    /\ UNCHANGED <<job, worker, row, conn, hook, incident, troubles>>

SyncNow(c) ==
    /\ Live
    /\ Look(c)
    /\ past' = [past EXCEPT !.owed = TRUE]
    /\ Trouble
    /\ UNCHANGED <<job, worker, row, conn, hook, incident>>

AddedJob_NoDedup == NewJob
AddedJob == IF job.state = "none" THEN NewJob ELSE job

Add(c) ==
    /\ c \in adding
    /\ job' = AddedJob
    /\ adding' = adding \ {c}
    /\ UNCHANGED <<worker, row, conn, hook, incident, past, troubles>>

-----------------------------------------------------------------------------
(* A worker.                                                               *)

Take(w) ==
    /\ job.state = "waiting" /\ worker[w].pc = "idle"
    /\ job' = [job EXCEPT !.state = "active", !.holder = w]

\* A job that stalled too often fails without being run.
TakeStalled(w) ==
    /\ Take(w) /\ job.deferred
    /\ Fails(w, "stalled")
    /\ UNCHANGED <<row, conn, hook, adding, incident, past, troubles>>

\* No live store, or its credentials cannot be used: no row is opened.
BeginRefused(w) ==
    /\ Take(w) /\ ~job.deferred
    /\ ~Live \/ ~conn.good
    /\ Fails(w, "auth")
    /\ past' = [past EXCEPT !.owed = FALSE]
    /\ UNCHANGED <<row, conn, hook, adding, incident, troubles>>

\* The row is best effort: the run goes on when it cannot be opened.
Begin(w) ==
    /\ Take(w) /\ ~job.deferred
    /\ Live
    /\ \E r \in Rows \cup {Null} :
          /\ r # Null => row[r] = "free" /\ \A v \in Workers : worker[v].row # r
          /\ row' = IF r = Null THEN row ELSE [row EXCEPT ![r] = "running"]
          /\ worker' = [worker EXCEPT ![w] = [IdleWorker EXCEPT
                 !.pc = "running", !.row = r, !.token = conn.good]]
    /\ past' = [past EXCEPT !.owed = FALSE]
    /\ UNCHANGED <<conn, hook, adding, incident, troubles>>

RunOk(w) ==
    /\ worker[w].pc = "running" /\ worker[w].token
    /\ worker' = [worker EXCEPT ![w].pc = "clearLatch", ![w].token = FALSE]
    /\ row' = Written(worker[w].row, "closed")
    /\ UNCHANGED <<job, conn, hook, adding, incident, past, troubles>>

FailAuth(w) ==
    /\ worker[w].pc = "running" /\ ~worker[w].token
    /\ ClosesFailed(w, "auth")
    /\ UNCHANGED <<job, conn, hook, adding, incident, past, troubles>>

\* Anything else that throws, the two clearing calls after run.ok() included.
FailOther(w) ==
    /\ worker[w].pc \in {"running", "clearLatch", "clearFailures"}
    /\ ClosesFailed(w, "other")
    /\ Trouble
    /\ UNCHANGED <<job, conn, hook, adding, incident, past>>

LatchAfterSuccess_Kept == incident
LatchAfterSuccess == FALSE

ClearLatch(w) ==
    /\ worker[w].pc = "clearLatch"
    /\ worker' = [worker EXCEPT ![w].pc = "clearFailures"]
    /\ incident' = LatchAfterSuccess
    /\ past' = [past EXCEPT !.mails = NoMails, !.rearmed = 0, !.hookLost = FALSE]
    /\ hook' = NoneOpen
    /\ UNCHANGED <<job, row, conn, adding, troubles>>

\* A job that is over leaves nothing behind, so its id is free again.
JobOver_Kept == [job EXCEPT !.state = "failed"]
JobOver == NoJob

ProvenConn == [conn EXCEPT !.failures = 0, !.paused = FALSE]

\* The run returns: the job is completed if the lock is still this worker's.
ClearFailures(w) ==
    /\ worker[w].pc = "clearFailures"
    /\ conn' = ProvenConn
    /\ past' = Proven
    /\ worker' = [worker EXCEPT ![w] = IdleWorker]
    /\ job' = IF Holds(w) THEN JobOver ELSE job
    /\ UNCHANGED <<row, hook, adding, incident, troubles>>

Final(w) == worker[w].kind # "other" \/ job.made + 1 >= Attempts

\* The failure reaches the queue: it counts only for the worker with the lock.
Report(w) ==
    /\ worker[w].pc = "failing"
    /\ hook[w].pc = "idle"
    /\ worker' = [worker EXCEPT ![w] = IdleWorker]
    /\ IF ~Holds(w)
       THEN UNCHANGED <<job, hook, past>>
       ELSE IF Final(w)
       THEN /\ job' = JobOver
            /\ hook' = [hook EXCEPT ![w] =
                 [IdleHook EXCEPT
                    !.pc = IF worker[w].kind = "auth" THEN "count" ELSE "latch"]]
            /\ past' = IF worker[w].kind = "auth" /\ past.strikes < PauseAfter
                       THEN [past EXCEPT !.strikes = @ + 1] ELSE past
       ELSE /\ job' = [job EXCEPT !.state = "delayed", !.made = @ + 1, !.holder = Null]
            /\ UNCHANGED <<hook, past>>
    /\ UNCHANGED <<row, conn, adding, incident, troubles>>

DelayEnds ==
    /\ job.state = "delayed"
    /\ job' = [job EXCEPT !.state = "waiting"]
    /\ UNCHANGED <<worker, row, conn, hook, adding, incident, past, troubles>>

\* The process dies, with the hook it was running.
Crash(w) ==
    /\ worker[w].pc # "idle" \/ hook[w].pc # "idle"
    /\ worker' = [worker EXCEPT ![w] = IdleWorker]
    /\ hook' = [hook EXCEPT ![w] = IdleHook]
    /\ past' = [past EXCEPT !.hookLost = @ \/ hook[w].open]
    /\ Trouble
    /\ UNCHANGED <<job, row, conn, adding, incident>>

\* The stalled sweep takes a job whose lock has expired: of a dead worker, or
\* of one too busy to renew it.
Swept ==
    IF job.stalls < MaxStalls
    THEN [job EXCEPT !.state = "waiting", !.holder = Null, !.stalls = @ + 1]
    ELSE [job EXCEPT !.state = "waiting", !.holder = Null, !.deferred = TRUE]

Recover ==
    /\ job.state = "active" /\ worker[job.holder].pc = "idle"
    /\ job' = Swept
    /\ UNCHANGED <<worker, row, conn, hook, adding, incident, past, troubles>>

HandOver ==
    /\ job.state = "active" /\ worker[job.holder].pc # "idle"
    /\ job' = Swept
    /\ past' = [past EXCEPT !.handed = @ + 1]
    /\ Trouble
    /\ UNCHANGED <<worker, row, conn, hook, adding, incident>>

-----------------------------------------------------------------------------
(* After a failure for good.                                               *)

HookRead(w) ==
    /\ hook[w].pc = "count"
    /\ hook' = [hook EXCEPT
           ![w] = IF ~conn.exists \/ conn.paused
                  THEN [@ EXCEPT !.pc = "latch"]
                  ELSE [@ EXCEPT !.pc = "write", !.count = conn.failures]]
    /\ UNCHANGED <<job, worker, row, conn, adding, incident, past, troubles>>

PausesAt_OneEarly(count) == count + 1 >= PauseAfter
PausesAt(count) == count >= PauseAfter

\* By tenant, whatever the row says by now; nothing when it is gone.
HookWrite(w) ==
    /\ hook[w].pc = "write"
    /\ hook' = [hook EXCEPT ![w].pc = "latch", ![w].count = 0]
    /\ LET count == hook[w].count + 1 IN
       conn' = IF conn.exists
               THEN [conn EXCEPT !.failures = count, !.paused = @ \/ PausesAt(count)]
               ELSE conn
    /\ UNCHANGED <<job, worker, row, adding, incident, past, troubles>>

MayMail_Always == TRUE
MayMail == ~incident

HookLatch(w) ==
    /\ hook[w].pc = "latch"
    /\ IF MayMail
       THEN /\ incident' = TRUE
            /\ hook' = [hook EXCEPT ![w].pc = "mail", ![w].open = TRUE]
       ELSE /\ hook' = [hook EXCEPT ![w] = IdleHook]
            /\ UNCHANGED incident
    /\ UNCHANGED <<job, worker, row, conn, adding, past, troubles>>

\* The loop over the recipients: the next one is written to.
HookMailed(w) ==
    /\ hook[w].pc = "mail"
    /\ LET next == hook[w].sent + 1 IN
       /\ hook' = [hook EXCEPT ![w] = IF next = Recipients
                                      THEN IdleHook ELSE [@ EXCEPT !.sent = next]]
       /\ past' = IF hook[w].open THEN [past EXCEPT !.mails[next] = @ + 1] ELSE past
    /\ UNCHANGED <<job, worker, row, conn, adding, incident, troubles>>

LatchUnsent_Kept == incident
LatchUnsent == FALSE

\* Nobody to write to, or a send throws, the first or a later one: the latch is
\* released, whoever armed it and whoever was written to before.
HookUnsent(w) ==
    /\ hook[w].pc = "mail"
    /\ incident' = LatchUnsent
    /\ hook' = [hook EXCEPT ![w] = IdleHook]
    /\ past' = [past EXCEPT
           !.hookLost = FALSE,
           !.rearmed = IF incident /\ ~(hook[w].open /\ hook[w].sent = 0) THEN @ + 1 ELSE @]
    /\ Trouble
    /\ UNCHANGED <<job, worker, row, conn, adding>>

-----------------------------------------------------------------------------
(* Time, and the nightly sweep of the rows.                                *)

\* An hour passes over a row whose run is no longer under way.
Ages(r) ==
    /\ row[r] = "running"
    /\ \A w \in Workers : worker[w].row # r
    /\ row' = [row EXCEPT ![r] = "stranded"]
    /\ UNCHANGED <<job, worker, conn, hook, adding, incident, past, troubles>>

\* Rows that finished long enough ago are deleted; what is closed tonight, and
\* what is still running, stays.
AfterNight_PruneOnly(x) == IF x = "closed" THEN {"closed", "free"} ELSE {x}
AfterNight(x) ==
    CASE x = "stranded" -> {"closed"}
      [] x = "closed" -> {"closed", "free"}
      [] OTHER -> {x}

Nightly ==
    /\ \E next \in [Rows -> {"free", "running", "closed", "stranded"}] :
          /\ \A r \in Rows : next[r] \in AfterNight(row[r])
          /\ row' = next
    /\ row' # row
    /\ UNCHANGED <<job, worker, conn, hook, adding, incident, past, troubles>>

-----------------------------------------------------------------------------
(* The connection.                                                         *)

\* The token is revoked in the store, those that runs hold included.
Revoke ==
    /\ conn.good
    /\ conn' = [conn EXCEPT !.good = FALSE]
    /\ worker' = [w \in Workers |-> [worker[w] EXCEPT !.token = FALSE]]
    /\ Trouble
    /\ UNCHANGED <<job, row, hook, adding, incident, past>>

\* Authorizing a store, the same one or another, and asking for its first sync.
Reconnect(c) ==
    /\ Look(c)
    /\ conn' = [exists |-> TRUE, live |-> TRUE, good |-> TRUE,
                failures |-> 0, paused |-> FALSE]
    /\ past' = [Proven EXCEPT !.owed = TRUE]
    /\ Trouble
    /\ UNCHANGED <<job, worker, row, hook, incident>>

Disconnect ==
    /\ Live
    /\ conn' = [conn EXCEPT !.live = FALSE]
    /\ Trouble
    /\ UNCHANGED <<job, worker, row, hook, adding, incident, past>>

\* The runs are deleted, then the connection.
RemoveStore ==
    /\ conn.exists
    /\ row' = [r \in Rows |-> "free"]
    /\ conn' = [conn EXCEPT !.exists = FALSE, !.live = FALSE,
                            !.failures = 0, !.paused = FALSE]
    /\ Trouble
    /\ UNCHANGED <<job, worker, hook, adding, incident, past>>

-----------------------------------------------------------------------------

WorkerStep(w) ==
    \/ TakeStalled(w) \/ BeginRefused(w) \/ Begin(w) \/ RunOk(w) \/ FailAuth(w)
    \/ ClearLatch(w) \/ ClearFailures(w) \/ Report(w)

HookStep(w) == HookRead(w) \/ HookWrite(w) \/ HookLatch(w) \/ HookMailed(w)

Next ==
    \/ \E c \in Callers : Tick(c) \/ SyncNow(c) \/ Add(c) \/ Reconnect(c)
    \/ \E w \in Workers : WorkerStep(w) \/ FailOther(w) \/ Crash(w)
    \/ \E w \in Workers : HookStep(w) \/ HookUnsent(w)
    \/ DelayEnds \/ Recover \/ HandOver
    \/ (\E r \in Rows : Ages(r)) \/ Nightly
    \/ Revoke \/ Disconnect \/ RemoveStore

Spec == Init /\ [][Next]_vars

\* Workers, hooks, the queue's own timers, the tick and the nightly sweep all
\* go on; nothing is promised of people or of the store.
FairSpec ==
    /\ Spec
    /\ \A w \in Workers : WF_vars(WorkerStep(w)) /\ WF_vars(HookStep(w))
    /\ \A c \in Callers : WF_vars(Tick(c)) /\ WF_vars(Add(c))
    /\ WF_vars(DelayEnds) /\ WF_vars(Recover)
    /\ \A r \in Rows : WF_vars(Ages(r))
    /\ WF_vars(Nightly)

-----------------------------------------------------------------------------
(* Properties.                                                             *)

\* The state of the queue, its workers and the connection.
TypeOK ==
    /\ job \in [state : {"none", "waiting", "delayed", "active"}, made : 0..Attempts-1,
                stalls : 0..MaxStalls, holder : Workers \cup {Null}, deferred : BOOLEAN]
    /\ worker \in [Workers -> [pc : {"idle", "running", "clearLatch",
                                     "clearFailures", "failing"},
                               row : Rows \cup {Null}, token : BOOLEAN,
                               kind : {"auth", "stalled", "other"}]]
    /\ row \in [Rows -> {"free", "running", "closed", "stranded"}]
    /\ conn \in [exists : BOOLEAN, live : BOOLEAN, good : BOOLEAN,
                 failures : Nat, paused : BOOLEAN]
    /\ hook \in [Workers -> [pc : {"idle", "count", "write", "latch", "mail"},
                             count : Nat, open : BOOLEAN, sent : 0..Recipients-1]]
    /\ adding \subseteq Callers
    /\ incident \in BOOLEAN
    /\ past \in [owed : BOOLEAN, handed : Nat, strikes : 0..PauseAfter,
                 raced : BOOLEAN, mails : [1..Recipients -> Nat], rearmed : Nat,
                 hookLost : BOOLEAN]
    /\ troubles \in 0..MaxTroubles

\* packages/queue/src/index.ts:38: one workspace never has two syncs running.
\* However callers and ticks race, a second writer appears only when the queue
\* itself handed a live worker's job over, and one for each time it did.
OneWriter == Cardinality(Processing) <= 1 + past.handed

\* shopify-sync.ts:1066: only PauseAfter rejections in a row pause a store - the
\* stored count never runs ahead of the rejections since the token last proved
\* itself, unless it did so under a hook that was recording one.
PauseIsEarned ==
    ~past.raced => /\ conn.failures <= past.strikes
                   /\ conn.paused => past.strikes >= PauseAfter

\* incident.ts:86 and 109: one mail per incident and recipient, and one more for
\* each time the latch was released after somebody may have been written to; and
\* an armed latch means that everybody was, or is about to be - unless the
\* process died before the last mail.
OneMailPerIncident ==
    /\ \A i \in 1..Recipients : past.mails[i] <= 1 + past.rearmed
    /\ incident /\ past.mails[Recipients] = 0 => past.hookLost \/ Open # {}

\* What line 86 says without that, which a send that throws after another one
\* went out refutes.
OneMailEach == \A i \in 1..Recipients : past.mails[i] <= 1

\* index.ts:74: "already running" and lost jobs cost a delay, never the sync: a
\* run begins after every request, unless the store is paused or gone.
EveryRequestServed == past.owed ~> ~past.owed \/ conn.paused \/ ~Live

\* sync-schedule-cron.ts:131: no row is left running for ever.
EveryRunCloses == \A r \in Rows : (row[r] \in {"running", "stranded"}) ~> (row[r] \notin {"running", "stranded"})

\* incident.ts:32 and shopify-sync.ts:1072: a store that stays usable has its
\* latch and its count cleared, however the failures before it interleaved.
Usable == Live /\ conn.good /\ ~conn.paused
AlarmEnds == <>[]Usable => <>[](~incident /\ conn.failures = 0)
=============================================================================
