-------------------------- MODULE SyncQueueProofs --------------------------
(***************************************************************************)
(* Proofs about SyncQueue, for every number of workers, callers, rows and  *)
(* attempts.                                                               *)
(***************************************************************************)
EXTENDS SyncQueue, FiniteSetTheorems, TLAPS

-----------------------------------------------------------------------------
(* Types, one conjunct at a time.                                          *)

Jobs    == [state : {"none", "waiting", "delayed", "active"}, made : 0..Attempts-1,
            stalls : 0..MaxStalls, holder : Workers \cup {Null}, deferred : BOOLEAN]
WorkerStates == [pc : {"idle", "running", "clearLatch", "clearFailures", "failing"},
            row : Rows \cup {Null}, token : BOOLEAN, kind : {"auth", "stalled", "other"}]
RowStates == {"free", "running", "closed", "stranded"}
Conns   == [exists : BOOLEAN, live : BOOLEAN, good : BOOLEAN,
            failures : Nat, paused : BOOLEAN]
HookStates == [pc : {"idle", "count", "write", "latch", "mail"}, count : Nat,
               open : BOOLEAN, sent : 0..Recipients-1]
Pasts   == [owed : BOOLEAN, handed : Nat, strikes : 0..PauseAfter,
            raced : BOOLEAN, mails : [1..Recipients -> Nat], rearmed : Nat,
            hookLost : BOOLEAN]

LEMMA TypeParts ==
    TypeOK <=> /\ job \in Jobs
               /\ worker \in [Workers -> WorkerStates]
               /\ row \in [Rows -> RowStates]
               /\ conn \in Conns
               /\ hook \in [Workers -> HookStates]
               /\ adding \subseteq Callers
               /\ incident \in BOOLEAN
               /\ past \in Pasts
               /\ troubles \in 0..MaxTroubles
  BY DEF TypeOK, Jobs, WorkerStates, RowStates, Conns, HookStates, Pasts

LEMMA IdleTypes ==
    /\ NoJob \in Jobs /\ NewJob \in Jobs
    /\ IdleWorker \in WorkerStates /\ IdleHook \in HookStates
<1>1. NoJob \in Jobs
  BY QueueAssumption DEF NoJob, Jobs
<1>2. NewJob \in Jobs
  BY <1>1 DEF NewJob, Jobs
<1>3. IdleWorker \in WorkerStates
  BY DEF IdleWorker, WorkerStates
<1>4. IdleHook \in HookStates
  BY QueueAssumption DEF IdleHook, HookStates
<1> QED BY <1>1, <1>2, <1>3, <1>4

LEMMA TypeInit == Init => TypeOK
<1> SUFFICES ASSUME Init PROVE TypeOK
  OBVIOUS
<1>1. job \in Jobs
  <2>1. ASSUME NEW m \in 0..Attempts-1, NEW n \in 0..MaxStalls
        PROVE  [NewJob EXCEPT !.made = m, !.stalls = n] \in Jobs
    BY IdleTypes DEF Jobs
  <2> QED BY <2>1, IdleTypes DEF Init
<1>2. conn \in Conns
  <2>1. \E good \in BOOLEAN : conn = [exists |-> TRUE, live |-> TRUE, good |-> good,
                                     failures |-> 0, paused |-> FALSE]
    BY Zenon DEF Init
  <2> QED BY <2>1 DEF Conns
<1>3. past \in Pasts
  <2>1. past = [owed |-> FALSE, handed |-> 0, strikes |-> 0, raced |-> FALSE,
                mails |-> NoMails, rearmed |-> 0, hookLost |-> FALSE]
    BY Zenon DEF Init
  <2> QED BY <2>1, QueueAssumption DEF Pasts, NoMails
<1>4. /\ worker \in [Workers -> WorkerStates] /\ hook \in [Workers -> HookStates]
      /\ row \in [Rows -> RowStates]
  BY IdleTypes DEF Init, RowStates
<1>5. adding \subseteq Callers /\ incident \in BOOLEAN /\ troubles \in 0..MaxTroubles
  <2>1. adding = {} /\ incident = FALSE /\ troubles = 0
    BY Zenon DEF Init
  <2>2. incident \in BOOLEAN
    BY <2>1, Zenon
  <2>3. adding \subseteq Callers /\ troubles \in 0..MaxTroubles
    BY <2>1, QueueAssumption
  <2> QED BY <2>2, <2>3
<1> QED BY <1>1, <1>2, <1>3, <1>4, <1>5, TypeParts

-----------------------------------------------------------------------------
(* The job.                                                                *)

LEMMA JobType == TypeOK /\ [Next]_vars => job' \in Jobs
<1> SUFFICES ASSUME TypeOK, [Next]_vars PROVE job' \in Jobs
  OBVIOUS
<1> USE IdleTypes, QueueAssumption
<1>0. job \in Jobs
  BY TypeParts
<1>1. ASSUME NEW w \in Workers, Take(w) PROVE job' \in Jobs
  BY <1>0, <1>1 DEF Take, Jobs
<1>2. ASSUME NEW c \in Callers, Add(c) PROVE job' \in Jobs
  BY <1>0, <1>2 DEF Add, AddedJob
<1>3. ASSUME NEW w \in Workers, Report(w) PROVE job' \in Jobs
  <2>1. CASE job' = job \/ job' = JobOver
    BY <2>1, <1>0 DEF JobOver
  <2>2. CASE ~Final(w) /\ job' = [job EXCEPT !.state = "delayed", !.made = @ + 1, !.holder = Null]
    <3>1. job.made + 1 \in 0..Attempts-1
      BY <2>2, <1>0 DEF Final, Jobs
    <3> QED BY <3>1, <2>2, <1>0 DEF Jobs
  <2> QED BY <1>3, <2>1, <2>2 DEF Report
<1>4. Swept \in Jobs
  <2>1. CASE job.stalls < MaxStalls
    <3>1. job.stalls + 1 \in 0..MaxStalls
      BY <2>1, <1>0 DEF Jobs
    <3>2. Swept = [job EXCEPT !.state = "waiting", !.holder = Null, !.stalls = @ + 1]
      BY <2>1 DEF Swept
    <3> QED BY <3>1, <3>2, <1>0 DEF Jobs
  <2>2. CASE ~(job.stalls < MaxStalls)
    <3>1. Swept = [job EXCEPT !.state = "waiting", !.holder = Null, !.deferred = TRUE]
      BY <2>2 DEF Swept
    <3> QED BY <3>1, <1>0 DEF Jobs
  <2> QED BY <2>1, <2>2
<1>5. ASSUME NEW w \in Workers, WorkerStep(w) PROVE job' \in Jobs
  BY <1>0, <1>1, <1>3, <1>5
     DEF WorkerStep, TakeStalled, BeginRefused, Begin, RunOk, FailAuth, ClearLatch,
         ClearFailures, JobOver
<1>6. CASE DelayEnds \/ Recover \/ HandOver
  BY <1>0, <1>4, <1>6 DEF DelayEnds, Recover, HandOver, Jobs
<1>7. CASE job' = job
  BY <1>0, <1>7
<1>8. ASSUME NEW w \in Workers,
             FailOther(w) \/ Crash(w) \/ HookStep(w) \/ HookUnsent(w)
      PROVE  job' = job
  BY <1>8 DEF FailOther, Crash, HookStep, HookRead, HookWrite, HookLatch, HookMailed, HookUnsent
<1>9. ASSUME NEW c \in Callers, Tick(c) \/ SyncNow(c) \/ Reconnect(c) PROVE job' = job
  BY <1>9 DEF Tick, SyncNow, Reconnect
<1>10. CASE (\E r \in Rows : Ages(r)) \/ Nightly \/ Revoke \/ Disconnect \/ RemoveStore
  BY <1>10, <1>7 DEF Ages, Nightly, Revoke, Disconnect, RemoveStore
<1>11. CASE UNCHANGED vars
  BY <1>11, <1>7 DEF vars
<1> QED BY <1>2, <1>5, <1>6, <1>7, <1>8, <1>9, <1>10, <1>11 DEF Next

-----------------------------------------------------------------------------
(* The workers.                                                            *)

LEMMA WorkerType == TypeOK /\ [Next]_vars => worker' \in [Workers -> WorkerStates]
<1> SUFFICES ASSUME TypeOK, [Next]_vars PROVE worker' \in [Workers -> WorkerStates]
  OBVIOUS
<1> DEFINE Good == worker' \in [Workers -> WorkerStates]
<1>0. worker \in [Workers -> WorkerStates] /\ conn.good \in BOOLEAN
  BY TypeParts DEF Conns
<1>1. ASSUME NEW w \in Workers, NEW k \in {"auth", "stalled", "other"}, Fails(w, k) PROVE Good
  BY <1>0, <1>1, IdleTypes DEF Fails, WorkerStates
<1>2. ASSUME NEW w \in Workers, worker' = [worker EXCEPT ![w] = IdleWorker] PROVE Good
  BY <1>0, <1>2, IdleTypes
<1>3. ASSUME NEW w \in Workers, Begin(w) PROVE Good
  <2>1. PICK r \in Rows \cup {Null} : worker' = [worker EXCEPT ![w] = [IdleWorker EXCEPT
                 !.pc = "running", !.row = r, !.token = conn.good]]
    BY <1>3 DEF Begin
  <2>2. [IdleWorker EXCEPT !.pc = "running", !.row = r, !.token = conn.good] \in WorkerStates
    BY <1>0, IdleTypes DEF WorkerStates
  <2> QED BY <1>0, <2>1, <2>2
<1>4. ASSUME NEW w \in Workers, RunOk(w) \/ ClearLatch(w) PROVE Good
  <2>1. worker[w] \in WorkerStates
    BY <1>0
  <2>2. CASE worker' = [worker EXCEPT ![w].pc = "clearLatch", ![w].token = FALSE]
    BY <2>1, <2>2, <1>0 DEF WorkerStates
  <2>3. CASE worker' = [worker EXCEPT ![w].pc = "clearFailures"]
    BY <2>1, <2>3, <1>0 DEF WorkerStates
  <2> QED BY <1>4, <2>2, <2>3 DEF RunOk, ClearLatch
<1>5. ASSUME NEW w \in Workers, WorkerStep(w) \/ FailOther(w) \/ Crash(w) PROVE Good
  BY <1>1, <1>2, <1>3, <1>4, <1>5
     DEF WorkerStep, TakeStalled, BeginRefused, FailAuth, ClosesFailed, FailOther,
         ClearFailures, Report, Crash
<1>6. CASE Revoke
  <2>1. worker' = [w \in Workers |-> [worker[w] EXCEPT !.token = FALSE]]
    BY <1>6 DEF Revoke
  <2>2. \A w \in Workers : [worker[w] EXCEPT !.token = FALSE] \in WorkerStates
    BY <1>0 DEF WorkerStates
  <2> QED BY <2>1, <2>2
<1>7. CASE worker' = worker
  BY <1>0, <1>7
<1>8. ASSUME NEW w \in Workers, HookStep(w) \/ HookUnsent(w) PROVE worker' = worker
  BY <1>8 DEF HookStep, HookRead, HookWrite, HookLatch, HookMailed, HookUnsent
<1>9. ASSUME NEW c \in Callers, Tick(c) \/ SyncNow(c) \/ Add(c) \/ Reconnect(c)
      PROVE  worker' = worker
  BY <1>9 DEF Tick, SyncNow, Add, Reconnect
<1>10. CASE \/ DelayEnds \/ Recover \/ HandOver
            \/ (\E r \in Rows : Ages(r)) \/ Nightly \/ Disconnect \/ RemoveStore
  BY <1>10, <1>7 DEF DelayEnds, Recover, HandOver, Ages, Nightly, Disconnect, RemoveStore
<1>11. CASE UNCHANGED vars
  BY <1>11, <1>7 DEF vars
<1> QED BY <1>5, <1>6, <1>7, <1>8, <1>9, <1>10, <1>11 DEF Next
-----------------------------------------------------------------------------
(* The connection, the hooks and the history.                              *)

LEMMA ConnType == TypeOK /\ [Next]_vars => conn' \in Conns
<1> SUFFICES ASSUME TypeOK, [Next]_vars PROVE conn' \in Conns
  OBVIOUS
<1>0. conn \in Conns /\ hook \in [Workers -> HookStates]
  BY TypeParts
<1>1. ASSUME NEW w \in Workers, ClearFailures(w) PROVE conn' \in Conns
  BY <1>0, <1>1 DEF ClearFailures, ProvenConn, Conns
<1>2. ASSUME NEW w \in Workers, HookWrite(w) PROVE conn' \in Conns
  <2> DEFINE count == hook[w].count + 1
  <2>1. count \in Nat
    BY <1>0 DEF HookStates
  <2>2. [conn EXCEPT !.failures = count, !.paused = @ \/ PausesAt(count)] \in Conns
    <3>1. (conn.paused \/ PausesAt(count)) \in BOOLEAN
      BY Zenon
    <3> QED BY <1>0, <2>1, <3>1 DEF Conns
  <2>3. CASE conn' = conn
    BY <2>3, <1>0
  <2> QED BY <2>2, <2>3, <1>2 DEF HookWrite
<1>3. CASE Revoke \/ Disconnect \/ RemoveStore
  <2>1. CASE conn' = [conn EXCEPT !.good = FALSE]
    BY <1>0, <2>1 DEF Conns
  <2>2. CASE conn' = [conn EXCEPT !.live = FALSE]
    BY <1>0, <2>2 DEF Conns
  <2>3. CASE conn' = [conn EXCEPT !.exists = FALSE, !.live = FALSE,
                                  !.failures = 0, !.paused = FALSE]
    BY <1>0, <2>3 DEF Conns
  <2> QED BY <1>3, <2>1, <2>2, <2>3, Zenon DEF Revoke, Disconnect, RemoveStore
<1>4. ASSUME NEW c \in Callers, Reconnect(c) PROVE conn' \in Conns
  BY <1>4 DEF Reconnect, Conns
<1>5. CASE conn' = conn
  BY <1>0, <1>5
<1>6. ASSUME NEW w \in Workers,
             \/ WorkerStep(w) /\ ~ClearFailures(w)
             \/ FailOther(w) \/ Crash(w)
             \/ HookStep(w) /\ ~HookWrite(w)
             \/ HookUnsent(w)
      PROVE  conn' = conn
  BY <1>6 DEF WorkerStep, TakeStalled, BeginRefused, Begin, RunOk, FailAuth, ClearLatch,
      Report, FailOther, Crash, HookStep, HookRead, HookLatch, HookMailed, HookUnsent
<1>7. ASSUME NEW c \in Callers, Tick(c) \/ SyncNow(c) \/ Add(c) PROVE conn' = conn
  BY <1>7 DEF Tick, SyncNow, Add
<1>8. CASE DelayEnds \/ Recover \/ HandOver \/ (\E r \in Rows : Ages(r)) \/ Nightly
  BY <1>8, <1>5 DEF DelayEnds, Recover, HandOver, Ages, Nightly
<1>9. CASE UNCHANGED vars
  BY <1>9, <1>5 DEF vars
<1> QED BY <1>1, <1>2, <1>3, <1>4, <1>5, <1>6, <1>7, <1>8, <1>9 DEF Next

LEMMA HookType == TypeOK /\ [Next]_vars => hook' \in [Workers -> HookStates]
<1> SUFFICES ASSUME TypeOK, [Next]_vars PROVE hook' \in [Workers -> HookStates]
  OBVIOUS
<1> DEFINE Good == hook' \in [Workers -> HookStates]
<1>0. hook \in [Workers -> HookStates] /\ conn.failures \in Nat
  BY TypeParts DEF Conns
<1>1. NoneOpen \in [Workers -> HookStates]
  <2>1. \A v \in Workers : [hook[v] EXCEPT !.open = FALSE] \in HookStates
    BY <1>0 DEF HookStates
  <2> QED BY <2>1 DEF NoneOpen
<1>2. ASSUME NEW w \in Workers, hook' = [hook EXCEPT ![w] = IdleHook] PROVE Good
  BY <1>0, <1>2, IdleTypes
<1>3. ASSUME NEW w \in Workers, Report(w) PROVE Good
  <2>1. ASSUME NEW pc \in {"count", "latch"} PROVE [IdleHook EXCEPT !.pc = pc] \in HookStates
    BY IdleTypes DEF HookStates
  <2>2. CASE hook' = hook
    BY <2>2, <1>0
  <2>3. ASSUME NEW pc \in {"count", "latch"},
               hook' = [hook EXCEPT ![w] = [IdleHook EXCEPT !.pc = pc]]
        PROVE  Good
    BY <1>0, <2>1, <2>3
  <2>4. \/ hook' = hook
        \/ hook' = [hook EXCEPT ![w] = [IdleHook EXCEPT
                      !.pc = IF worker[w].kind = "auth" THEN "count" ELSE "latch"]]
    BY <1>3, Zenon DEF Report
  <2> QED BY <2>2, <2>3, <2>4
<1>4. ASSUME NEW w \in Workers, HookRead(w) PROVE Good
  <2>0. hook[w] \in HookStates
    BY <1>0
  <2>1. [hook[w] EXCEPT !.pc = "latch"] \in HookStates
    BY <2>0 DEF HookStates
  <2>2. [hook[w] EXCEPT !.pc = "write", !.count = conn.failures] \in HookStates
    BY <2>0, <1>0 DEF HookStates
  <2> QED BY <1>0, <1>4, <2>1, <2>2 DEF HookRead
<1>5. ASSUME NEW w \in Workers, HookWrite(w) PROVE Good
  <2>0. hook[w] \in HookStates
    BY <1>0
  <2> QED BY <1>0, <1>5, <2>0 DEF HookWrite, HookStates
<1>6. ASSUME NEW w \in Workers, HookLatch(w) PROVE Good
  <2>0. hook[w] \in HookStates
    BY <1>0
  <2>1. CASE hook' = [hook EXCEPT ![w].pc = "mail", ![w].open = TRUE]
    BY <1>0, <2>0, <2>1 DEF HookStates
  <2> QED BY <1>2, <1>6, <2>1 DEF HookLatch
<1>7. ASSUME NEW w \in Workers, HookMailed(w) PROVE Good
  <2>0. hook[w] \in HookStates
    BY <1>0
  <2>1. hook[w].sent \in 0..Recipients-1
    BY <2>0 DEF HookStates
  <2> DEFINE next == hook[w].sent + 1
  <2>2. CASE next = Recipients
    <3>1. hook' = [hook EXCEPT ![w] = IdleHook]
      BY <1>7, <2>2 DEF HookMailed
    <3> QED BY <1>2, <3>1
  <2>3. CASE next # Recipients
    <3>1. hook' = [hook EXCEPT ![w] = [hook[w] EXCEPT !.sent = next]]
      BY <1>0, <1>7, <2>3 DEF HookMailed
    <3>2. next \in 0..Recipients-1
      BY <2>1, <2>3, QueueAssumption
    <3> HIDE DEF next
    <3>3. [hook[w] EXCEPT !.sent = next] \in HookStates
      BY <2>0, <3>2 DEF HookStates
    <3> QED BY <1>0, <3>1, <3>3
  <2> QED BY <2>2, <2>3
<1>8. ASSUME NEW w \in Workers, HookUnsent(w) PROVE Good
  BY <1>2, <1>8 DEF HookUnsent
<1>9. ASSUME NEW w \in Workers, Crash(w) PROVE Good
  BY <1>2, <1>9 DEF Crash
<1>10. ASSUME NEW w \in Workers, ClearLatch(w) PROVE Good
  BY <1>1, <1>10 DEF ClearLatch
<1>11. CASE hook' = hook
  BY <1>0, <1>11
<1>12. ASSUME NEW w \in Workers,
              (WorkerStep(w) /\ ~Report(w) /\ ~ClearLatch(w)) \/ FailOther(w)
       PROVE  hook' = hook
  BY <1>12 DEF WorkerStep, TakeStalled, BeginRefused, Begin, RunOk, FailAuth,
      ClearFailures, FailOther
<1>13. ASSUME NEW c \in Callers, Tick(c) \/ SyncNow(c) \/ Add(c) \/ Reconnect(c)
       PROVE  hook' = hook
  BY <1>13 DEF Tick, SyncNow, Add, Reconnect
<1>14. CASE \/ DelayEnds \/ Recover \/ HandOver \/ (\E r \in Rows : Ages(r)) \/ Nightly
            \/ Revoke \/ Disconnect \/ RemoveStore
  BY <1>14, <1>11 DEF DelayEnds, Recover, HandOver, Ages, Nightly, Revoke, Disconnect, RemoveStore
<1>15. CASE UNCHANGED vars
  BY <1>15, <1>11 DEF vars
<1> QED BY <1>3, <1>4, <1>5, <1>6, <1>7, <1>8, <1>9, <1>10, <1>11, <1>12, <1>13, <1>14, <1>15
        DEF Next, HookStep
-----------------------------------------------------------------------------
LEMMA PastType == TypeOK /\ [Next]_vars => past' \in Pasts
<1> SUFFICES ASSUME TypeOK, [Next]_vars PROVE past' \in Pasts
  OBVIOUS
<1>0. /\ past \in Pasts /\ 0 \in 0..PauseAfter
      /\ \A w \in Workers : hook[w].open \in BOOLEAN /\ hook[w].sent \in 0..Recipients-1
  BY TypeParts, QueueAssumption DEF HookStates
<1>1. ASSUME NEW b \in BOOLEAN, past' = [past EXCEPT !.owed = b] PROVE past' \in Pasts
  BY <1>0, <1>1 DEF Pasts
<1>2. Proven \in Pasts
  <2> DEFINE r == \E v \in Workers : hook[v].pc \in {"count", "write"}
  <2>1. r \in BOOLEAN
    BY Zenon
  <2>2. Proven = [past EXCEPT !.strikes = 0, !.raced = r]
    BY Zenon DEF Proven
  <2> HIDE DEF r
  <2> QED BY <1>0, <2>1, <2>2 DEF Pasts
<1>3. ASSUME NEW w \in Workers, ClearLatch(w) PROVE past' \in Pasts
  <2>1. past' = [past EXCEPT !.mails = NoMails, !.rearmed = 0, !.hookLost = FALSE]
    BY <1>3 DEF ClearLatch
  <2>2. NoMails \in [1..Recipients -> Nat]
    BY DEF NoMails
  <2> QED BY <1>0, <2>1, <2>2 DEF Pasts
<1>4. ASSUME NEW w \in Workers, Crash(w) PROVE past' \in Pasts
  <2> DEFINE b == past.hookLost \/ hook[w].open
  <2>1. b \in BOOLEAN
    BY Zenon
  <2>2. past' = [past EXCEPT !.hookLost = b]
    BY <1>4, Zenon DEF Crash
  <2> HIDE DEF b
  <2> QED BY <1>0, <2>1, <2>2 DEF Pasts
<1>5. ASSUME NEW w \in Workers, Report(w) PROVE past' \in Pasts
  <2>1. CASE past.strikes < PauseAfter /\ past' = [past EXCEPT !.strikes = @ + 1]
    <3>1. past.strikes + 1 \in 0..PauseAfter
      BY <1>0, <2>1, QueueAssumption DEF Pasts
    <3> QED BY <1>0, <2>1, <3>1 DEF Pasts
  <2>2. CASE past' = past
    BY <1>0, <2>2
  <2> QED BY <1>5, <2>1, <2>2, Zenon DEF Report
<1>6. ASSUME NEW w \in Workers, HookMailed(w) PROVE past' \in Pasts
  <2> DEFINE next == hook[w].sent + 1
             more == [past.mails EXCEPT ![next] = @ + 1]
  <2>1. past' = past \/ past' = [past EXCEPT !.mails = more]
    BY <1>6 DEF HookMailed
  <2>2. more \in [1..Recipients -> Nat]
    <3>1. past.mails \in [1..Recipients -> Nat]
      BY <1>0 DEF Pasts
    <3>2. next \in 1..Recipients
      <4>1. hook[w].sent \in 0..Recipients-1 /\ Recipients \in Nat
        BY <1>0, QueueAssumption
      <4> QED BY <4>1
    <3>3. ASSUME NEW f \in [1..Recipients -> Nat], NEW n \in 1..Recipients
          PROVE  [f EXCEPT ![n] = @ + 1] \in [1..Recipients -> Nat]
      BY <3>3
    <3> HIDE DEF next
    <3> QED BY <3>1, <3>2, <3>3
  <2> HIDE DEF more
  <2> QED BY <1>0, <2>1, <2>2 DEF Pasts
<1>u. ASSUME NEW w \in Workers, HookUnsent(w) PROVE past' \in Pasts
  <2>1. PICK n \in Nat : past' = [past EXCEPT !.hookLost = FALSE, !.rearmed = n]
    <3> DEFINE again == IF incident /\ ~(hook[w].open /\ hook[w].sent = 0)
                        THEN past.rearmed + 1 ELSE past.rearmed
    <3>1. again \in Nat
      BY <1>0 DEF Pasts
    <3>2. past' = [past EXCEPT !.hookLost = FALSE, !.rearmed = again]
      BY <1>u, <1>0 DEF HookUnsent, Pasts
    <3> HIDE DEF again
    <3> QED BY <3>1, <3>2
  <2> QED BY <1>0, <2>1 DEF Pasts
<1>7. CASE HandOver
  <2>1. past' = [past EXCEPT !.handed = @ + 1]
    BY <1>7 DEF HandOver
  <2> QED BY <1>0, <2>1 DEF Pasts
<1>8. ASSUME NEW c \in Callers, Reconnect(c) PROVE past' \in Pasts
  <2>1. past' = [Proven EXCEPT !.owed = TRUE]
    BY <1>8 DEF Reconnect
  <2> QED BY <1>2, <2>1 DEF Pasts
<1>9. CASE past' = past
  BY <1>0, <1>9
<1>10. ASSUME NEW w \in Workers, WorkerStep(w) PROVE past' \in Pasts
  BY <1>1, <1>2, <1>3, <1>5, <1>9, <1>10
     DEF WorkerStep, TakeStalled, BeginRefused, Begin, RunOk, FailAuth, ClearFailures
<1>11. ASSUME NEW w \in Workers,
              FailOther(w) \/ Crash(w) \/ HookStep(w) \/ HookUnsent(w)
       PROVE  past' \in Pasts
  BY <1>4, <1>6, <1>u, <1>9, <1>11
     DEF FailOther, HookStep, HookRead, HookWrite, HookLatch
<1>12. ASSUME NEW c \in Callers, Tick(c) \/ SyncNow(c) \/ Add(c) PROVE past' \in Pasts
  BY <1>1, <1>9, <1>12 DEF Tick, SyncNow, Add
<1>13. CASE \/ DelayEnds \/ Recover \/ (\E r \in Rows : Ages(r)) \/ Nightly
            \/ Revoke \/ Disconnect \/ RemoveStore
  BY <1>9, <1>13 DEF DelayEnds, Recover, Ages, Nightly, Revoke, Disconnect, RemoveStore
<1>14. CASE UNCHANGED vars
  BY <1>9, <1>14 DEF vars
<1> QED BY <1>7, <1>8, <1>9, <1>10, <1>11, <1>12, <1>13, <1>14 DEF Next

\* The rows, the callers, the latch and the bound.
LEMMA RestType ==
    TypeOK /\ [Next]_vars => /\ row' \in [Rows -> RowStates]
                            /\ adding' \subseteq Callers
                            /\ incident' \in BOOLEAN
                            /\ troubles' \in 0..MaxTroubles
<1> SUFFICES ASSUME TypeOK, [Next]_vars
             PROVE  /\ row' \in [Rows -> RowStates] /\ adding' \subseteq Callers
                    /\ incident' \in BOOLEAN /\ troubles' \in 0..MaxTroubles
  OBVIOUS
<1> DEFINE Good == /\ row' \in [Rows -> RowStates] /\ adding' \subseteq Callers
                   /\ troubles' \in 0..MaxTroubles
<1>0. /\ row \in [Rows -> RowStates] /\ adding \subseteq Callers
      /\ troubles \in 0..MaxTroubles
  BY TypeParts
<1>1. incident \in BOOLEAN
  BY TypeParts
<1>2. Trouble => troubles' \in 0..MaxTroubles
  BY <1>0, QueueAssumption DEF Trouble
<1>3. ASSUME NEW r, NEW x \in RowStates PROVE Written(r, x) \in [Rows -> RowStates]
  BY <1>0, <1>3 DEF Written
<1>4. "closed" \in RowStates /\ "running" \in RowStates /\ "stranded" \in RowStates
      /\ "free" \in RowStates
  BY DEF RowStates
<1>5. incident' \in BOOLEAN
  <2>1. CASE incident' = incident
    BY <1>1, <2>1, Zenon
  <2>2. CASE incident' = TRUE \/ incident' = FALSE
    BY <2>2, Zenon
  <2>3. ASSUME NEW w \in Workers, WorkerStep(w) PROVE incident' = incident \/ incident' = FALSE
    BY <2>3, Zenon DEF WorkerStep, TakeStalled, BeginRefused, Begin, RunOk, FailAuth, ClearLatch,
       ClearFailures, Report, LatchAfterSuccess
  <2>4. ASSUME NEW w \in Workers, HookStep(w) \/ HookUnsent(w) \/ FailOther(w) \/ Crash(w)
        PROVE  incident' = incident \/ incident' = TRUE \/ incident' = FALSE
    BY <2>4, Zenon DEF HookStep, HookRead, HookWrite, HookLatch, HookMailed, HookUnsent,
       LatchUnsent, FailOther, Crash
  <2>5. ASSUME NEW c \in Callers, Tick(c) \/ SyncNow(c) \/ Add(c) \/ Reconnect(c)
        PROVE  incident' = incident
    BY <2>5, Zenon DEF Tick, SyncNow, Add, Reconnect
  <2>6. CASE \/ DelayEnds \/ Recover \/ HandOver \/ (\E r \in Rows : Ages(r)) \/ Nightly
             \/ Revoke \/ Disconnect \/ RemoveStore \/ UNCHANGED vars
    BY <2>1, <2>6, Zenon DEF DelayEnds, Recover, HandOver, Ages, Nightly, Revoke, Disconnect,
       RemoveStore, vars
  <2> QED BY <2>1, <2>2, <2>3, <2>4, <2>5, <2>6, Zenon DEF Next
<1>6. ASSUME NEW w \in Workers, WorkerStep(w) \/ FailOther(w) \/ Crash(w) PROVE Good
  <2>1. ASSUME Begin(w) PROVE Good
    <3>1. PICK r \in Rows \cup {Null} :
             row' = IF r = Null THEN row ELSE [row EXCEPT ![r] = "running"]
      BY <2>1 DEF Begin
    <3> QED BY <1>0, <1>4, <2>1, <3>1 DEF Begin
  <2>2. ASSUME RunOk(w) \/ FailAuth(w) \/ FailOther(w) PROVE Good
    <3>1. row' = Written(worker[w].row, "closed")
      BY <2>2 DEF RunOk, FailAuth, FailOther, ClosesFailed
    <3>2. row' \in [Rows -> RowStates]
      BY <1>3, <1>4, <3>1
    <3> QED BY <1>0, <1>2, <2>2, <3>2 DEF RunOk, FailAuth, FailOther
  <2>3. CASE TakeStalled(w) \/ BeginRefused(w) \/ ClearLatch(w) \/ ClearFailures(w)
             \/ Report(w) \/ Crash(w)
    BY <1>0, <1>2, <2>3
       DEF TakeStalled, BeginRefused, ClearLatch, ClearFailures, Report, Crash
  <2> QED BY <1>6, <2>1, <2>2, <2>3 DEF WorkerStep
<1>7. ASSUME NEW w \in Workers, HookStep(w) \/ HookUnsent(w) PROVE Good
  BY <1>0, <1>2, <1>7 DEF HookStep, HookRead, HookWrite, HookLatch, HookMailed, HookUnsent
<1>8. ASSUME NEW c \in Callers, Tick(c) \/ SyncNow(c) \/ Add(c) \/ Reconnect(c) PROVE Good
  BY <1>0, <1>2, <1>8 DEF Tick, SyncNow, Add, Reconnect, Look
<1>9. ASSUME (\E r \in Rows : Ages(r)) \/ Nightly \/ RemoveStore PROVE Good
  <2>1. row' \in [Rows -> RowStates]
    BY <1>0, <1>4, <1>9 DEF Ages, Nightly, RemoveStore, RowStates
  <2> QED BY <1>0, <1>2, <1>9, <2>1 DEF Ages, Nightly, RemoveStore
<1>10. ASSUME DelayEnds \/ Recover \/ HandOver \/ Revoke \/ Disconnect PROVE Good
  BY <1>0, <1>2, <1>10 DEF DelayEnds, Recover, HandOver, Revoke, Disconnect
<1>11. ASSUME UNCHANGED vars PROVE Good
  BY <1>0, <1>11 DEF vars
<1>12. Good
  BY <1>6, <1>7, <1>8, <1>9, <1>10, <1>11 DEF Next
<1> QED BY <1>5, <1>12

LEMMA TypeStep == TypeOK /\ [Next]_vars => TypeOK'
<1> SUFFICES ASSUME TypeOK, [Next]_vars PROVE TypeOK'
  OBVIOUS
<1>1. /\ job' \in Jobs /\ worker' \in [Workers -> WorkerStates] /\ conn' \in Conns
      /\ hook' \in [Workers -> HookStates] /\ past' \in Pasts
      /\ row' \in [Rows -> RowStates] /\ adding' \subseteq Callers
      /\ incident' \in BOOLEAN /\ troubles' \in 0..MaxTroubles
  BY JobType, WorkerType, ConnType, HookType, PastType, RestType
<1> QED BY <1>1 DEF TypeOK, Jobs, WorkerStates, RowStates, Conns, HookStates, Pasts

\* The queue, its workers and the connection keep their types: a job is never
\* tried more than Attempts times (SYNC_ATTEMPTS), nor recovered from a stall
\* more than MaxStalls times, whatever crashes and races there are.
THEOREM QueueTypes == Spec => []TypeOK
  BY TypeInit, TypeStep, PTL DEF Spec
-----------------------------------------------------------------------------
(* One writer.                                                             *)

\* A worker that is busy with a job it no longer holds.
Extra == {w \in Processing : ~Holds(w)}

WriterInv == IsFiniteSet(Workers) /\ Cardinality(Extra) <= past.handed

LEMMA ExtraFinite ==
    ASSUME IsFiniteSet(Workers)
    PROVE  IsFiniteSet(Extra) /\ Cardinality(Extra) \in Nat
<1>1. Extra \subseteq Workers
  BY DEF Extra, Processing
<1> QED BY <1>1, FS_Subset, FS_CardinalityType

LEMMA OneElementMore ==
    ASSUME NEW S, NEW x, IsFiniteSet(S), Cardinality(S) \in Nat
    PROVE  /\ IsFiniteSet(S \cup {x})
           /\ Cardinality(S \cup {x}) <= Cardinality(S) + 1
           /\ Cardinality(S \cup {x}) \in Nat
  BY FS_AddElement

\* Whoever works holds the job, or is an extra one: at most one holds it.
LEMMA WritersCounted ==
    ASSUME TypeOK, WriterInv
    PROVE  OneWriter
<1>1. Processing \subseteq Extra \cup {job.holder}
  BY DEF Extra, Holds
<1>2. IsFiniteSet(Extra) /\ Cardinality(Extra) \in Nat
  BY ExtraFinite DEF WriterInv
<1>3. /\ IsFiniteSet(Extra \cup {job.holder})
      /\ Cardinality(Extra \cup {job.holder}) <= Cardinality(Extra) + 1
      /\ Cardinality(Extra \cup {job.holder}) \in Nat
  BY <1>2, OneElementMore
<1>4. Cardinality(Processing) <= Cardinality(Extra \cup {job.holder})
  BY <1>1, <1>3, FS_Subset
<1>5. Cardinality(Processing) \in Nat
  BY <1>1, <1>3, FS_Subset, FS_CardinalityType
<1>6. past.handed \in Nat
  BY TypeParts DEF Pasts
<1> QED BY <1>2, <1>3, <1>4, <1>5, <1>6 DEF OneWriter, WriterInv

LEMMA FewerExtras ==
    ASSUME TypeOK, WriterInv, Extra' \subseteq Extra, past'.handed = past.handed
    PROVE  WriterInv'
<1>1. IsFiniteSet(Extra) /\ Cardinality(Extra) \in Nat
  BY ExtraFinite DEF WriterInv
<1>2. Cardinality(Extra') <= Cardinality(Extra) /\ Cardinality(Extra') \in Nat
  BY <1>1, FS_Subset, FS_CardinalityType
<1>3. past.handed \in Nat
  BY TypeParts DEF Pasts
<1> QED BY <1>1, <1>2, <1>3 DEF WriterInv

\* No step but HandOver leaves a worker busy with a job it does not hold.
LEMMA NoStepAddsExtras ==
    ASSUME TypeOK, [Next]_vars, ~HandOver
    PROVE  Extra' \subseteq Extra /\ past'.handed = past.handed
<1> DEFINE Good == Extra' \subseteq Extra /\ past'.handed = past.handed
<1>0. /\ job \in Jobs /\ worker \in [Workers -> WorkerStates] /\ past \in Pasts
      /\ Null \notin Workers
  BY TypeParts, QueueAssumption
<1>1. ASSUME job' = job, past'.handed = past.handed,
             \A w \in Workers : worker'[w].pc # "idle" => worker[w].pc # "idle"
      PROVE  Good
  BY <1>1 DEF Extra, Processing, Holds
<1>2. ASSUME job'.state # "active", past'.handed = past.handed, NEW w \in Workers,
             Holds(w), worker' = [worker EXCEPT ![w] = IdleWorker]
      PROVE  Good
  BY <1>0, <1>2 DEF Extra, Processing, Holds, IdleWorker
<1>3. ASSUME NEW w \in Workers, Take(w), worker[w].pc = "idle",
             \A v \in Workers \ {w} : worker'[v] = worker[v], past'.handed = past.handed
      PROVE  Good
  BY <1>0, <1>3 DEF Take, Extra, Processing, Holds, Jobs
<1>4. /\ Proven.handed = past.handed
      /\ \A b : [past EXCEPT !.owed = b].handed = past.handed
      /\ \A b : [past EXCEPT !.hookLost = b].handed = past.handed
      /\ [past EXCEPT !.strikes = @ + 1].handed = past.handed
      /\ \A m : [past EXCEPT !.mails = m].handed = past.handed
      /\ \A n : [past EXCEPT !.hookLost = FALSE, !.rearmed = n].handed = past.handed
      /\ \A m : [past EXCEPT !.mails = m, !.rearmed = 0, !.hookLost = FALSE].handed = past.handed
      /\ [Proven EXCEPT !.owed = TRUE].handed = past.handed
  BY <1>0 DEF Proven, Pasts
<1>5. ASSUME NEW w \in Workers, TakeStalled(w) \/ BeginRefused(w) \/ Begin(w) PROVE Good
  <2>1. past'.handed = past.handed
    BY <1>4, <1>5 DEF TakeStalled, BeginRefused, Begin
  <2>2. Take(w) /\ worker[w].pc = "idle"
    BY <1>5 DEF TakeStalled, BeginRefused, Begin, Take
  <2>3. \A v \in Workers \ {w} : worker'[v] = worker[v]
    BY <1>0, <1>5 DEF TakeStalled, BeginRefused, Begin, Fails
  <2> QED BY <1>3, <2>1, <2>2, <2>3
<1>6. ASSUME NEW w \in Workers, RunOk(w) \/ FailAuth(w) \/ FailOther(w) \/ ClearLatch(w)
      PROVE  Good
  <2>1. job' = job /\ past'.handed = past.handed
    <3>1. CASE RunOk(w) \/ FailAuth(w) \/ FailOther(w)
      BY <3>1 DEF RunOk, FailAuth, FailOther
    <3>2. CASE ClearLatch(w)
      BY <1>4, <3>2 DEF ClearLatch
    <3> QED BY <1>6, <3>1, <3>2
  <2>2. worker[w].pc # "idle" /\ \A v \in Workers \ {w} : worker'[v] = worker[v]
    BY <1>0, <1>6 DEF RunOk, FailAuth, FailOther, ClearLatch, ClosesFailed, Fails
  <2> QED BY <1>1, <2>1, <2>2
<1>7. ASSUME NEW w \in Workers, worker' = [worker EXCEPT ![w] = IdleWorker],
             past'.handed = past.handed, job' = job
      PROVE  Good
  BY <1>0, <1>1, <1>7 DEF IdleWorker
<1>8. ASSUME NEW w \in Workers, ClearFailures(w) PROVE Good
  <2>1. worker' = [worker EXCEPT ![w] = IdleWorker] /\ past'.handed = past.handed
    BY <1>4, <1>8 DEF ClearFailures
  <2>2. CASE Holds(w)
    <3>1. job'.state # "active"
      BY <1>8, <2>2 DEF ClearFailures, JobOver, NoJob
    <3> QED BY <1>2, <2>1, <2>2, <3>1
  <2>3. CASE ~Holds(w)
    BY <1>7, <1>8, <2>1, <2>3 DEF ClearFailures
  <2> QED BY <2>2, <2>3
<1>9. ASSUME NEW w \in Workers, Report(w) PROVE Good
  <2>1. worker' = [worker EXCEPT ![w] = IdleWorker] /\ past'.handed = past.handed
    <3>1. CASE ~Holds(w) \/ (Holds(w) /\ ~Final(w))
      <4>1. past' = past
        BY <1>9, <3>1, Zenon DEF Report
      <4> QED BY <1>9, <4>1, Zenon DEF Report
    <3>2. CASE Holds(w) /\ Final(w)
      <4>1. past' = IF worker[w].kind = "auth" /\ past.strikes < PauseAfter
                    THEN [past EXCEPT !.strikes = @ + 1] ELSE past
        BY <1>9, <3>2, Zenon DEF Report
      <4>2. past'.handed = past.handed
        BY <1>4, <4>1
      <4> QED BY <1>9, <4>2, Zenon DEF Report
    <3> QED BY <3>1, <3>2
  <2>2. CASE ~Holds(w)
    <3>1. job' = job
      BY <1>9, <2>2, Zenon DEF Report
    <3> QED BY <1>7, <2>1, <3>1
  <2>3. CASE Holds(w)
    <3>1. \/ job' = JobOver
          \/ job' = [job EXCEPT !.state = "delayed", !.made = @ + 1, !.holder = Null]
      BY <1>9, <2>3, Zenon DEF Report
    <3>2. JobOver.state # "active"
      BY DEF JobOver, NoJob
    <3>3. job'.state # "active"
      <4>1. CASE job' = JobOver
        BY <3>2, <4>1
      <4>2. CASE job' = [job EXCEPT !.state = "delayed", !.made = @ + 1, !.holder = Null]
        BY <1>0, <4>2 DEF Jobs
      <4> QED BY <3>1, <4>1, <4>2
    <3> QED BY <1>2, <2>1, <2>3, <3>3
  <2> QED BY <2>2, <2>3
<1>10. ASSUME NEW w \in Workers, WorkerStep(w) \/ FailOther(w) PROVE Good
  BY <1>5, <1>6, <1>8, <1>9, <1>10 DEF WorkerStep
<1>11. ASSUME NEW w \in Workers, Crash(w) PROVE Good
  <2>1. past'.handed = past.handed
    BY <1>4, <1>11 DEF Crash
  <2> QED BY <1>7, <1>11, <2>1 DEF Crash
<1>12. ASSUME worker' = worker, job' = job, past'.handed = past.handed PROVE Good
  BY <1>1, <1>12
<1>13. ASSUME NEW w \in Workers, HookStep(w) \/ HookUnsent(w) PROVE Good
  <2>1. past'.handed = past.handed
    <3>1. CASE HookRead(w) \/ HookWrite(w) \/ HookLatch(w)
      BY <3>1 DEF HookRead, HookWrite, HookLatch
    <3>2. CASE HookMailed(w)
      <4> DEFINE next == hook[w].sent + 1
                 more == [past.mails EXCEPT ![next] = @ + 1]
      <4>1. past' = past \/ past' = [past EXCEPT !.mails = more]
        BY <3>2 DEF HookMailed
      <4> HIDE DEF more
      <4> QED BY <1>4, <4>1
    <3>3. CASE HookUnsent(w)
      <4>1. \E n : past' = [past EXCEPT !.hookLost = FALSE, !.rearmed = n]
        BY <3>3 DEF HookUnsent
      <4> QED BY <1>4, <4>1
    <3> QED BY <1>13, <3>1, <3>2, <3>3 DEF HookStep
  <2> QED BY <1>12, <1>13, <2>1
          DEF HookStep, HookRead, HookWrite, HookLatch, HookMailed, HookUnsent
<1>14. ASSUME NEW c \in Callers, Tick(c) \/ SyncNow(c) \/ Reconnect(c) PROVE Good
  BY <1>4, <1>12, <1>14 DEF Tick, SyncNow, Reconnect
<1>15. ASSUME NEW c \in Callers, Add(c) PROVE Good
  <2>1. worker' = worker /\ past' = past
    BY <1>15 DEF Add
  <2>2. job' = job \/ (job.state = "none" /\ job'.state = "waiting")
    BY <1>15 DEF Add, AddedJob, NewJob, NoJob
  <2> QED BY <1>12, <2>1, <2>2 DEF Extra, Processing, Holds
<1>16. ASSUME DelayEnds \/ Recover PROVE Good
  <2>1. worker' = worker /\ past' = past
    BY <1>16 DEF DelayEnds, Recover
  <2>2. \A w \in Workers : Holds(w) => worker[w].pc = "idle"
    BY <1>16 DEF DelayEnds, Recover, Holds
  <2> QED BY <2>1, <2>2 DEF Extra, Processing
<1>17. ASSUME Revoke PROVE Good
  <2>1. worker' = [w \in Workers |-> [worker[w] EXCEPT !.token = FALSE]]
        /\ job' = job /\ past' = past
    BY <1>17 DEF Revoke
  <2>2. \A w \in Workers : worker'[w].pc = worker[w].pc
    BY <1>0, <2>1 DEF WorkerStates
  <2> QED BY <1>1, <2>1, <2>2
<1>18. ASSUME (\E r \in Rows : Ages(r)) \/ Nightly \/ Disconnect \/ RemoveStore PROVE Good
  BY <1>12, <1>18 DEF Ages, Nightly, Disconnect, RemoveStore
<1>19. ASSUME UNCHANGED vars PROVE Good
  BY <1>12, <1>19 DEF vars
<1>20. ASSUME \E c \in Callers : Tick(c) \/ SyncNow(c) \/ Add(c) \/ Reconnect(c) PROVE Good
  BY <1>14, <1>15, <1>20
<1>21. ASSUME \E w \in Workers : WorkerStep(w) \/ FailOther(w) \/ Crash(w) PROVE Good
  BY <1>10, <1>11, <1>21
<1>22. ASSUME \E w \in Workers : HookStep(w) \/ HookUnsent(w) PROVE Good
  BY <1>13, <1>22
<1>23. ASSUME (\E r \in Rows : Ages(r)) \/ Nightly \/ Revoke \/ Disconnect \/ RemoveStore PROVE Good
  BY <1>17, <1>18, <1>23
<1> HIDE DEF Good
<1>24. Good
  BY <1>16, <1>19, <1>20, <1>21, <1>22, <1>23, Zenon DEF Next
<1> QED BY <1>24 DEF Good

\* A job handed over while its worker lives leaves one more extra worker.
LEMMA HandOverAddsOne ==
    ASSUME TypeOK, WriterInv, HandOver
    PROVE  WriterInv'
<1>0. IsFiniteSet(Extra) /\ Cardinality(Extra) \in Nat
  BY ExtraFinite DEF WriterInv
<1>1. /\ worker' = worker /\ past' = [past EXCEPT !.handed = @ + 1]
      /\ past \in Pasts
  BY TypeParts DEF HandOver
<1>2. Extra' \subseteq Extra \cup {job.holder}
  BY <1>1 DEF Extra, Processing, Holds
<1>3. /\ IsFiniteSet(Extra \cup {job.holder})
      /\ Cardinality(Extra \cup {job.holder}) <= Cardinality(Extra) + 1
      /\ Cardinality(Extra \cup {job.holder}) \in Nat
  BY <1>0, OneElementMore
<1>4. Cardinality(Extra') <= Cardinality(Extra \cup {job.holder})
      /\ Cardinality(Extra') \in Nat
  BY <1>2, <1>3, FS_Subset, FS_CardinalityType
<1>5. past.handed \in Nat /\ past'.handed = past.handed + 1
  BY <1>1 DEF Pasts
<1> QED BY <1>0, <1>3, <1>4, <1>5 DEF WriterInv

LEMMA WriterStep == TypeOK /\ WriterInv /\ [Next]_vars => WriterInv'
  BY NoStepAddsExtras, FewerExtras, HandOverAddsOne

LEMMA WriterInit == IsFiniteSet(Workers) /\ Init => WriterInv
<1> SUFFICES ASSUME IsFiniteSet(Workers), Init PROVE WriterInv
  OBVIOUS
<1>1. worker = [w \in Workers |-> IdleWorker]
  BY Zenon DEF Init
<1>2. Extra = {}
  BY <1>1 DEF Extra, Processing, IdleWorker
<1>3. past \in Pasts
  BY TypeInit, TypeParts
<1> QED BY <1>2, <1>3, FS_EmptySet DEF WriterInv, Pasts

\* "One workspace never has two syncs running" (packages/queue/src/index.ts):
\* for any number of workers and callers, two of them write at once only when
\* the queue itself handed over the job of a worker that was still alive, and
\* never more of them than it did so.
THEOREM WritersAreCounted ==
    ASSUME IsFiniteSet(Workers)
    PROVE  Spec => []OneWriter
<1>1. Init => TypeOK /\ WriterInv
  BY TypeInit, WriterInit
<1>2. TypeOK /\ WriterInv /\ [Next]_vars => (TypeOK /\ WriterInv)'
  BY TypeStep, WriterStep
<1>3. TypeOK /\ WriterInv => OneWriter
  BY WritersCounted
<1> QED BY <1>1, <1>2, <1>3, PTL DEF Spec

-----------------------------------------------------------------------------
(* What a failure for good leads to: one mail per incident, and a pause that *)
(* was earned, over the types above.                                        *)

(* One mail per incident.                                                  *)

\* Hooks whose mail to recipient i is still to come, in the incident going on.
Waiting(i) == {w \in Workers : hook[w].open /\ hook[w].sent < i}
Armed == IF incident THEN 1 ELSE 0

\* A mail that went out or is still to come belongs to the latch as it is armed
\* now, or to one of the times it was released with mails out; and an armed latch
\* has its hook until the last recipient is written to.
MailInv ==
    /\ \A v \in Workers : hook[v].open => hook[v].pc = "mail"
    /\ IsFiniteSet(Open)
    /\ \A i \in 1..Recipients :
          past.mails[i] + Cardinality(Waiting(i)) <= past.rearmed + Armed
    /\ incident /\ past.mails[Recipients] = 0 => past.hookLost \/ Open # {}

\* A step that neither arms nor releases the latch, nor moves who armed it.
MailQuiet ==
    /\ incident' = incident
    /\ past'.mails = past.mails /\ past'.rearmed = past.rearmed
    /\ past'.hookLost = past.hookLost
    /\ \A v \in Workers : /\ hook'[v].open = hook[v].open
                          /\ hook[v].open => /\ hook'[v].pc = hook[v].pc
                                             /\ hook'[v].sent = hook[v].sent

\* The incident is over: the latch is off, and no hook has a mail that counts.
MailOver ==
    /\ incident' = FALSE /\ past'.mails = NoMails /\ past'.rearmed = 0
    /\ \A v \in Workers : hook'[v].open = FALSE

\* Counting the hooks that wait.
LEMMA WaitingCount ==
  ASSUME IsFiniteSet(Open)
  PROVE  \A i : IsFiniteSet(Waiting(i)) /\ Cardinality(Waiting(i)) \in Nat
<1> SUFFICES ASSUME NEW i PROVE IsFiniteSet(Waiting(i)) /\ Cardinality(Waiting(i)) \in Nat
  OBVIOUS
<1>1. Waiting(i) \subseteq Open
  BY DEF Waiting, Open
<1>2. IsFiniteSet(Waiting(i))
  BY <1>1, FS_Subset
<1> QED BY <1>2, FS_CardinalityType

LEMMA MailKept ==
  ASSUME TypeOK, MailInv, MailQuiet \/ MailOver
  PROVE  MailInv'
<1>1. CASE MailQuiet
  <2>1. Open' = Open /\ \A i \in 1..Recipients : Waiting(i)' = Waiting(i)
    BY <1>1 DEF Open, Waiting, MailQuiet
  <2>2. Armed' = Armed
    BY <1>1 DEF Armed, MailQuiet
  <2>3. \A i \in 1..Recipients :
          (past.mails[i] + Cardinality(Waiting(i)) <= past.rearmed + Armed)'
    BY <1>1, <2>1, <2>2 DEF MailInv, MailQuiet
  <2> QED BY <1>1, <2>1, <2>3 DEF MailInv, MailQuiet
<1>2. CASE MailOver
  <2>1. Open' = {} /\ \A i \in 1..Recipients : Waiting(i)' = {}
    BY <1>2 DEF Open, Waiting, MailOver
  <2>2. IsFiniteSet(Open') /\ Cardinality({}) = 0
    BY <2>1, FS_EmptySet
  <2>3. \A i \in 1..Recipients : past'.mails[i] = 0
    BY <1>2 DEF MailOver, NoMails
  <2>4. past'.rearmed = 0 /\ Armed' = 0
    BY <1>2 DEF MailOver, Armed
  <2>5. \A i \in 1..Recipients :
          (past.mails[i] + Cardinality(Waiting(i)) <= past.rearmed + Armed)'
    BY <2>1, <2>2, <2>3, <2>4
  <2> QED BY <1>2, <2>2, <2>5 DEF MailInv, MailOver
<1> QED BY <1>1, <1>2

\* Every step is quiet, or ends the incident, or is one of four.
LEMMA MailSteps ==
  ASSUME TypeOK, MailInv, [Next]_vars
  PROVE  \/ MailQuiet \/ MailOver
         \/ \E w \in Workers : \/ HookLatch(w) \/ HookMailed(w)
                              \/ HookUnsent(w) \/ Crash(w)
<1>0. /\ hook \in [Workers -> HookStates] /\ past \in Pasts
  BY TypeParts
<1> DEFINE Kept(p) == /\ p.mails = past.mails /\ p.rearmed = past.rearmed
                      /\ p.hookLost = past.hookLost
<1>1. ASSUME UNCHANGED <<hook, incident>>,
             Kept(past')
      PROVE  MailQuiet
  BY <1>1 DEF MailQuiet
<1>2. /\ \A b \in BOOLEAN : Kept([past EXCEPT !.owed = b])
      /\ Kept(Proven) /\ Kept([Proven EXCEPT !.owed = TRUE])
      /\ Kept([past EXCEPT !.handed = @ + 1]) /\ Kept([past EXCEPT !.strikes = @ + 1])
  BY <1>0 DEF Pasts, Proven
<1>3. \A v \in Workers : NoneOpen[v].open = FALSE
  BY <1>0 DEF NoneOpen, HookStates
<1>4. ASSUME NEW w \in Workers, ClearLatch(w)
      PROVE  past'.mails = NoMails /\ past'.rearmed = 0
  BY <1>0, <1>4 DEF ClearLatch, Pasts
<1>5. ASSUME NEW c \in Callers, Tick(c) \/ SyncNow(c) \/ Add(c) \/ Reconnect(c) PROVE MailQuiet
  BY <1>1, <1>2, <1>5 DEF Tick, SyncNow, Add, Reconnect
<1>6. ASSUME NEW w \in Workers, WorkerStep(w) \/ FailOther(w) PROVE MailQuiet \/ MailOver
  <2>1. CASE TakeStalled(w) \/ RunOk(w) \/ FailAuth(w) \/ FailOther(w)
    BY <1>1, <2>1 DEF TakeStalled, RunOk, FailAuth, FailOther
  <2>2. CASE BeginRefused(w) \/ Begin(w) \/ ClearFailures(w)
    BY <1>1, <1>2, <2>2 DEF BeginRefused, Begin, ClearFailures
  <2>3. CASE ClearLatch(w)
    BY <1>0, <1>3, <1>4, <2>3 DEF ClearLatch, LatchAfterSuccess, MailOver
  <2>4. CASE Report(w)
    <3>1. /\ past' = past \/ past' = [past EXCEPT !.strikes = @ + 1]
          /\ incident' = incident
          /\ \/ hook' = hook
             \/ hook' = [hook EXCEPT ![w] = [IdleHook EXCEPT
                           !.pc = IF worker[w].kind = "auth" THEN "count" ELSE "latch"]]
      BY <2>4 DEF Report
    <3>2. ~ hook[w].open
      BY <2>4 DEF Report, MailInv
    <3>3. hook'[w].open = hook[w].open /\ \A v \in Workers \ {w} : hook'[v] = hook[v]
      <4>1. \A pc : [IdleHook EXCEPT !.pc = pc].open = FALSE
        BY DEF IdleHook
      <4>2. hook[w].open = FALSE
        BY <1>0, <3>2 DEF HookStates
      <4>3. CASE hook' = hook
        BY <4>3
      <4>4. CASE \E h : h.open = FALSE /\ hook' = [hook EXCEPT ![w] = h]
        BY <1>0, <4>2, <4>4
      <4>5. hook' = hook \/ \E h : h.open = FALSE /\ hook' = [hook EXCEPT ![w] = h]
        <5> DEFINE pc == IF worker[w].kind = "auth" THEN "count" ELSE "latch"
        <5>1. hook' = hook \/ hook' = [hook EXCEPT ![w] = [IdleHook EXCEPT !.pc = pc]]
          BY <3>1
        <5> HIDE DEF pc
        <5> QED BY <4>1, <5>1
      <4> QED BY <4>3, <4>4, <4>5
    <3> QED BY <1>2, <3>1, <3>2, <3>3 DEF MailQuiet
  <2> QED BY <1>6, <2>1, <2>2, <2>3, <2>4 DEF WorkerStep
<1>7. ASSUME NEW w \in Workers, HookRead(w) \/ HookWrite(w) PROVE MailQuiet
  <2>1. ~ hook[w].open
    BY <1>7 DEF HookRead, HookWrite, MailInv
  <2>2. CASE HookRead(w)
    <3>1. hook'[w] \in {[hook[w] EXCEPT !.pc = "latch"],
                       [hook[w] EXCEPT !.pc = "write", !.count = conn.failures]}
      BY <1>0, <2>2 DEF HookRead
    <3>2. hook'[w].open = hook[w].open
      BY <1>0, <3>1 DEF HookStates
    <3>3. \A v \in Workers \ {w} : hook'[v] = hook[v]
      BY <1>0, <2>2 DEF HookRead
    <3> QED BY <2>1, <2>2, <3>2, <3>3 DEF HookRead, MailQuiet
  <2>3. CASE HookWrite(w)
    <3>1. hook'[w].open = hook[w].open /\ \A v \in Workers \ {w} : hook'[v] = hook[v]
      BY <1>0, <2>3 DEF HookWrite, HookStates
    <3> QED BY <2>1, <2>3, <3>1 DEF HookWrite, MailQuiet
  <2> QED BY <1>7, <2>2, <2>3
<1>9. ASSUME DelayEnds \/ Recover \/ HandOver \/ (\E r \in Rows : Ages(r)) \/ Nightly
               \/ Revoke \/ Disconnect \/ RemoveStore
      PROVE  MailQuiet
  BY <1>1, <1>2, <1>9 DEF DelayEnds, Recover, HandOver, Ages, Nightly, Revoke, Disconnect,
     RemoveStore
<1>10. UNCHANGED vars => MailQuiet
  BY <1>1 DEF vars
<1> QED BY <1>5, <1>6, <1>7, <1>9, <1>10 DEF Next, HookStep

LEMMA MailStep ==
  ASSUME TypeOK, MailInv, [Next]_vars
  PROVE  MailInv'
<1>0. /\ hook \in [Workers -> HookStates] /\ past \in Pasts /\ incident \in BOOLEAN
      /\ hook' \in [Workers -> HookStates]
  BY TypeParts, HookType
<1>n. /\ past.mails \in [1..Recipients -> Nat] /\ past.rearmed \in Nat /\ Armed \in 0..1
      /\ Recipients \in 1..Recipients
  BY <1>0, QueueAssumption DEF Pasts, Armed
<1>c. \A i : IsFiniteSet(Waiting(i)) /\ Cardinality(Waiting(i)) \in Nat
  BY WaitingCount DEF MailInv
<1>b. ASSUME NEW i \in 1..Recipients
      PROVE  /\ past.mails[i] + Cardinality(Waiting(i)) <= past.rearmed + Armed
             /\ past.mails[i] \in Nat /\ Cardinality(Waiting(i)) \in Nat
             /\ past.rearmed \in Nat /\ Armed \in 0..1
  BY <1>c, <1>n DEF MailInv
\* The account after a step, from what the step adds to it.
<1>a. ASSUME NEW i \in 1..Recipients, NEW m \in Nat, NEW c \in Nat, NEW n \in Nat, NEW a \in 0..1,
             past'.mails[i] = m, Cardinality(Waiting(i)') = c, past'.rearmed = n, Armed' = a,
             m + c <= n + a
      PROVE  (past.mails[i] + Cardinality(Waiting(i)) <= past.rearmed + Armed)'
  BY <1>a
\* Hooks that stop waiting leave fewer.
<1>f. ASSUME NEW i, Waiting(i)' \subseteq Waiting(i)
      PROVE  Cardinality(Waiting(i)') \in Nat /\ Cardinality(Waiting(i)') <= Cardinality(Waiting(i))
  <2>1. IsFiniteSet(Waiting(i)') /\ Cardinality(Waiting(i)') <= Cardinality(Waiting(i))
    BY <1>c, <1>f, FS_Subset
  <2> QED BY <2>1, FS_CardinalityType
\* The hook of w ends, or was not the incident's.
<1>g. ASSUME NEW w \in Workers, hook' = [hook EXCEPT ![w] = IdleHook]
      PROVE  /\ \A v \in Workers : hook'[v].open => hook'[v].pc = "mail"
             /\ Open' = Open \ {w} /\ IsFiniteSet(Open')
             /\ \A i \in 1..Recipients : Waiting(i)' = Waiting(i) \ {w}
  <2>1. /\ hook'[w] = IdleHook /\ IdleHook.open = FALSE
        /\ \A v \in Workers \ {w} : hook'[v] = hook[v]
    BY <1>0, <1>g DEF IdleHook
  <2>2. Open' = Open \ {w} /\ \A i \in 1..Recipients : Waiting(i)' = Waiting(i) \ {w}
    BY <2>1 DEF Open, Waiting
  <2>3. IsFiniteSet(Open')
    BY <2>2, FS_Subset DEF MailInv
  <2> QED BY <2>1, <2>2, <2>3 DEF MailInv
<1>1. ASSUME NEW w \in Workers, HookLatch(w) PROVE MailInv'
  <2>1. ~ hook[w].open
    BY <1>1 DEF HookLatch, MailInv
  <2>2. UNCHANGED past /\ \A v \in Workers \ {w} : hook'[v] = hook[v]
    BY <1>0, <1>1 DEF HookLatch
  <2>3. CASE incident
    <3>1. hook'[w].open = FALSE /\ incident' = incident
      BY <1>0, <1>1, <2>3 DEF HookLatch, MayMail, IdleHook
    <3>2. hook[w].open = FALSE
      BY <1>0, <2>1 DEF HookStates
    <3> QED BY <2>2, <3>1, <3>2, MailKept DEF MailQuiet
  <2>4. CASE ~incident
    <3>1. hook'[w].open /\ hook'[w].pc = "mail" /\ incident'
      BY <1>0, <1>1, <2>4 DEF HookLatch, MayMail, HookStates
    <3>2. Open' = Open \cup {w} /\ IsFiniteSet(Open')
      <4>1. Open' = Open \cup {w}
        BY <2>2, <3>1 DEF Open
      <4> QED BY <4>1, FS_AddElement DEF MailInv
    <3>3. ASSUME NEW i \in 1..Recipients
          PROVE  (past.mails[i] + Cardinality(Waiting(i)) <= past.rearmed + Armed)'
      <4>1. w \notin Waiting(i)
        BY <2>1 DEF Waiting
      <4>2. Waiting(i)' \subseteq Waiting(i) \cup {w}
        BY <2>2 DEF Waiting
      <4>3. /\ IsFiniteSet(Waiting(i) \cup {w})
            /\ Cardinality(Waiting(i) \cup {w}) = Cardinality(Waiting(i)) + 1
        BY <1>c, <4>1, FS_AddElement
      <4>4. IsFiniteSet(Waiting(i)') /\ Cardinality(Waiting(i)') <= Cardinality(Waiting(i)) + 1
        BY <4>2, <4>3, FS_Subset
      <4>5. Cardinality(Waiting(i)') \in Nat
        BY <4>4, FS_CardinalityType
      <4>6. Armed = 0 /\ Armed' = 1
        BY <2>4, <3>1 DEF Armed
      <4>7. past.mails[i] + Cardinality(Waiting(i)') <= past.rearmed + 1
        BY <1>b, <4>4, <4>5, <4>6
      <4>8. past.mails[i] \in Nat /\ past.rearmed \in Nat
        BY <1>b
      <4> QED BY <1>a, <2>2, <4>5, <4>6, <4>7, <4>8
    <3>4. \A v \in Workers : hook'[v].open => hook'[v].pc = "mail"
      BY <2>2, <3>1 DEF MailInv
    <3> QED BY <3>2, <3>3, <3>4 DEF MailInv
  <2> QED BY <2>3, <2>4
<1>2. ASSUME NEW w \in Workers, HookMailed(w) PROVE MailInv'
  <2> DEFINE next == hook[w].sent + 1
  <2>1. UNCHANGED incident /\ \A v \in Workers \ {w} : hook'[v] = hook[v]
    BY <1>0, <1>2 DEF HookMailed
  <2>2. next \in 1..Recipients /\ hook[w].sent \in Nat
    <3>1. hook[w].sent \in 0..Recipients-1
      BY <1>0 DEF HookStates
    <3> QED BY <3>1, QueueAssumption
  <2>3. \/ next = Recipients /\ hook'[w] = IdleHook
        \/ /\ next # Recipients
           /\ hook'[w].open = hook[w].open /\ hook'[w].pc = hook[w].pc /\ hook'[w].sent = next
    <3>1. CASE next = Recipients
      <4>1. hook' = [hook EXCEPT ![w] = IdleHook]
        BY <1>2, <3>1 DEF HookMailed
      <4> QED BY <1>0, <3>1, <4>1
    <3>2. CASE next # Recipients
      <4>1. hook'[w] = [hook[w] EXCEPT !.sent = next]
        BY <1>0, <1>2, <3>2 DEF HookMailed
      <4> HIDE DEF next
      <4> QED BY <1>0, <3>2, <4>1 DEF HookStates
    <3> QED BY <3>1, <3>2
  <2>4. CASE ~hook[w].open
    <3>1. UNCHANGED past
      BY <1>2, <2>4 DEF HookMailed
    <3>2. hook'[w].open = hook[w].open
      BY <1>0, <2>3, <2>4 DEF IdleHook, HookStates
    <3> QED BY <2>1, <2>4, <3>1, <3>2, MailKept DEF MailQuiet
  <2>5. CASE hook[w].open
    <3>1. /\ past'.mails = [past.mails EXCEPT ![next] = @ + 1]
          /\ past'.rearmed = past.rearmed /\ past'.hookLost = past.hookLost
      <4> DEFINE more == [past.mails EXCEPT ![next] = @ + 1]
      <4>1. past' = [past EXCEPT !.mails = more]
        BY <1>2, <2>5 DEF HookMailed
      <4> HIDE DEF more
      <4>2. past'.mails = more /\ past'.rearmed = past.rearmed /\ past'.hookLost = past.hookLost
        BY <1>0, <4>1 DEF Pasts
      <4> QED BY <4>2 DEF more
    <3> HIDE DEF next
    <3>2. next = hook[w].sent + 1
      BY DEF next
    <3>s. ~ hook'[w].open \/ (hook'[w].open /\ hook'[w].sent = next)
      <4>1. IdleHook.open = FALSE
        BY DEF IdleHook
      <4>2. CASE hook'[w] = IdleHook
        BY <4>1, <4>2
      <4>3. CASE hook'[w].open = hook[w].open /\ hook'[w].sent = next
        BY <2>5, <4>3
      <4> QED BY <2>3, <4>2, <4>3
    <3>3. Open' \subseteq Open /\ IsFiniteSet(Open')
      <4>1. Open' \subseteq Open
        BY <2>1, <2>5 DEF Open
      <4> QED BY <4>1, FS_Subset DEF MailInv
    <3>4. ASSUME NEW i \in 1..Recipients
          PROVE  (past.mails[i] + Cardinality(Waiting(i)) <= past.rearmed + Armed)'
      <4>1. Waiting(i)' \subseteq Waiting(i)
        <5>1. w \in Waiting(i)' => w \in Waiting(i)
          BY <2>2, <2>5, <3>2, <3>s DEF Waiting
        <5> QED BY <2>1, <5>1 DEF Waiting
      <4>2. Armed' = Armed
        BY <2>1 DEF Armed
      <4>3. CASE i = next
        <5>1. w \in Waiting(i) /\ w \notin Waiting(i)'
          BY <2>2, <2>5, <3>2, <3>s, <4>3 DEF Waiting
        <5>2. /\ IsFiniteSet(Waiting(i) \ {w})
              /\ Cardinality(Waiting(i) \ {w}) = Cardinality(Waiting(i)) - 1
          BY <1>c, <5>1, FS_RemoveElement
        <5>3. Waiting(i)' \subseteq Waiting(i) \ {w}
          BY <4>1, <5>1
        <5>4. Cardinality(Waiting(i)') <= Cardinality(Waiting(i)) - 1
          BY <5>2, <5>3, FS_Subset
        <5>5. past'.mails[i] = past.mails[i] + 1
          BY <1>n, <3>1, <4>3
        <5>6. Cardinality(Waiting(i)') \in Nat
          BY <1>f, <4>1
        <5>7. /\ past.mails[i] + 1 \in Nat /\ past.rearmed \in Nat /\ Armed \in 0..1
              /\ past.mails[i] + 1 + Cardinality(Waiting(i)') <= past.rearmed + Armed
          BY <1>b, <5>4, <5>6
        <5> QED BY <1>a, <3>1, <4>2, <5>5, <5>6, <5>7
      <4>4. CASE i # next
        <5>1. past'.mails[i] = past.mails[i]
          BY <1>n, <3>1, <4>4
        <5>2. Cardinality(Waiting(i)') \in Nat /\ Cardinality(Waiting(i)') <= Cardinality(Waiting(i))
          BY <1>f, <4>1
        <5>3. /\ past.mails[i] \in Nat /\ past.rearmed \in Nat /\ Armed \in 0..1
              /\ past.mails[i] + Cardinality(Waiting(i)') <= past.rearmed + Armed
          BY <1>b, <5>2
        <5> QED BY <1>a, <3>1, <4>2, <5>1, <5>2, <5>3
      <4> QED BY <4>3, <4>4
    <3>5. past'.mails[Recipients] = 0 => past.mails[Recipients] = 0 /\ next # Recipients
      BY <1>n, <2>2, <3>1
    <3>6. next # Recipients => w \in Open'
      BY <2>3, <2>5 DEF Open
    <3>7. \A v \in Workers : hook'[v].open => hook'[v].pc = "mail"
      <4>1. hook[w].pc = "mail"
        BY <1>2 DEF HookMailed
      <4> QED BY <2>1, <2>3, <4>1 DEF MailInv, IdleHook
    <3> QED BY <3>3, <3>4, <3>5, <3>6, <3>7 DEF MailInv
  <2> QED BY <2>4, <2>5
<1>3. ASSUME NEW w \in Workers, Crash(w) PROVE MailInv'
  <2>1. UNCHANGED incident /\ hook' = [hook EXCEPT ![w] = IdleHook] /\ Armed' = Armed
    BY <1>3 DEF Crash, Armed
  <2>2. /\ past'.mails = past.mails /\ past'.rearmed = past.rearmed
        /\ past'.hookLost = (past.hookLost \/ hook[w].open)
    <3> DEFINE b == past.hookLost \/ hook[w].open
    <3>1. past' = [past EXCEPT !.hookLost = b]
      BY <1>3, Zenon DEF Crash
    <3> HIDE DEF b
    <3>2. past'.mails = past.mails /\ past'.rearmed = past.rearmed /\ past'.hookLost = b
      BY <1>0, <3>1 DEF Pasts
    <3> QED BY <3>2 DEF b
  <2>3. ASSUME NEW i \in 1..Recipients
        PROVE  (past.mails[i] + Cardinality(Waiting(i)) <= past.rearmed + Armed)'
    <3>1. Cardinality(Waiting(i)') \in Nat /\ Cardinality(Waiting(i)') <= Cardinality(Waiting(i))
      BY <1>f, <1>g, <2>1
    <3>2. /\ past.mails[i] \in Nat /\ past.rearmed \in Nat /\ Armed \in 0..1
          /\ past.mails[i] + Cardinality(Waiting(i)') <= past.rearmed + Armed
      BY <1>b, <3>1
    <3>3. past'.mails[i] = past.mails[i] /\ past'.rearmed = past.rearmed /\ Armed' = Armed
      BY <2>1, <2>2
    <3> QED BY <1>a, <3>1, <3>2, <3>3
  <2>4. Open # {} => hook[w].open \/ Open' # {}
    BY <1>g, <2>1 DEF Open
  <2> QED BY <1>g, <2>1, <2>2, <2>3, <2>4 DEF MailInv
<1>4. ASSUME NEW w \in Workers, HookUnsent(w) PROVE MailInv'
  <2>1. incident' = FALSE /\ hook' = [hook EXCEPT ![w] = IdleHook] /\ Armed' = 0
    BY <1>4 DEF HookUnsent, LatchUnsent, Armed
  <2>2. /\ past'.mails = past.mails
        /\ past'.rearmed = IF incident /\ ~(hook[w].open /\ hook[w].sent = 0)
                           THEN past.rearmed + 1 ELSE past.rearmed
    <3> DEFINE n == IF incident /\ ~(hook[w].open /\ hook[w].sent = 0)
                    THEN past.rearmed + 1 ELSE past.rearmed
    <3>1. past' = [past EXCEPT !.hookLost = FALSE, !.rearmed = n]
      BY <1>0, <1>4 DEF HookUnsent, Pasts
    <3> HIDE DEF n
    <3>2. past'.mails = past.mails /\ past'.rearmed = n
      BY <1>0, <3>1 DEF Pasts
    <3> QED BY <3>2 DEF n
  <2>3. ASSUME NEW i \in 1..Recipients
        PROVE  (past.mails[i] + Cardinality(Waiting(i)) <= past.rearmed + Armed)'
    <3>1. Cardinality(Waiting(i)') \in Nat /\ Cardinality(Waiting(i)') <= Cardinality(Waiting(i))
      BY <1>f, <1>g, <2>1
    <3>2. past'.mails[i] = past.mails[i] /\ Armed' = 0
      BY <2>1, <2>2
    <3>3. CASE incident /\ hook[w].open /\ hook[w].sent = 0
      <4>1. w \in Waiting(i) /\ Waiting(i)' = Waiting(i) \ {w}
        <5>1. w \in Waiting(i)
          BY <3>3 DEF Waiting
        <5> QED BY <1>g, <2>1, <5>1
      <4>2. Cardinality(Waiting(i)') = Cardinality(Waiting(i)) - 1
        BY <1>c, <4>1, FS_RemoveElement
      <4>3. past'.rearmed = past.rearmed /\ Armed = 1
        BY <2>2, <3>3 DEF Armed
      <4>4. /\ past.mails[i] \in Nat /\ past.rearmed \in Nat
            /\ past.mails[i] + Cardinality(Waiting(i)') <= past.rearmed + 0
        BY <1>b, <3>1, <4>2, <4>3
      <4> QED BY <1>a, <3>1, <3>2, <4>3, <4>4
    <3>4. CASE incident /\ ~(hook[w].open /\ hook[w].sent = 0)
      <4>1. past'.rearmed = past.rearmed + 1 /\ Armed = 1
        BY <2>2, <3>4 DEF Armed
      <4>2. /\ past.mails[i] \in Nat /\ past.rearmed + 1 \in Nat
            /\ past.mails[i] + Cardinality(Waiting(i)') <= past.rearmed + 1 + 0
        BY <1>b, <3>1, <4>1
      <4> QED BY <1>a, <3>1, <3>2, <4>1, <4>2
    <3>5. CASE ~incident
      <4>1. past'.rearmed = past.rearmed /\ Armed = 0
        BY <2>2, <3>5 DEF Armed
      <4>2. /\ past.mails[i] \in Nat /\ past.rearmed \in Nat
            /\ past.mails[i] + Cardinality(Waiting(i)') <= past.rearmed + 0
        BY <1>b, <3>1, <4>1
      <4> QED BY <1>a, <3>1, <3>2, <4>1, <4>2
    <3> QED BY <3>3, <3>4, <3>5
  <2> QED BY <1>g, <2>1, <2>3 DEF MailInv
<1> QED BY <1>1, <1>2, <1>3, <1>4, MailSteps, MailKept

\* "One incident still means one email, now one each" (incident.ts): however many
\* hooks run at once, whatever sends fail and processes die, each recipient has at
\* most one mail of an incident and one more for each time the latch was released
\* with mails out; and an armed latch stands for mails that all went out or are
\* about to, unless the process died.  For every number of recipients.
THEOREM OneMail == Spec => []OneMailPerIncident
<1>1. Init => MailInv
  <2> SUFFICES ASSUME Init PROVE MailInv
    OBVIOUS
  <2>1. /\ hook = [w \in Workers |-> IdleHook]
        /\ incident = FALSE
        /\ past = [owed |-> FALSE, handed |-> 0, strikes |-> 0, raced |-> FALSE,
                   mails |-> NoMails, rearmed |-> 0, hookLost |-> FALSE]
    BY Zenon DEF Init
  <2>2. past.mails = NoMails /\ past.rearmed = 0 /\ \A v \in Workers : ~hook[v].open
    BY <2>1 DEF IdleHook
  <2>3. Open = {} /\ \A i \in 1..Recipients : Waiting(i) = {} /\ past.mails[i] = 0
    BY <2>2 DEF Open, Waiting, NoMails
  <2>4. IsFiniteSet(Open) /\ Cardinality({}) = 0 /\ Armed = 0
    BY <2>1, <2>3, FS_EmptySet DEF Armed
  <2>5. \A i \in 1..Recipients :
          past.mails[i] + Cardinality(Waiting(i)) <= past.rearmed + Armed
    BY <2>2, <2>3, <2>4
  <2> QED BY <2>1, <2>2, <2>4, <2>5 DEF MailInv
<1>2. TypeOK /\ MailInv /\ [Next]_vars => MailInv'
  BY MailStep
<1>3. TypeOK /\ MailInv => OneMailPerIncident
  <2> SUFFICES ASSUME TypeOK, MailInv PROVE OneMailPerIncident
    OBVIOUS
  <2>1. ASSUME NEW i \in 1..Recipients PROVE past.mails[i] <= 1 + past.rearmed
    <3>1. past.mails[i] \in Nat /\ past.rearmed \in Nat /\ Armed \in 0..1
      <4>1. past \in Pasts
        BY TypeParts
      <4>2. past.mails \in [1..Recipients -> Nat] /\ past.rearmed \in Nat
        BY <4>1 DEF Pasts
      <4>3. Armed \in 0..1
        BY DEF Armed
      <4>4. ASSUME NEW f \in [1..Recipients -> Nat] PROVE f[i] \in Nat
        BY <4>4
      <4> QED BY <4>2, <4>3, <4>4
    <3>2. Cardinality(Waiting(i)) \in Nat
      BY WaitingCount DEF MailInv
    <3>3. past.mails[i] + Cardinality(Waiting(i)) <= past.rearmed + Armed
      BY DEF MailInv
    <3> QED BY <3>1, <3>2, <3>3
  <2> QED BY <2>1 DEF MailInv, OneMailPerIncident
<1> QED BY <1>1, <1>2, <1>3, QueueTypes, PTL DEF Spec

-----------------------------------------------------------------------------
(* A pause that was earned.                                                *)

\* Hooks that have a rejection still to write down.
Pending == {w \in Workers : hook[w].pc \in {"count", "write"}}

\* What is written, or read to be written, leaves room for what is pending.
Room(n) == n + Cardinality(Pending) <= past.strikes

StrikeInv ==
    /\ conn.failures <= PauseAfter
    /\ ~conn.paused => conn.failures < PauseAfter
    /\ \A w \in Workers : hook[w].pc = "write" => hook[w].count < PauseAfter
    /\ ~past.raced =>
         /\ conn.paused => past.strikes = PauseAfter
         /\ \/ past.strikes = PauseAfter
            \/ /\ Room(conn.failures)
               /\ \A w \in Workers : hook[w].pc = "write" => Room(hook[w].count)

LEMMA PendingFinite ==
  ASSUME IsFiniteSet(Workers)
  PROVE  IsFiniteSet(Pending) /\ Cardinality(Pending) \in Nat
<1>1. Pending \subseteq Workers
  BY DEF Pending
<1> QED BY <1>1, FS_Subset, FS_CardinalityType

\* A step that writes no rejection down and has none more to write: hooks may
\* stop, read the count, and the connection may be reset.
StrikeQuiet ==
    /\ \/ conn'.failures = conn.failures /\ conn'.paused = conn.paused
       \/ conn'.failures = 0 /\ conn'.paused = FALSE
    /\ Pending' \subseteq Pending
    /\ \A v \in Workers : hook'[v].pc = "write" =>
          \/ hook[v].pc = "write" /\ hook'[v].count = hook[v].count
          \/ hook'[v].count = conn.failures /\ ~conn.paused
    /\ past'.strikes = past.strikes /\ past'.raced = past.raced

LEMMA StrikeKept ==
  ASSUME IsFiniteSet(Workers), TypeOK, StrikeInv, StrikeQuiet
  PROVE  StrikeInv'
<1>0. /\ conn.failures \in Nat /\ past.strikes \in 0..PauseAfter /\ PauseAfter \in Nat \ {0}
      /\ \A v \in Workers : hook[v].count \in Nat
  BY TypeParts, QueueAssumption DEF Conns, Pasts, HookStates
<1>1. /\ Cardinality(Pending') <= Cardinality(Pending)
      /\ Cardinality(Pending) \in Nat /\ Cardinality(Pending') \in Nat
  BY PendingFinite, FS_Subset, FS_CardinalityType DEF StrikeQuiet
<1>2. \A n \in Nat : Room(n) => n + Cardinality(Pending') <= past'.strikes
  BY <1>0, <1>1 DEF Room, StrikeQuiet
<1>3. \A n \in Nat : (n + Cardinality(Pending') <= past'.strikes) =>
                       0 + Cardinality(Pending') <= past'.strikes
  BY <1>0, <1>1 DEF StrikeQuiet
<1>4. /\ conn'.failures <= PauseAfter
      /\ ~conn'.paused => conn'.failures < PauseAfter
      /\ \A v \in Workers : hook'[v].pc = "write" => hook'[v].count < PauseAfter
  BY <1>0 DEF StrikeInv, StrikeQuiet
<1>5. ASSUME ~past'.raced
      PROVE  /\ conn'.paused => past'.strikes = PauseAfter
             /\ \/ past'.strikes = PauseAfter
                \/ /\ conn'.failures + Cardinality(Pending') <= past'.strikes
                   /\ \A v \in Workers : hook'[v].pc = "write" =>
                        hook'[v].count + Cardinality(Pending') <= past'.strikes
  <2>1. conn'.paused => past'.strikes = PauseAfter
    BY <1>5 DEF StrikeInv, StrikeQuiet
  <2>2. CASE past.strikes # PauseAfter
    <3>1. Room(conn.failures) /\ \A w \in Workers : hook[w].pc = "write" => Room(hook[w].count)
      BY <1>5, <2>2 DEF StrikeInv, StrikeQuiet
    <3>2. conn.failures + Cardinality(Pending') <= past'.strikes
      BY <1>0, <1>2, <3>1
    <3>3. conn'.failures + Cardinality(Pending') <= past'.strikes
      BY <1>0, <1>3, <3>2 DEF StrikeQuiet
    <3>4. \A v \in Workers : hook'[v].pc = "write" =>
              hook'[v].count + Cardinality(Pending') <= past'.strikes
      BY <1>0, <1>2, <3>1, <3>2 DEF StrikeQuiet
    <3> QED BY <2>1, <3>3, <3>4
  <2> QED BY <2>1, <2>2 DEF StrikeQuiet
<1> QED BY <1>4, <1>5 DEF StrikeInv, Room

\* The token proved itself: nothing is held against it any more.
LEMMA StrikeProven ==
  ASSUME TypeOK, conn'.failures = 0, conn'.paused = FALSE, UNCHANGED hook, StrikeInv,
         past'.strikes = 0,
         past'.raced = (\E v \in Workers : hook[v].pc \in {"count", "write"})
  PROVE  StrikeInv'
<1>1. PauseAfter \in Nat \ {0}
  BY QueueAssumption
<1>2. /\ conn'.failures <= PauseAfter /\ conn'.failures < PauseAfter
      /\ \A w \in Workers : hook'[w].pc = "write" => hook'[w].count < PauseAfter
  BY <1>1 DEF StrikeInv
<1>3. ASSUME ~past'.raced PROVE Pending' = {}
  BY <1>3, Zenon DEF Pending
<1>4. ASSUME ~past'.raced
      PROVE  /\ \A w \in Workers : hook'[w].pc # "write"
             /\ conn'.failures + Cardinality(Pending') <= past'.strikes
  <2>1. Cardinality(Pending') = 0
    BY <1>3, <1>4, FS_EmptySet
  <2>2. \A w \in Workers : hook'[w].pc # "write"
    BY <1>3, <1>4 DEF Pending
  <2> QED BY <2>1, <2>2
<1> QED BY <1>2, <1>4 DEF StrikeInv, Room

\* Every step is quiet, or proves the token, or is one of two.
LEMMA StrikeSteps ==
  ASSUME TypeOK, StrikeInv, [Next]_vars, IsFiniteSet(Workers)
  PROVE  \/ StrikeQuiet \/ StrikeInv'
         \/ \E w \in Workers : Report(w) \/ HookWrite(w)
<1>0. /\ hook \in [Workers -> HookStates] /\ past \in Pasts /\ conn \in Conns
  BY TypeParts
<1>1. ASSUME UNCHANGED hook, past'.strikes = past.strikes, past'.raced = past.raced,
             \/ conn'.failures = conn.failures /\ conn'.paused = conn.paused
             \/ conn'.failures = 0 /\ conn'.paused = FALSE
      PROVE  StrikeQuiet
  BY <1>1 DEF StrikeQuiet, Pending
<1>2. /\ \A b \in BOOLEAN : /\ [past EXCEPT !.owed = b].strikes = past.strikes
                            /\ [past EXCEPT !.owed = b].raced = past.raced
                            /\ [past EXCEPT !.hookLost = b].strikes = past.strikes
                            /\ [past EXCEPT !.hookLost = b].raced = past.raced
      /\ [past EXCEPT !.handed = @ + 1].strikes = past.strikes
      /\ [past EXCEPT !.handed = @ + 1].raced = past.raced
      /\ \A m : /\ [past EXCEPT !.mails = m].strikes = past.strikes
               /\ [past EXCEPT !.mails = m].raced = past.raced
      /\ \A n : /\ [past EXCEPT !.hookLost = FALSE, !.rearmed = n].strikes = past.strikes
               /\ [past EXCEPT !.hookLost = FALSE, !.rearmed = n].raced = past.raced
  BY <1>0 DEF Pasts
<1>3. /\ Proven.strikes = 0
      /\ Proven.raced = (\E v \in Workers : hook[v].pc \in {"count", "write"})
      /\ [Proven EXCEPT !.owed = TRUE].strikes = 0
      /\ [Proven EXCEPT !.owed = TRUE].raced =
            (\E v \in Workers : hook[v].pc \in {"count", "write"})
  BY <1>0 DEF Pasts, Proven
<1>4. ASSUME NEW c \in Callers, Tick(c) \/ SyncNow(c) \/ Add(c) PROVE StrikeQuiet
  BY <1>1, <1>2, <1>4 DEF Tick, SyncNow, Add
<1>5. ASSUME NEW c \in Callers, Reconnect(c) PROVE StrikeInv'
  <2>1. conn'.failures = 0 /\ conn'.paused = FALSE /\ UNCHANGED hook
    BY <1>5 DEF Reconnect
  <2>2. past' = [Proven EXCEPT !.owed = TRUE]
    BY <1>5 DEF Reconnect
  <2> QED BY <1>3, <2>1, <2>2, StrikeProven
<1>6. ASSUME NEW w \in Workers, ClearFailures(w) PROVE StrikeInv'
  <2>1. conn'.failures = 0 /\ conn'.paused = FALSE /\ UNCHANGED hook /\ past' = Proven
    BY <1>0, <1>6 DEF ClearFailures, ProvenConn, Conns
  <2> QED BY <1>3, <2>1, StrikeProven
<1>7. ASSUME NEW w \in Workers,
             \/ TakeStalled(w) \/ BeginRefused(w) \/ Begin(w) \/ RunOk(w) \/ FailAuth(w)
             \/ FailOther(w)
      PROVE  StrikeQuiet
  BY <1>1, <1>2, <1>7 DEF TakeStalled, BeginRefused, Begin, RunOk, FailAuth, FailOther
<1>8. ASSUME NEW h \in [Workers -> HookStates],
             \A v \in Workers : hook'[v].pc = h[v].pc /\ hook'[v].count = h[v].count,
             \A v \in Workers : h[v] = hook[v] \/ h[v].pc \in {"idle", "latch", "mail"},
             past'.strikes = past.strikes, past'.raced = past.raced, UNCHANGED conn
      PROVE  StrikeQuiet
  <2>1. Pending' \subseteq Pending
    BY <1>8 DEF Pending
  <2> QED BY <1>8, <2>1 DEF StrikeQuiet
<1>9. ASSUME NEW w \in Workers, NEW x \in HookStates, x.pc \in {"idle", "latch", "mail"}
      PROVE  /\ [hook EXCEPT ![w] = x] \in [Workers -> HookStates]
             /\ \A v \in Workers : \/ [hook EXCEPT ![w] = x][v] = hook[v]
                                   \/ [hook EXCEPT ![w] = x][v].pc \in {"idle", "latch", "mail"}
  BY <1>0, <1>9
<1>10. ASSUME NEW w \in Workers, ClearLatch(w) PROVE StrikeQuiet
  <2>1. \A v \in Workers : NoneOpen[v].pc = hook[v].pc /\ NoneOpen[v].count = hook[v].count
    BY <1>0 DEF NoneOpen, HookStates
  <2>2. hook' = NoneOpen /\ UNCHANGED conn
    BY <1>10 DEF ClearLatch
  <2>3. past'.strikes = past.strikes /\ past'.raced = past.raced
    BY <1>0, <1>10 DEF ClearLatch, Pasts
  <2> QED BY <1>0, <1>8, <2>1, <2>2, <2>3
<1>11. ASSUME NEW w \in Workers, HookLatch(w) \/ HookMailed(w) \/ HookUnsent(w) \/ Crash(w)
       PROVE  StrikeQuiet
  <2>1. IdleHook \in HookStates /\ IdleHook.pc = "idle"
    BY IdleTypes DEF IdleHook
  <2>3. \E x \in HookStates : /\ x.pc \in {"idle", "latch", "mail"}
                              /\ hook' = [hook EXCEPT ![w] = x]
    <3>1. CASE HookLatch(w)
      <4>1. /\ [hook[w] EXCEPT !.pc = "mail", !.open = TRUE] \in HookStates
            /\ [hook[w] EXCEPT !.pc = "mail", !.open = TRUE].pc = "mail"
        BY <1>0 DEF HookStates
      <4>2. \/ hook' = [hook EXCEPT ![w] = [hook[w] EXCEPT !.pc = "mail", !.open = TRUE]]
            \/ hook' = [hook EXCEPT ![w] = IdleHook]
        BY <1>0, <3>1 DEF HookLatch
      <4> QED BY <2>1, <4>1, <4>2
    <3>2. CASE HookMailed(w)
      <4> DEFINE next == hook[w].sent + 1
      <4>1. hook[w] \in HookStates /\ hook[w].pc = "mail"
        BY <1>0, <3>2 DEF HookMailed
      <4>2. CASE next = Recipients
        <5>1. hook' = [hook EXCEPT ![w] = IdleHook]
          BY <3>2, <4>2 DEF HookMailed
        <5> QED BY <2>1, <5>1
      <4>3. CASE next # Recipients
        <5>1. hook' = [hook EXCEPT ![w] = [hook[w] EXCEPT !.sent = next]]
          BY <1>0, <3>2, <4>3 DEF HookMailed
        <5>2. next \in 0..Recipients-1
          BY <4>1, <4>3, QueueAssumption DEF HookStates
        <5> HIDE DEF next
        <5>3. /\ [hook[w] EXCEPT !.sent = next] \in HookStates
              /\ [hook[w] EXCEPT !.sent = next].pc = "mail"
          BY <4>1, <5>2 DEF HookStates
        <5> QED BY <5>1, <5>3
      <4> QED BY <4>2, <4>3
    <3>3. CASE HookUnsent(w) \/ Crash(w)
      BY <2>1, <3>3 DEF HookUnsent, Crash
    <3> QED BY <1>11, <3>1, <3>2, <3>3
  <2>4. PICK x \in HookStates : /\ x.pc \in {"idle", "latch", "mail"}
                                /\ hook' = [hook EXCEPT ![w] = x]
    BY <2>3
  <2>5. past'.strikes = past.strikes /\ past'.raced = past.raced /\ UNCHANGED conn
    <3>1. (past.hookLost \/ hook[w].open) \in BOOLEAN
      BY <1>0 DEF Pasts, HookStates
    <3>2. CASE HookLatch(w)
      BY <3>2 DEF HookLatch
    <3>3. CASE HookMailed(w)
      BY <1>2, <3>3 DEF HookMailed
    <3>5. CASE HookUnsent(w)
      <4>1. UNCHANGED conn /\ \E n : past' = [past EXCEPT !.hookLost = FALSE, !.rearmed = n]
        BY <1>0, <3>5 DEF HookUnsent, Pasts
      <4> QED BY <1>2, <4>1
    <3>4. CASE Crash(w)
      <4>1. past' = [past EXCEPT !.hookLost = past.hookLost \/ hook[w].open] /\ UNCHANGED conn
        BY <3>4 DEF Crash
      <4> DEFINE lost == past.hookLost \/ hook[w].open
      <4> HIDE DEF lost
      <4>2. lost \in BOOLEAN /\ past' = [past EXCEPT !.hookLost = lost]
        BY <3>1, <4>1 DEF lost
      <4> QED BY <1>0, <4>1, <4>2 DEF Pasts
    <3> QED BY <1>11, <3>2, <3>3, <3>4, <3>5
  <2>6. x \in HookStates /\ x.pc \in {"idle", "latch", "mail"}
    BY <2>4
  <2> DEFINE h == [hook EXCEPT ![w] = x]
  <2>7. /\ h \in [Workers -> HookStates]
        /\ \A v \in Workers : h[v] = hook[v] \/ h[v].pc \in {"idle", "latch", "mail"}
    BY <1>9, <2>6
  <2>8. \A v \in Workers : hook'[v].pc = h[v].pc /\ hook'[v].count = h[v].count
    BY <2>4
  <2> HIDE DEF h
  <2> QED BY <1>8, <2>5, <2>7, <2>8
<1>12. ASSUME NEW w \in Workers, HookRead(w) PROVE StrikeQuiet
  <2>1. \/ hook'[w].pc = "latch"
        \/ /\ hook'[w].pc = "write" /\ hook'[w].count = conn.failures
           /\ ~conn.paused
    <3>1. \/ hook'[w] = [hook[w] EXCEPT !.pc = "latch"]
          \/ /\ hook'[w] = [hook[w] EXCEPT !.pc = "write", !.count = conn.failures]
             /\ ~conn.paused
      BY <1>0, <1>12 DEF HookRead
    <3> QED BY <1>0, <3>1 DEF HookStates
  <2>2. /\ hook[w].pc = "count" /\ \A v \in Workers \ {w} : hook'[v] = hook[v]
        /\ UNCHANGED <<conn, past>>
    BY <1>0, <1>12 DEF HookRead
  <2>3. Pending' \subseteq Pending
    BY <2>2 DEF Pending
  <2> QED BY <2>1, <2>2, <2>3 DEF StrikeQuiet
<1>13. ASSUME DelayEnds \/ Recover \/ HandOver \/ (\E r \in Rows : Ages(r)) \/ Nightly
       PROVE  StrikeQuiet
  BY <1>1, <1>2, <1>13 DEF DelayEnds, Recover, HandOver, Ages, Nightly
<1>14. ASSUME Revoke \/ Disconnect \/ RemoveStore PROVE StrikeQuiet
  <2>1. \/ conn'.failures = conn.failures /\ conn'.paused = conn.paused
        \/ conn'.failures = 0 /\ conn'.paused = FALSE
    BY <1>0, <1>14 DEF Revoke, Disconnect, RemoveStore, Conns
  <2> QED BY <1>1, <1>14, <2>1 DEF Revoke, Disconnect, RemoveStore
<1>15. UNCHANGED vars => StrikeQuiet
  BY <1>1 DEF vars
<1> QED BY <1>4, <1>5, <1>6, <1>7, <1>10, <1>11, <1>12, <1>13, <1>14, <1>15
       DEF Next, WorkerStep, HookStep

\* A final failure may leave one rejection more to write down, and has counted it.
LEMMA StrikeReported ==
  ASSUME IsFiniteSet(Workers), TypeOK, StrikeInv, NEW w \in Workers, Report(w)
  PROVE  StrikeInv'
<1>0. /\ hook \in [Workers -> HookStates] /\ past \in Pasts /\ conn \in Conns
      /\ conn.failures \in Nat /\ past.strikes \in 0..PauseAfter /\ PauseAfter \in Nat \ {0}
      /\ \A v \in Workers : hook[v].count \in Nat
  BY TypeParts, QueueAssumption DEF Conns, Pasts, HookStates
<1>1. UNCHANGED conn /\ hook[w].pc = "idle"
  BY DEF Report
<1>2. /\ \A v \in Workers \ {w} : hook'[v] = hook[v]
      /\ \/ UNCHANGED <<hook, past>>
         \/ hook'[w].pc = "latch" /\ UNCHANGED past
         \/ /\ hook'[w].pc = "count"
            /\ past' = IF past.strikes < PauseAfter
                       THEN [past EXCEPT !.strikes = @ + 1] ELSE past
  BY <1>0 DEF Report, IdleHook, HookStates
<1>3. hook'[w].pc # "write"
  BY <1>1, <1>2
<1>4. CASE UNCHANGED past /\ hook'[w].pc # "count"
  <2>1. Pending' \subseteq Pending
    BY <1>2, <1>4 DEF Pending
  <2>2. StrikeQuiet
    BY <1>1, <1>2, <1>3, <1>4, <2>1 DEF StrikeQuiet
  <2> QED BY <2>2, StrikeKept
<1>5. CASE /\ hook'[w].pc = "count"
           /\ past' = IF past.strikes < PauseAfter
                      THEN [past EXCEPT !.strikes = @ + 1] ELSE past
  <2>1. past'.raced = past.raced /\ past'.strikes =
          (IF past.strikes < PauseAfter THEN past.strikes + 1 ELSE past.strikes)
    BY <1>0, <1>5 DEF Pasts
  <2>2. Pending' = Pending \cup {w}
    BY <1>2, <1>5 DEF Pending
  <2>3. /\ Cardinality(Pending') <= Cardinality(Pending) + 1
        /\ Cardinality(Pending) \in Nat /\ Cardinality(Pending') \in Nat
    BY <2>2, PendingFinite, OneElementMore
  <2>4. \A n \in Nat : Room(n) =>
           past'.strikes = PauseAfter \/ n + Cardinality(Pending') <= past'.strikes
    BY <1>0, <2>1, <2>3 DEF Room
  <2>5. \A v \in Workers : hook'[v].pc = "write" =>
           hook[v].pc = "write" /\ hook'[v].count = hook[v].count
    BY <1>2, <1>3
  <2>6. /\ conn'.failures <= PauseAfter
        /\ ~conn'.paused => conn'.failures < PauseAfter
        /\ \A v \in Workers : hook'[v].pc = "write" => hook'[v].count < PauseAfter
    BY <1>1, <2>5 DEF StrikeInv
  <2>7. ASSUME ~past'.raced
        PROVE  /\ conn'.paused => past'.strikes = PauseAfter
               /\ \/ past'.strikes = PauseAfter
                  \/ /\ conn'.failures + Cardinality(Pending') <= past'.strikes
                     /\ \A v \in Workers : hook'[v].pc = "write" =>
                          hook'[v].count + Cardinality(Pending') <= past'.strikes
    <3>1. CASE past.strikes = PauseAfter
      BY <1>0, <2>1, <3>1
    <3>2. CASE past.strikes # PauseAfter
      <4>1. /\ ~conn.paused /\ Room(conn.failures)
            /\ \A v \in Workers : hook[v].pc = "write" => Room(hook[v].count)
        BY <2>1, <2>7, <3>2 DEF StrikeInv
      <4> QED BY <1>0, <1>1, <2>4, <2>5, <4>1
    <3> QED BY <3>1, <3>2
  <2> QED BY <2>6, <2>7 DEF StrikeInv, Room
<1> QED BY <1>1, <1>2, <1>4, <1>5

\* Writing a rejection down takes the room that was left for it.
LEMMA StrikeWritten ==
  ASSUME IsFiniteSet(Workers), TypeOK, StrikeInv, NEW w \in Workers, HookWrite(w)
  PROVE  StrikeInv'
<1>0. /\ hook \in [Workers -> HookStates] /\ conn \in Conns
      /\ conn.failures \in Nat /\ past.strikes \in 0..PauseAfter /\ PauseAfter \in Nat \ {0}
      /\ \A v \in Workers : hook[v].count \in Nat
  BY TypeParts, QueueAssumption DEF Conns, Pasts, HookStates
<1> DEFINE count == hook[w].count + 1
<1>1. /\ UNCHANGED past /\ hook[w].pc = "write" /\ hook'[w].pc = "latch"
      /\ \A v \in Workers \ {w} : hook'[v] = hook[v]
  BY <1>0 DEF HookWrite, HookStates
<1>2. \/ UNCHANGED conn
      \/ /\ conn'.failures = count
         /\ ~conn'.paused => ~conn.paused /\ ~ (count >= PauseAfter)
         /\ conn'.paused => conn.paused \/ count >= PauseAfter
  <2>1. \/ UNCHANGED conn
        \/ /\ conn'.failures = count
           /\ conn'.paused = (conn.paused \/ PausesAt(count))
    BY <1>0 DEF HookWrite, Conns
  <2>2. PausesAt(count) <=> count >= PauseAfter
    BY DEF PausesAt
  <2> HIDE DEF count
  <2> QED BY <2>1, <2>2, Zenon
<1>3. Pending' = Pending \ {w} /\ w \in Pending
  BY <1>1 DEF Pending
<1>4. /\ Cardinality(Pending') = Cardinality(Pending) - 1
      /\ Cardinality(Pending) \in Nat /\ Cardinality(Pending') \in Nat
  BY <1>3, PendingFinite, FS_RemoveElement, FS_CardinalityType
<1>5. \A n \in Nat : Room(n) => /\ n + 1 + Cardinality(Pending') <= past'.strikes
                                /\ n + Cardinality(Pending') <= past'.strikes
  BY <1>0, <1>1, <1>4 DEF Room
<1>6. \A v \in Workers : hook'[v].pc = "write" =>
         hook[v].pc = "write" /\ hook'[v].count = hook[v].count
  BY <1>1
<1>7. count <= PauseAfter
  BY <1>0, <1>1 DEF StrikeInv
<1>8. /\ conn'.failures <= PauseAfter
      /\ ~conn'.paused => conn'.failures < PauseAfter
      /\ \A v \in Workers : hook'[v].pc = "write" => hook'[v].count < PauseAfter
  BY <1>0, <1>2, <1>6, <1>7 DEF StrikeInv
<1>9. ASSUME ~past'.raced
      PROVE  /\ conn'.paused => past'.strikes = PauseAfter
             /\ \/ past'.strikes = PauseAfter
                \/ /\ conn'.failures + Cardinality(Pending') <= past'.strikes
                   /\ \A v \in Workers : hook'[v].pc = "write" =>
                        hook'[v].count + Cardinality(Pending') <= past'.strikes
  <2>1. CASE past.strikes = PauseAfter
    BY <1>1, <2>1
  <2>2. CASE past.strikes # PauseAfter
    <3>1. /\ ~conn.paused /\ Room(conn.failures)
          /\ \A v \in Workers : hook[v].pc = "write" => Room(hook[v].count)
      BY <1>1, <1>9, <2>2 DEF StrikeInv
    <3>2. count + Cardinality(Pending') <= past'.strikes
      BY <1>0, <1>1, <1>5, <3>1
    <3>3. ~ (count >= PauseAfter)
      BY <1>0, <1>1, <1>4, <2>2, <3>2
    <3>4. ~conn'.paused
      BY <1>2, <3>1, <3>3
    <3>5. conn'.failures + Cardinality(Pending') <= past'.strikes
      BY <1>0, <1>2, <1>5, <3>1, <3>2
    <3>6. \A v \in Workers : hook'[v].pc = "write" =>
              hook'[v].count + Cardinality(Pending') <= past'.strikes
      BY <1>0, <1>5, <1>6, <3>1
    <3> QED BY <3>4, <3>5, <3>6
  <2> QED BY <2>1, <2>2
<1> QED BY <1>8, <1>9 DEF StrikeInv, Room

\* "Consecutive auth failures before the scheduler stops trying a store"
\* (shopify-sync.ts): for any number of hooks
\* at work, a store is paused only after PauseAfter rejections since its token last
\* proved itself, unless a hook was recording one at that moment.
THEOREM PausesAreEarned ==
  ASSUME IsFiniteSet(Workers)
  PROVE  Spec => []PauseIsEarned
<1>1. Init => StrikeInv
  <2> SUFFICES ASSUME Init PROVE StrikeInv
    OBVIOUS
  <2>1. /\ hook = [w \in Workers |-> IdleHook]
        /\ conn.failures = 0 /\ conn.paused = FALSE
        /\ past.strikes = 0
    <3>1. /\ hook = [w \in Workers |-> IdleHook]
          /\ \E good \in BOOLEAN : conn = [exists |-> TRUE, live |-> TRUE, good |-> good,
                                            failures |-> 0, paused |-> FALSE]
          /\ past = [owed |-> FALSE, handed |-> 0, strikes |-> 0, raced |-> FALSE,
                     mails |-> NoMails, rearmed |-> 0, hookLost |-> FALSE]
      BY Zenon DEF Init
    <3> QED BY <3>1
  <2>2. Pending = {} /\ \A w \in Workers : hook[w].pc # "write"
    BY <2>1 DEF Pending, IdleHook
  <2>3. Cardinality(Pending) = 0
    BY <2>2, FS_EmptySet
  <2> QED BY <2>1, <2>2, <2>3, QueueAssumption DEF StrikeInv, Room
<1>2. TypeOK /\ StrikeInv /\ [Next]_vars => StrikeInv'
  BY StrikeSteps, StrikeKept, StrikeReported, StrikeWritten
<1>3. TypeOK /\ StrikeInv => PauseIsEarned
  <2> SUFFICES ASSUME TypeOK, StrikeInv PROVE PauseIsEarned
    OBVIOUS
  <2>1. /\ conn.failures \in Nat /\ past.strikes \in 0..PauseAfter /\ PauseAfter \in Nat
        /\ Cardinality(Pending) \in Nat
    BY TypeParts, QueueAssumption, PendingFinite DEF Conns, Pasts
  <2> QED BY <2>1 DEF StrikeInv, Room, PauseIsEarned
<1> QED BY <1>1, <1>2, <1>3, QueueTypes, PTL DEF Spec
=============================================================================
