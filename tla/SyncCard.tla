------------------------------ MODULE SyncCard ------------------------------
(* The Connections screen while a Shopify sync runs: what the card shows   *)
(* (sync-progress.tsx, shopify-connection-card.tsx) of the run rows the    *)
(* worker writes (sync-run.ts), kept fresh by the events of a LiveChannel  *)
(* and, while that is not open, by polling /api/shopify/sync-status.       *)
(* Answers of the server arrive in any order. Left out: a run that is      *)
(* quiet so long that it is shown as stalled, or reaped while it goes on.  *)
EXTENDS LiveChannel, FiniteSets

CONSTANTS
    Gateway,    \* whether a realtime gateway is configured
    MaxRuns,    \* bound: rows, one per attempt
    MayEnd,     \* run -> how it may end: "ok", "failed" (bound: both or one)
    MaxWire,    \* bound: events on their way
    MaxAnswers, \* bound: answers on their way
    MaxFaults   \* bound: connections that end or fade, lost answers, reloads

VARIABLES
    job,        \* the queue: "none", "waiting" or "active"
    rows,       \* run -> what its row says of it
    latest,     \* the run of the latest row, 0 before there is one
    telling,    \* a run whose end is written and not yet announced, or Null
    card,       \* what the card shows
    asks,       \* requests the server has not read yet
    answers,    \* answers on their way
    faults

ASSUME KindsAssumption == Kinds = [run : 1..MaxRuns, says : {"progress", "done"}]
ASSUME CardAssumption ==
    /\ MaxRuns \in Nat \ {0}
    /\ MayEnd \in [1..MaxRuns -> SUBSET {"ok", "failed"}]
    /\ MaxWire \in Nat /\ MaxAnswers \in Nat /\ MaxFaults \in Nat

server == <<job, rows, latest, telling>>
requests == <<asks, answers>>
vars == <<chan, server, card, requests, faults>>

RowStates == {"none", "running", "ok", "failed"}
Rows == [run : 0..MaxRuns, is : RowStates]
row == [run |-> latest, is |-> rows[latest]]
Over(r) == r.is \in {"ok", "failed"}
Requests == {"poll", "refresh"}

TypeOK ==
    /\ topic \in Topics \cup {Null} /\ status \in Statuses
    /\ carrying \in BOOLEAN
    /\ wire \in Seq(Events) /\ Len(wire) <= MaxWire
    /\ job \in {"none", "waiting", "active"}
    /\ rows \in [0..MaxRuns -> RowStates] /\ latest \in 0..MaxRuns
    /\ telling \in 1..MaxRuns \cup {Null}
    /\ card \in [shown : Rows, prop : Rows, queued : BOOLEAN,
                 gaveUp : BOOLEAN, pressed : 0..MaxRuns \cup {Null}]
    /\ asks \subseteq Requests
    /\ answers \subseteq [to : Requests, row : Rows]
    /\ Cardinality(answers) <= MaxAnswers
    /\ faults \in 0..MaxFaults

\* The card is seeded from the row the page was rendered with.
Seeded(r) == [shown |-> r, prop |-> r, queued |-> FALSE, gaveUp |-> FALSE,
              pressed |-> Null]

\* There may have been an earlier run, which is over.
Init ==
    /\ ChannelInit
    /\ job = "none"
    /\ latest \in {0, 1}
    /\ \E end \in MayEnd[1] :
         rows = [n \in 0..MaxRuns |-> IF n = 1 /\ latest = 1 THEN end ELSE "none"]
    /\ telling = Null
    /\ card = Seeded(row)
    /\ asks = {} /\ answers = {}
    /\ faults = 0

-----------------------------------------------------------------------------
(* The worker and the queue.                                               *)

Announced(says, n) ==
    IF topic # Null
    THEN /\ Len(wire) < MaxWire
         /\ Publish([topic |-> topic, kind |-> [run |-> n, says |-> says]])
    ELSE UNCHANGED chan

\* The schedule, or another tab.
OthersEnqueue ==
    /\ job = "none" /\ latest < MaxRuns
    /\ job' = "waiting"
    /\ UNCHANGED <<chan, rows, latest, telling, card, requests, faults>>

RunOpens ==
    /\ job = "waiting"
    /\ job' = "active"
    /\ latest' = latest + 1
    /\ rows' = [rows EXCEPT ![latest + 1] = "running"]
    /\ UNCHANGED <<chan, telling, card, requests, faults>>

RunTicks ==
    /\ row.is = "running"
    /\ Announced("progress", latest)
    /\ UNCHANGED <<server, card, requests, faults>>

\* The row is closed before anyone is told. An attempt that will be retried
\* tells nobody; after the last one the job is over when the hook speaks.
RunEnds ==
    /\ row.is = "running" /\ telling = Null
    /\ \E end \in MayEnd[latest] :
         /\ rows' = [rows EXCEPT ![latest] = end]
         /\ \/ telling' = latest /\ job' \in {"active", "none"}
            \/ /\ end = "failed" /\ latest < MaxRuns
               /\ job' = "waiting" /\ UNCHANGED telling
    /\ UNCHANGED <<chan, latest, card, requests, faults>>

EndAnnounced ==
    /\ telling # Null
    /\ Announced("done", telling)
    /\ telling' = Null
    /\ job' = IF job = "active" /\ row.is # "running" THEN "none" ELSE job
    /\ UNCHANGED <<rows, latest, card, requests, faults>>

-----------------------------------------------------------------------------
(* The card.                                                               *)

Running == card.shown.is = "running"
Waiting == card.queued /\ ~Running
Active == Running \/ (Waiting /\ ~card.gaveUp)

\* "Sync now" is offered while nothing seems to be in flight. pressed is the
\* run there was then.
Press ==
    /\ ~Active /\ card.pressed = Null
    /\ job = "none" /\ latest < MaxRuns
    /\ job' = "waiting"
    /\ card' = [card EXCEPT !.pressed = latest]
    /\ UNCHANGED <<chan, rows, latest, telling, requests, faults>>

PressAnswered ==
    /\ card.pressed # Null
    /\ card' = [card EXCEPT !.pressed = Null, !.queued = TRUE, !.gaveUp = FALSE]
    /\ UNCHANGED <<chan, server, requests, faults>>

\* Nothing opened a row for 45 seconds.
GiveUp ==
    /\ Waiting /\ ~card.gaveUp
    /\ card' = [card EXCEPT !.gaveUp = TRUE]
    /\ UNCHANGED <<chan, server, requests, faults>>

\* Polling runs while there is something to wait for and no open connection.
Polls_QueuedOnly == card.queued /\ status # "open"
Polls == (Active \/ card.queued) /\ status # "open"

Poll ==
    /\ Polls
    /\ asks' = asks \cup {"poll"}
    /\ UNCHANGED <<chan, server, card, answers, faults>>

ServerReads(k) ==
    /\ k \in asks /\ Cardinality(answers) < MaxAnswers
    /\ asks' = asks \ {k}
    /\ answers' = answers \cup {[to |-> k, row |-> row]}
    /\ UNCHANGED <<chan, server, card, faults>>

\* A polled row that is over releases the queued flag, whichever run it is of.
PollShown(r) ==
    [card EXCEPT !.shown = r, !.queued = @ /\ ~Over(r)]

\* The page re-rendered by router.refresh() counts when its row has changed.
RefreshShown(r) ==
    IF r = card.prop THEN card ELSE [card EXCEPT !.prop = r, !.shown = r]

Answered(a) ==
    /\ a \in answers
    /\ answers' = answers \ {a}
    /\ card' = IF a.to = "poll" THEN PollShown(a.row) ELSE RefreshShown(a.row)
    /\ UNCHANGED <<chan, server, asks, faults>>

\* Progress takes the card over; the end of a run makes it ask for the row.
DoneShown_Ends == [card EXCEPT !.queued = FALSE, !.shown.is = "ok"]
DoneShown == [card EXCEPT !.queued = FALSE]

EventShown ==
    LET e == Head(wire).kind IN
    /\ Deliver
    /\ \/ /\ e.says = "progress"
          /\ card' = [card EXCEPT !.shown = [run |-> e.run, is |-> "running"]]
          /\ UNCHANGED asks
       \/ /\ e.says = "done"
          /\ card' = DoneShown
          /\ asks' = Requests
    /\ UNCHANGED <<server, answers, faults>>

-----------------------------------------------------------------------------
(* The channel as the card sees it, and what may go wrong.                 *)

Listens == Gateway /\ wire' = << >> /\ \E t \in Topics : Take(t)

Connection ==
    /\ Listens \/ Opens \/ Binds \/ Redials
    /\ UNCHANGED <<server, card, requests, faults>>

Reload ==
    /\ card' = Seeded(row)
    /\ asks' = {} /\ answers' = {}
    /\ Leave \/ (topic = Null /\ UNCHANGED chan)

Fault ==
    /\ faults < MaxFaults /\ faults' = faults + 1
    /\ \/ (Ends \/ Fades) /\ UNCHANGED <<card, requests>>
       \/ \E a \in answers :
            answers' = answers \ {a} /\ UNCHANGED <<chan, card, asks>>
       \/ Reload
    /\ UNCHANGED server

Next ==
    \/ OthersEnqueue \/ RunOpens \/ RunTicks \/ RunEnds \/ EndAnnounced
    \/ Press \/ PressAnswered \/ GiveUp \/ Poll \/ EventShown
    \/ \E k \in Requests : ServerReads(k)
    \/ \E a \in [to : Requests, row : Rows] : Answered(a)
    \/ Connection \/ Fault

Spec == Init /\ [][Next]_vars

\* Jobs are taken, runs end (SyncQueue), requests are answered, events arrive
\* and sockets that are dialled open. Nobody has to press or to reload, and
\* there may be no connection at all.
Fairness ==
    /\ WF_vars(RunOpens) /\ WF_vars(RunEnds) /\ WF_vars(EndAnnounced)
    /\ WF_vars(PressAnswered) /\ WF_vars(Poll) /\ WF_vars(EventShown)
    /\ \A k \in Requests : WF_vars(ServerReads(k))
    /\ \A a \in [to : Requests, row : Rows] : WF_vars(Answered(a))
    /\ WF_vars((Opens \/ Binds \/ Redials) /\ Connection)

FairSpec == Spec /\ Fairness

-----------------------------------------------------------------------------
(* Properties.                                                             *)

\* sync-progress.tsx: a run shown as over is over and ended as it is shown, ok
\* or failed, although ends are announced late, to a card that may be showing
\* another run, and answers come in any order.
ShownOverIsOver == Over(card.shown) => rows[card.shown.run] = card.shown.is

\* A run shown as running is not shown so for ever - and "Sync now" disabled -
\* by a card whose connection is not open: polling alone ends it. (While it
\* reads as open, polling stops, and an end announced before the gateway had
\* admitted the socket is never shown.)
PollingSuffices == Running ~> ~Running \/ status = "open"

\* sync-progress.tsx: "this page will update on its own": a sync that was asked
\* for here is shown to have ended, this run or a later one.
EndIsShown ==
    \A n \in 0..MaxRuns :
        card.pressed = n ~> card.shown.run > n /\ ~Running
=============================================================================
