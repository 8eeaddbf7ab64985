------------------------------ MODULE Realtime ------------------------------
(* Live updates, end to end: the registry through which the components of  *)
(* one browser tab share a connection (apps/web/lib/realtime), the         *)
(* reconnecting client (packages/realtime/src/client.ts) and the gateway   *)
(* that admits sockets and fans the events of a workspace out to them      *)
(* (apps/ws-gateway).  A socket is one record with both of its ends.       *)
(* Delays are left out: a timer that is armed may fire at any time.        *)
EXTENDS Naturals, Sequences

CONSTANTS
    Hooks,      \* mounted components that may listen
    Me,         \* one of them, whose view is the abstract channel
    Clients,    \* connect() calls alive at once (bound)
    Sockets,    \* sockets alive at once at either end (bound)
    Tenants,    \* workspaces of the user
    Home,       \* the workspace the page starts with
    Messages,   \* what may be published
    TenantOf,   \* event -> the workspace on whose channel it is published
    MaxSwitches,\* bound: switches to another workspace
    MaxWire,    \* bound: events on their way in one socket
    MaxFaults,  \* bound: refusals, lost connections and restarts
    Null

ASSUME RealtimeAssumption ==
    /\ Me \in Hooks /\ Home \in Tenants
    /\ Null \notin Hooks \cup Clients \cup Sockets \cup Tenants
    /\ Messages \cap {"open", "refused", "gone"} = {}
    /\ TenantOf \in [Messages -> Tenants]
    /\ MaxSwitches \in Nat /\ MaxWire \in Nat /\ MaxFaults \in Nat

VARIABLES
    shown,      \* workspace whose token the shell hands out, Null meanwhile
    switches,
    holds,      \* hook -> the client it acquired
    registry,   \* workspace -> the shared client
    reap,       \* clients whose deferred teardown is armed
    client,     \* the clients
    sock,       \* the sockets
    faults

vars == <<shown, switches, holds, registry, reap, client, sock, faults>>
page == <<shown, switches, holds, registry, reap>>

NoClient == [tenant |-> Null, state |-> "closed", sock |-> Null,
             timer |-> FALSE]
\* there: the page end; ask, open, room, alive: the gateway's; up: the path.
NoSocket == [by |-> Null, tenant |-> Null, there |-> FALSE, wire |-> << >>,
             up |-> TRUE, ask |-> FALSE, open |-> FALSE, room |-> Null,
             alive |-> FALSE]
Frames == {"open", "refused", "gone"} \cup Messages

TypeOK ==
    /\ shown \in Tenants \cup {Null}
    /\ switches \in 0..MaxSwitches
    /\ holds \in [Hooks -> Clients \cup {Null}]
    /\ registry \in [Tenants -> Clients \cup {Null}]
    /\ reap \subseteq Clients
    /\ client \in [Clients ->
         [tenant : Tenants \cup {Null}, sock : Sockets \cup {Null},
          state : {"connecting", "open", "retrying", "closed"},
          timer : BOOLEAN]]
    /\ \A c \in Clients : client[c].state = "closed" =>
                           ~client[c].timer /\ client[c].sock = Null
    /\ \A s \in Sockets :
         /\ DOMAIN sock[s] = DOMAIN NoSocket
         /\ sock[s].by \in Clients \cup {Null}
         /\ {sock[s].tenant, sock[s].room} \subseteq Tenants \cup {Null}
         /\ {sock[s].there, sock[s].up, sock[s].ask, sock[s].open,
             sock[s].alive} \subseteq BOOLEAN
         /\ sock[s].wire \in Seq(Frames) /\ Len(sock[s].wire) <= MaxWire + 2
    /\ faults \in 0..MaxFaults

Init ==
    /\ shown = Home
    /\ switches = 0
    /\ holds = [h \in Hooks |-> Null]
    /\ registry = [t \in Tenants |-> Null]
    /\ reap = {}
    /\ client = [c \in Clients |-> NoClient]
    /\ sock = [s \in Sockets |-> NoSocket]
    /\ faults = 0

-----------------------------------------------------------------------------
(* Sockets.                                                                *)

\* A socket both ends are done with is forgotten, but for what the gateway's
\* maps hold of it.
Settled(r) ==
    IF r.there \/ r.ask \/ r.open THEN r ELSE [NoSocket EXCEPT !.room = r.room]

\* The page end closes, or has been told that the socket closed.
PageEnd(r) == Settled([r EXCEPT !.there = FALSE, !.wire = << >>])

Sends(r, frame) ==
    IF r.there /\ r.up THEN [r EXCEPT !.wire = Append(@, frame)] ELSE r

\* The close listener of a bound socket takes it out of the maps.
Unbound(r) == [r EXCEPT !.room = Null, !.alive = FALSE]
GatewayEnd(r) == Settled(Unbound([r EXCEPT !.open = FALSE]))

Dialing(r) == r.there /\ r.up /\ r.wire = << >> /\ ~r.open /\ ~r.ask

\* The maps may keep a closed socket: no ping or event reaches it and nothing
\* takes it out. The model forgets it when it needs the name (bound).
FreeSockets ==
    {s \in Sockets : sock[s] \in
        {[NoSocket EXCEPT !.room = t] : t \in Tenants \cup {Null}}}

\* socketFactory(target): the url names the workspace.
Dialed(c, t) ==
    [NoSocket EXCEPT !.by = c, !.tenant = t, !.there = TRUE]

-----------------------------------------------------------------------------
(* The client.                                                             *)

Opening(cl, s) == [cl EXCEPT !.state = "connecting", !.sock = s]
Retrying_NoTimer(cl) == [cl EXCEPT !.state = "retrying", !.sock = Null]
Retrying(cl) ==
    [cl EXCEPT !.state = "retrying", !.sock = Null, !.timer = TRUE]
ClearRetry(cl) == [cl EXCEPT !.timer = FALSE]
ShutDown_TimerKept(cl) == [cl EXCEPT !.state = "closed", !.sock = Null]
ShutDown(cl) == [ClearRetry(cl) EXCEPT !.state = "closed", !.sock = Null]

\* Events of a socket the client abandoned are ignored.
Live(s) == sock[s].by # Null /\ client[sock[s].by].sock = s

\* What a frame does to the client. Events go to the subscribed hooks.
AfterFrame(cl, frame) ==
    CASE frame = "open" -> [cl EXCEPT !.state = "open"]
      [] frame = "refused" -> ShutDown(cl)
      [] frame = "gone" -> Retrying(cl)
      [] OTHER -> cl

Frame(s) ==
    LET r == sock[s] frame == Head(r.wire) IN
    /\ r.there /\ r.wire # << >>
    /\ client' = IF Live(s)
                 THEN [client EXCEPT ![r.by] = AfterFrame(@, frame)]
                 ELSE client
    /\ sock' = [sock EXCEPT ![s] =
                  IF frame \in {"refused", "gone"} THEN PageEnd(r)
                  ELSE [r EXCEPT !.wire = Tail(@)]]
    /\ UNCHANGED <<page, faults>>

Reopen(c, cl) ==
    \E s \in FreeSockets :
        /\ client' = [client EXCEPT ![c] = Opening(cl, s)]
        /\ sock' = [sock EXCEPT ![s] = Dialed(c, cl.tenant)]
        /\ UNCHANGED <<page, faults>>

RetryFires(c) ==
    /\ client[c].timer
    /\ Reopen(c, ClearRetry(client[c]))

\* The browser is online again: no need to wait for the timer.
OnlineSkips(c) == client[c].state = "retrying"
OnlineClient(cl) == ClearRetry(cl)

Online(c) ==
    /\ OnlineSkips(c)
    /\ Reopen(c, OnlineClient(client[c]))

-----------------------------------------------------------------------------
(* The registry of shared connections, and the hooks.                      *)

Holders(c) == {h \in Hooks : holds[h] = c}
FreeClients == {c \in Clients : client[c] = NoClient}

\* A client the gateway refused is not handed out again.
Reusable(c) == c # Null /\ client[c].state # "closed"

ReapAfterAcquire_Kept(c) == reap
ReapAfterAcquire(c) == reap \ {c}

Acquire(h) ==
    /\ holds[h] = Null /\ shown # Null
    /\ \/ /\ Reusable(registry[shown])
          /\ holds' = [holds EXCEPT ![h] = registry[shown]]
          /\ reap' = ReapAfterAcquire(registry[shown])
          /\ UNCHANGED <<registry, client, sock>>
       \/ /\ ~Reusable(registry[shown])
          /\ \E c \in FreeClients, s \in FreeSockets :
                /\ client' = [client EXCEPT ![c] =
                       Opening([NoClient EXCEPT !.tenant = shown], s)]
                /\ sock' = [sock EXCEPT ![s] = Dialed(c, shown)]
                /\ registry' = [registry EXCEPT ![shown] = c]
                /\ holds' = [holds EXCEPT ![h] = c]
          /\ UNCHANGED reap
    /\ UNCHANGED <<shown, switches, faults>>

\* The hooks of a set let go; what nobody holds is torn down in a moment.
LetGo(hs) ==
    /\ holds' = [h \in Hooks |-> IF h \in hs THEN Null ELSE holds[h]]
    /\ reap' = reap \cup {c \in Clients : /\ Holders(c) # {}
                                         /\ Holders(c) \subseteq hs}

Release(h) ==
    /\ holds[h] # Null
    /\ LetGo({h})
    /\ UNCHANGED <<shown, switches, registry, client, sock, faults>>

Unused(c) == Holders(c) = {}

\* The timer of a release. dispose() shuts the client down, and as nobody can
\* reach it any more its name is free again.
Reap(c) ==
    /\ c \in reap
    /\ reap' = reap \ {c}
    /\ IF Unused(c)
       THEN /\ registry' = [t \in Tenants |-> IF registry[t] = c THEN Null
                                              ELSE registry[t]]
            /\ client' = [client EXCEPT ![c] = [ShutDown(@) EXCEPT !.tenant = Null]]
            /\ sock' = IF client[c].sock = Null THEN sock
                       ELSE [sock EXCEPT ![client[c].sock] = PageEnd(@)]
       ELSE UNCHANGED <<registry, client, sock>>
    /\ UNCHANGED <<shown, switches, holds, faults>>

\* Another workspace: the shell hands out no token until it has that one's.
SwitchWorkspace ==
    /\ shown # Null
    /\ switches < MaxSwitches /\ switches' = switches + 1
    /\ shown' = Null
    /\ LetGo(Hooks)
    /\ UNCHANGED <<registry, client, sock, faults>>

TokenArrives ==
    /\ shown = Null
    /\ shown' \in Tenants
    /\ UNCHANGED <<switches, holds, registry, reap, client, sock, faults>>

-----------------------------------------------------------------------------
(* The gateway.                                                            *)

pageSide == <<client, page>>

\* The upgrade succeeds before anything is authorised: the page reads "open".
Accept(s) ==
    /\ Dialing(sock[s])
    /\ sock' = [sock EXCEPT ![s] =
                  Sends([@ EXCEPT !.open = TRUE, !.ask = TRUE], "open")]
    /\ UNCHANGED <<pageSide, faults>>

\* The socket is bound to the workspace it asked for, never to another one.
RoomFor_First(r) == Home
RoomFor(r) == r.tenant

\* A socket that closed while it was being authorised is bound all the same:
\* the listener that would unbind it is attached too late to hear it close.
Bound(r) ==
    Settled([r EXCEPT !.ask = FALSE, !.room = RoomFor(r), !.alive = r.open])

Admit(s) ==
    /\ sock[s].ask
    /\ sock' = [sock EXCEPT ![s] = Bound(@)]
    /\ UNCHANGED <<pageSide, faults>>

\* 4401: the session may not, or the authorizer failed or did not answer.
Refuse(s) ==
    LET r == [sock[s] EXCEPT !.ask = FALSE] IN
    /\ sock[s].ask
    /\ sock' = [sock EXCEPT ![s] =
                  IF r.open THEN Sends(GatewayEnd(r), "refused")
                  ELSE Settled(r)]
    /\ UNCHANGED pageSide

\* The gateway hears that the other end closed, or that the path is dead.
PeerClosed(s) ==
    /\ sock[s].open /\ ~sock[s].there
    /\ sock' = [sock EXCEPT ![s] = GatewayEnd(@)]
    /\ UNCHANGED <<pageSide, faults>>

PeerReset(s) ==
    /\ sock[s].open /\ ~sock[s].up
    /\ sock' = [sock EXCEPT ![s] = GatewayEnd(@)]
    /\ UNCHANGED <<pageSide, faults>>

\* A socket that answered no ping since the last round is terminated.
Pinged_StillAlive(r) == r
Pinged(r) == [r EXCEPT !.alive = FALSE]
AfterRound(r) ==
    CASE r.room = Null -> r
      [] r.alive -> Pinged(r)
      [] r.open /\ ~r.alive -> Sends(GatewayEnd(r), "gone")
      [] OTHER -> r

\* A round is long: whoever can answer a ping has.
Heartbeat ==
    /\ \A s \in Sockets :
         sock[s].open /\ sock[s].room # Null /\ sock[s].there /\ sock[s].up =>
            sock[s].alive
    /\ sock' = [s \in Sockets |-> AfterRound(sock[s])]
    /\ UNCHANGED <<pageSide, faults>>

Pong(s) ==
    /\ sock[s].open /\ sock[s].room # Null /\ sock[s].there /\ sock[s].up
    /\ sock' = [sock EXCEPT ![s].alive = TRUE]
    /\ UNCHANGED <<pageSide, faults>>

\* An event on a workspace's channel goes to the open sockets bound to it.
Receives(r, e) == r.room = TenantOf[e] /\ r.open
EventsOf(r) ==
    LET w == r.wire
        first == IF w # << >> /\ w[1] = "open" THEN 2 ELSE 1
        last == IF w # << >> /\ w[Len(w)] \in {"refused", "gone"} THEN Len(w) - 1 ELSE Len(w)
    IN SubSeq(w, first, last)   \* an open comes first and an end last

Publish(e) ==
    /\ \A s \in Sockets :
         Receives(sock[s], e) => Len(EventsOf(sock[s])) < MaxWire
    /\ sock' = [s \in Sockets |-> IF Receives(sock[s], e)
                                  THEN Sends(sock[s], e) ELSE sock[s]]
    /\ UNCHANGED <<pageSide, faults>>

-----------------------------------------------------------------------------
(* Faults.                                                                 *)

\* The gateway is down, or the upgrade does not go through.
DialFails(s) ==
    /\ Dialing(sock[s])
    /\ sock' = [sock EXCEPT ![s] = Sends(@, "gone")]
    /\ UNCHANGED pageSide

\* The network dies in silence; the browser may notice, some day.
Cut(s) ==
    /\ sock[s].there /\ sock[s].up
    /\ sock' = [sock EXCEPT ![s].up = FALSE, ![s].wire = << >>]
    /\ UNCHANGED pageSide

Notice(s) ==
    /\ sock[s].there /\ ~sock[s].up /\ sock[s].wire = << >>
    /\ sock' = [sock EXCEPT ![s].wire = <<"gone">>]
    /\ UNCHANGED <<pageSide, faults>>

\* A deploy closes every socket (1001), a crash drops them: both are retried.
Restart ==
    /\ sock' = [s \in Sockets |->
                  IF sock[s].open
                  THEN Sends(GatewayEnd([sock[s] EXCEPT !.ask = FALSE]), "gone")
                  ELSE Settled(Unbound([sock[s] EXCEPT !.ask = FALSE]))]
    /\ UNCHANGED pageSide

Fault ==
    /\ faults < MaxFaults /\ faults' = faults + 1
    /\ \/ \E s \in Sockets : Refuse(s) \/ DialFails(s) \/ Cut(s)
       \/ Restart

-----------------------------------------------------------------------------

Next ==
    \/ \E h \in Hooks : Acquire(h) \/ Release(h)
    \/ \E c \in Clients : Reap(c) \/ RetryFires(c) \/ Online(c)
    \/ SwitchWorkspace \/ TokenArrives
    \/ \E s \in Sockets : \/ Frame(s) \/ Accept(s) \/ Admit(s) \/ PeerClosed(s)
                         \/ PeerReset(s) \/ Pong(s) \/ Notice(s)
    \/ \E e \in Messages : Publish(e)
    \/ Heartbeat
    \/ Fault

Spec == Init /\ [][Next]_vars

\* Timers fire and frames arrive; an authorizer that does not answer is given
\* up on.  Nothing says that a browser notices a dead network.
Fairness ==
    /\ \A c \in Clients : WF_vars(Reap(c)) /\ WF_vars(RetryFires(c))
    /\ \A s \in Sockets : /\ WF_vars(Frame(s))
                          /\ WF_vars(Accept(s))
                          /\ WF_vars(Admit(s))
                          /\ WF_vars(PeerClosed(s)) /\ WF_vars(Pong(s))
    /\ WF_vars(Heartbeat)

FairSpec == Spec /\ Fairness

-----------------------------------------------------------------------------
(* Properties.                                                             *)

\* client.ts: there is one socket while connecting or open, one timer while
\* waiting, neither once closed, and no socket left behind; use-realtime.ts:
\* only a connection nobody holds is about to be torn down.
OneConnection ==
    /\ \A c \in Clients :
         /\ client[c].timer <=> client[c].state = "retrying"
         /\ client[c].sock # Null <=> client[c].state \in {"connecting", "open"}
    /\ \A s \in Sockets : sock[s].there => Live(s)
    /\ \A c \in reap : Holders(c) = {}

\* gateway.ts: a bound socket whose page is gone, or whose network died in
\* silence, leaves the maps (one that closed before it was bound never does).
EverySocketLeaves ==
    \A s \in Sockets :
        sock[s].room # Null /\ sock[s].open /\ ~(sock[s].there /\ sock[s].up) ~>
            sock[s].room = Null

Admitted(c) == client[c].sock # Null /\ sock[client[c].sock].room # Null
CutOff(c) == client[c].sock # Null /\ ~sock[client[c].sock].up

\* client.ts, gateway.ts: a component that keeps its connection is admitted in
\* the end, or refused, or sits on a network that died in silence.
Connects ==
    \A h \in Hooks : LET c == holds[h] IN
        holds[h] # Null ~>
            holds[h] = Null \/ Admitted(c) \/ client[c].state = "closed" \/ CutOff(c)

\* What one component sees of all this.
MySocket ==
    IF holds[Me] = Null \/ client[holds[Me]].sock = Null THEN NoSocket
    ELSE sock[client[holds[Me]].sock]
Told(e) == [topic |-> TenantOf[e], kind |-> e]
MyEvents ==
    [i \in DOMAIN EventsOf(MySocket) |-> Told(EventsOf(MySocket)[i])]

Channel == INSTANCE LiveChannel WITH
    Topics <- Tenants, Kinds <- Messages,
    topic <- IF holds[Me] = Null THEN Null ELSE client[holds[Me]].tenant,
    status <- IF holds[Me] = Null THEN "closed" ELSE client[holds[Me]].state,
    carrying <- MySocket.open /\ MySocket.up /\ MySocket.room # Null,
    wire <- MyEvents

\* Registry, client and gateway together implement LiveChannel: of the events
\* on their way to it a component gets each once and in order, of its own
\* workspace only and from the one socket it has, and what was on its way is
\* dropped, never delivered late, when that socket ends; it never starts on a
\* connection that was refused.
ImplementsChannel == Channel!ChannelSpec
=============================================================================
