--------------------------- MODULE RealtimeProofs ---------------------------
(* Theorems about Realtime, for any hooks, clients, sockets, workspaces and *)
(* faults: a client has one connection, and the socket it has carries the   *)
(* events of its own workspace only.                                        *)
EXTENDS Realtime, SequenceTheorems, TLAPS

-----------------------------------------------------------------------------
(* Types.                                                                   *)

Types ==
    /\ shown \in Tenants \cup {Null}
    /\ holds \in [Hooks -> Clients \cup {Null}]
    /\ registry \in [Tenants -> Clients \cup {Null}]
    /\ reap \in SUBSET Clients
    /\ client \in [Clients ->
         [tenant : Tenants \cup {Null}, state : {"connecting", "open", "retrying", "closed"},
          sock : Sockets \cup {Null}, timer : BOOLEAN]]

\* What the page may be sent on a socket of workspace t.
EventsFor(t) == {e \in Messages : TenantOf[e] = t}
FramesOf(t) == {"open", "refused", "gone"} \cup EventsFor(t)

SocketRecords ==
    [by : Clients \cup {Null}, tenant : Tenants \cup {Null}, there : BOOLEAN,
     wire : Seq(Frames), up : BOOLEAN, ask : BOOLEAN, open : BOOLEAN,
     room : Tenants \cup {Null}, alive : BOOLEAN]

\* A socket at work was dialled for a workspace, is in the room of that one or
\* of none, and carries its events only.
SocketOk(r) ==
    /\ r \in SocketRecords
    /\ r.there \/ r.ask \/ r.open => r.tenant # Null
    /\ r.tenant # Null => r.room \in {Null, r.tenant}
    /\ r.wire \in Seq(FramesOf(r.tenant))

LEMMA NoSocketOk ==
  /\ SocketOk(NoSocket) /\ NoSocket \in SocketRecords /\ ~NoSocket.there
  /\ \A t \in Tenants \cup {Null} : SocketOk([NoSocket EXCEPT !.room = t])
<1>1. << >> \in Seq(Frames) /\ << >> \in Seq(FramesOf(Null))
  BY EmptySeq
<1>2. \A t \in Tenants \cup {Null} :
        [NoSocket EXCEPT !.room = t] \in SocketRecords /\ NoSocket \in SocketRecords
  BY <1>1 DEF NoSocket, SocketRecords
<1>3. ASSUME NEW t \in Tenants \cup {Null} PROVE SocketOk([NoSocket EXCEPT !.room = t])
  <2> DEFINE r == [NoSocket EXCEPT !.room = t]
  <2>1. r \in SocketRecords
    BY <1>2
  <2>2. r.tenant = Null /\ r.wire = << >> /\ ~r.there /\ ~r.ask /\ ~r.open
    BY DEF NoSocket
  <2> HIDE DEF r
  <2>3. SocketOk(r)
    BY <1>1, <2>1, <2>2 DEF SocketOk
  <2> QED BY <2>3 DEF r
<1>4. /\ NoSocket.tenant = Null /\ NoSocket.wire = << >>
      /\ ~NoSocket.there /\ ~NoSocket.ask /\ ~NoSocket.open
  BY DEF NoSocket
<1>5. SocketOk(NoSocket) /\ NoSocket \in SocketRecords
  BY <1>1, <1>2, <1>4 DEF SocketOk
<1> QED BY <1>3, <1>4, <1>5

\* Forgetting a socket both ends are done with keeps the page's end as it is.
LEMMA SettledOk ==
  ASSUME NEW r, SocketOk(r)
  PROVE  /\ SocketOk(Settled(r))
         /\ Settled(r).there = r.there
         /\ r.there => Settled(r) = r
<1>1. CASE r.there \/ r.ask \/ r.open
  BY <1>1 DEF Settled
<1>2. CASE ~ (r.there \/ r.ask \/ r.open)
  <2>1. Settled(r) = [NoSocket EXCEPT !.room = r.room] /\ r.room \in Tenants \cup {Null}
        /\ r.there = FALSE
    BY <1>2 DEF Settled, SocketOk, SocketRecords
  <2> QED BY <2>1, NoSocketOk DEF NoSocket
<1> QED BY <1>1, <1>2

LEMMA SendsOk ==
  ASSUME NEW r, SocketOk(r), NEW f \in FramesOf(r.tenant)
  PROVE  /\ SocketOk(Sends(r, f))
         /\ Sends(r, f).there = r.there /\ Sends(r, f).by = r.by
         /\ Sends(r, f).tenant = r.tenant
<1>1. CASE r.there /\ r.up
  <2>1. Sends(r, f) = [r EXCEPT !.wire = Append(r.wire, f)]
    BY <1>1 DEF Sends
  <2>2. r.tenant \in Tenants \cup {Null}
    BY DEF SocketOk, SocketRecords
  <2>3. f \in Frames
    BY DEF FramesOf, EventsFor, Frames
  <2>4. Append(r.wire, f) \in Seq(Frames) /\ Append(r.wire, f) \in Seq(FramesOf(r.tenant))
    BY <2>3, AppendProperties DEF SocketOk, SocketRecords
  <2> QED BY <2>1, <2>4 DEF SocketOk, SocketRecords
<1>2. CASE ~ (r.there /\ r.up)
  BY <1>2 DEF Sends
<1> QED BY <1>1, <1>2

\* The gateway closes: the page's end stays.
LEMMA GatewayEndOk ==
  ASSUME NEW r, SocketOk(r)
  PROVE  /\ SocketOk(GatewayEnd(r)) /\ SocketOk(Settled(Unbound(r)))
         /\ GatewayEnd(r).there = r.there /\ Settled(Unbound(r)).there = r.there
         /\ r.there => /\ GatewayEnd(r).by = r.by /\ GatewayEnd(r).tenant = r.tenant
                       /\ Settled(Unbound(r)).by = r.by /\ Settled(Unbound(r)).tenant = r.tenant
<1> DEFINE e == Unbound([r EXCEPT !.open = FALSE])  u == Unbound(r)
<1>1. /\ SocketOk(e) /\ e.there = r.there /\ e.by = r.by /\ e.tenant = r.tenant
      /\ SocketOk(u) /\ u.there = r.there /\ u.by = r.by /\ u.tenant = r.tenant
  BY DEF Unbound, SocketOk, SocketRecords
<1> HIDE DEF e, u
<1>2. GatewayEnd(r) = Settled(e) /\ Settled(Unbound(r)) = Settled(u)
  BY DEF GatewayEnd, e, u
<1> QED BY <1>1, <1>2, SettledOk

\* The page closes, or has heard: whatever is on its way is lost.
LEMMA PageEndOk ==
  ASSUME NEW r, SocketOk(r)
  PROVE  SocketOk(PageEnd(r)) /\ PageEnd(r).there = FALSE
<1> DEFINE e == [r EXCEPT !.there = FALSE, !.wire = << >>]
<1>1. SocketOk(e) /\ e.there = FALSE
  <2>1. << >> \in Seq(Frames) /\ << >> \in Seq(FramesOf(r.tenant))
    BY EmptySeq
  <2>2. /\ e \in SocketRecords /\ e.there = FALSE /\ e.wire = << >>
        /\ e.tenant = r.tenant /\ e.ask = r.ask /\ e.open = r.open /\ e.room = r.room
    BY <2>1 DEF SocketOk, SocketRecords
  <2> HIDE DEF e
  <2> QED BY <2>1, <2>2 DEF SocketOk
<1> HIDE DEF e
<1>2. PageEnd(r) = Settled(e)
  BY DEF PageEnd, e
<1> QED BY <1>1, <1>2, SettledOk

-----------------------------------------------------------------------------
(* The invariant.                                                           *)

ClientOk(cl) ==
    /\ cl.timer <=> cl.state = "retrying"
    /\ cl.sock # Null <=> cl.state \in {"connecting", "open"}
    /\ cl.state # "closed" => cl.tenant # Null

\* A socket the page has open is the one of the client that dialled it.
Wired ==
    /\ sock \in [Sockets -> SocketRecords]
    /\ \A s \in Sockets : SocketOk(sock[s])
    /\ \A c \in Clients : ClientOk(client[c])
    /\ \A s \in Sockets : sock[s].there =>
          /\ sock[s].by \in Clients
          /\ client[sock[s].by].sock = s
          /\ client[sock[s].by].tenant = sock[s].tenant
    /\ \A c \in Clients : client[c].sock # Null =>
          sock[client[c].sock].there /\ sock[client[c].sock].by = c

\* Names of clients that can still be reached are in use.
Reachable ==
    /\ \A h \in Hooks : holds[h] # Null => client[holds[h]].tenant # Null
    /\ \A t \in Tenants : registry[t] # Null => client[registry[t]].tenant # Null
    /\ \A c \in reap : client[c].tenant # Null /\ Holders(c) = {}

RealtimeInv == Types /\ Wired /\ Reachable

LEMMA InvInit == Init => RealtimeInv
<1> SUFFICES ASSUME Init PROVE RealtimeInv
  OBVIOUS
<1>1. /\ shown = Home /\ reap = {}
      /\ holds = [h \in Hooks |-> Null] /\ registry = [t \in Tenants |-> Null]
      /\ client = [c \in Clients |-> NoClient] /\ sock = [s \in Sockets |-> NoSocket]
  BY DEF Init
<1>2. Types
  BY <1>1, RealtimeAssumption DEF Types, NoClient
<1>3. Wired
  <2>1. ClientOk(NoClient) /\ NoClient.sock = Null
    BY DEF ClientOk, NoClient
  <2>2. \A s \in Sockets : sock[s] = NoSocket
    BY <1>1
  <2>3. \A c \in Clients : client[c] = NoClient
    BY <1>1
  <2> QED BY <1>1, NoSocketOk, <2>1, <2>2, <2>3 DEF Wired
<1>4. Reachable
  BY <1>1 DEF Reachable
<1> QED BY <1>2, <1>3, <1>4 DEF RealtimeInv

\* What the gateway and the network do leaves the page's ends where they are.
LEMMA GatewayKeeps ==
  ASSUME RealtimeInv, UNCHANGED <<client, page>>,
         sock' \in [Sockets -> SocketRecords],
         \A s \in Sockets :
            /\ SocketOk(sock'[s]) /\ sock'[s].there = sock[s].there
            /\ sock[s].there => sock'[s].by = sock[s].by /\ sock'[s].tenant = sock[s].tenant
  PROVE  RealtimeInv'
<1>1. Types' /\ Reachable'
  BY DEF RealtimeInv, Types, Reachable, Holders, page
<1>2. \A s \in Sockets : sock'[s].there =>
          /\ sock'[s].by \in Clients
          /\ client[sock'[s].by].sock = s
          /\ client[sock'[s].by].tenant = sock'[s].tenant
  BY DEF RealtimeInv, Wired
<1>3. \A c \in Clients : client[c].sock # Null =>
          sock'[client[c].sock].there /\ sock'[client[c].sock].by = c
  BY DEF RealtimeInv, Wired, Types
<1>4. Wired'
  BY <1>2, <1>3 DEF RealtimeInv, Wired
<1> QED BY <1>1, <1>4 DEF RealtimeInv

\* The same, for a step on one socket.
LEMMA OneSocketKeeps ==
  ASSUME RealtimeInv, UNCHANGED <<client, page>>, NEW s \in Sockets, NEW r,
         sock' = [sock EXCEPT ![s] = r], SocketOk(r), r.there = sock[s].there,
         sock[s].there => r.by = sock[s].by /\ r.tenant = sock[s].tenant
  PROVE  RealtimeInv'
<1>1. r \in SocketRecords
  BY DEF SocketOk
<1>2. sock' \in [Sockets -> SocketRecords] /\ sock'[s] = r /\ \A x \in Sockets \ {s} : sock'[x] = sock[x]
  BY <1>1 DEF RealtimeInv, Wired
<1>3. \A x \in Sockets : SocketOk(sock[x])
  BY DEF RealtimeInv, Wired
<1>4. \A x \in Sockets :
            /\ SocketOk(sock'[x]) /\ sock'[x].there = sock[x].there
            /\ sock[x].there => sock'[x].by = sock[x].by /\ sock'[x].tenant = sock[x].tenant
  BY <1>2, <1>3
<1> QED BY <1>2, <1>4, GatewayKeeps

LEMMA GatewaySteps ==
  ASSUME RealtimeInv, NEW s \in Sockets,
         \/ Accept(s) \/ Admit(s) \/ Refuse(s) \/ PeerClosed(s) \/ PeerReset(s)
         \/ Pong(s) \/ DialFails(s) \/ Cut(s) \/ Notice(s)
  PROVE  RealtimeInv'
<1> DEFINE r == sock[s]
<1>0. SocketOk(r) /\ r \in SocketRecords /\ r.tenant \in Tenants \cup {Null}
  BY DEF RealtimeInv, Wired, SocketOk, SocketRecords
<1>1. UNCHANGED <<client, page>>
  BY DEF Accept, Admit, Refuse, PeerClosed, PeerReset, Pong, DialFails, Cut, Notice, pageSide
<1>2. \A f \in {"open", "refused", "gone"} : f \in FramesOf(r.tenant)
  BY DEF FramesOf
<1>3. CASE Accept(s)
  <2> DEFINE q == [r EXCEPT !.open = TRUE, !.ask = TRUE]
  <2>1. /\ SocketOk(q) /\ q.there = r.there /\ q.by = r.by /\ q.tenant = r.tenant
    BY <1>0, <1>3 DEF Accept, Dialing, SocketOk, SocketRecords
  <2>2. sock' = [sock EXCEPT ![s] = Sends(q, "open")]
    BY <1>3 DEF Accept
  <2> HIDE DEF q
  <2>3. "open" \in FramesOf(q.tenant)
    BY DEF FramesOf
  <2> QED BY <1>1, <2>1, <2>2, <2>3, SendsOk, OneSocketKeeps
<1>4. CASE Admit(s)
  <2> DEFINE q == [r EXCEPT !.ask = FALSE, !.room = r.tenant, !.alive = r.open]
  <2>1. /\ SocketOk(q) /\ q.there = r.there /\ q.by = r.by /\ q.tenant = r.tenant
    BY <1>0 DEF SocketOk, SocketRecords
  <2>2. sock' = [sock EXCEPT ![s] = Settled(q)]
    BY <1>4 DEF Admit, Bound, RoomFor
  <2> HIDE DEF q
  <2> QED BY <1>1, <2>1, <2>2, SettledOk, OneSocketKeeps
<1>5. CASE Refuse(s)
  <2> DEFINE q == [r EXCEPT !.ask = FALSE]
  <2>1. /\ SocketOk(q) /\ q.there = r.there /\ q.by = r.by /\ q.tenant = r.tenant
    BY <1>0 DEF SocketOk, SocketRecords
  <2>2. sock' = [sock EXCEPT ![s] = Sends(GatewayEnd(q), "refused")]
          \/ sock' = [sock EXCEPT ![s] = Settled(q)]
    BY <1>5 DEF Refuse
  <2> HIDE DEF q
  <2>3. /\ SocketOk(GatewayEnd(q)) /\ GatewayEnd(q).there = q.there
        /\ q.there => GatewayEnd(q).by = q.by /\ GatewayEnd(q).tenant = q.tenant
    BY <2>1, GatewayEndOk
  <2>4. "refused" \in FramesOf(GatewayEnd(q).tenant)
    BY DEF FramesOf
  <2>5. CASE sock' = [sock EXCEPT ![s] = Sends(GatewayEnd(q), "refused")]
    BY <1>1, <2>1, <2>3, <2>4, <2>5, SendsOk, OneSocketKeeps
  <2>6. CASE sock' = [sock EXCEPT ![s] = Settled(q)]
    BY <1>1, <2>1, <2>6, SettledOk, OneSocketKeeps
  <2> QED BY <2>2, <2>5, <2>6
<1>6. CASE PeerClosed(s) \/ PeerReset(s)
  <2>1. sock' = [sock EXCEPT ![s] = GatewayEnd(r)]
    BY <1>6 DEF PeerClosed, PeerReset
  <2> QED BY <1>0, <1>1, <2>1, GatewayEndOk, OneSocketKeeps
<1>7. CASE Pong(s)
  <2> DEFINE q == [r EXCEPT !.alive = TRUE]
  <2>1. /\ SocketOk(q) /\ q.there = r.there /\ q.by = r.by /\ q.tenant = r.tenant
    BY <1>0 DEF SocketOk, SocketRecords
  <2>2. sock' = [sock EXCEPT ![s] = q]
    BY <1>7 DEF Pong
  <2> HIDE DEF q
  <2> QED BY <1>1, <2>1, <2>2, OneSocketKeeps
<1>8. CASE DialFails(s)
  <2>1. sock' = [sock EXCEPT ![s] = Sends(r, "gone")]
    BY <1>8 DEF DialFails
  <2> QED BY <1>0, <1>1, <1>2, <2>1, SendsOk, OneSocketKeeps
<1>9. CASE Cut(s) \/ Notice(s)
  <2>1. /\ << >> \in Seq(Frames) /\ << >> \in Seq(FramesOf(r.tenant))
        /\ <<"gone">> \in Seq(Frames) /\ <<"gone">> \in Seq(FramesOf(r.tenant))
    BY <1>2, EmptySeq DEF Frames
  <2>2. PICK w \in {<< >>, <<"gone">>}, up \in BOOLEAN :
           sock' = [sock EXCEPT ![s] = [r EXCEPT !.up = up, !.wire = w]]
    <3>1. r = [r EXCEPT !.up = r.up] /\ r.up \in BOOLEAN
      BY <1>0 DEF SocketRecords
    <3>2. CASE Cut(s)
      BY <3>2 DEF Cut
    <3>3. CASE Notice(s)
      <4>1. [r EXCEPT !.wire = <<"gone">>] = [r EXCEPT !.up = r.up, !.wire = <<"gone">>]
        BY <1>0 DEF SocketRecords
      <4> QED BY <3>1, <3>3, <4>1 DEF Notice
    <3> QED BY <1>9, <3>2, <3>3
  <2> DEFINE q == [r EXCEPT !.up = up, !.wire = w]
  <2>3. /\ q \in SocketRecords /\ q.wire = w /\ q.there = r.there /\ q.by = r.by
        /\ q.tenant = r.tenant /\ q.ask = r.ask /\ q.open = r.open /\ q.room = r.room
    BY <1>0, <2>1 DEF SocketRecords
  <2> HIDE DEF q
  <2>4. SocketOk(q)
    BY <1>0, <2>1, <2>3 DEF SocketOk
  <2>5. sock' = [sock EXCEPT ![s] = q]
    BY <2>2 DEF q
  <2> QED BY <1>1, <2>3, <2>4, <2>5, OneSocketKeeps
<1> QED BY <1>3, <1>4, <1>5, <1>6, <1>7, <1>8, <1>9

\* The steps on all sockets at once.
LEMMA GatewayRounds ==
  ASSUME RealtimeInv, Heartbeat \/ (\E e \in Messages : Publish(e)) \/ Restart
  PROVE  RealtimeInv'
<1>0. \A s \in Sockets : SocketOk(sock[s])
  BY DEF RealtimeInv, Wired
<1>1. UNCHANGED <<client, page>>
  BY DEF Heartbeat, Publish, Restart, pageSide
<1>2. CASE Heartbeat
  <2>1. ASSUME NEW s \in Sockets
        PROVE  LET r == sock[s] IN
               /\ SocketOk(AfterRound(r)) /\ AfterRound(r).there = r.there
               /\ r.there => AfterRound(r).by = r.by /\ AfterRound(r).tenant = r.tenant
    <3> DEFINE r == sock[s]
    <3>0. SocketOk(r)
      BY <1>0
    <3>1. /\ SocketOk(Pinged(r)) /\ Pinged(r).there = r.there
          /\ Pinged(r).by = r.by /\ Pinged(r).tenant = r.tenant
      BY <3>0 DEF Pinged, SocketOk, SocketRecords
    <3>2. "gone" \in FramesOf(GatewayEnd(r).tenant)
      BY DEF FramesOf
    <3>3. /\ SocketOk(Sends(GatewayEnd(r), "gone"))
          /\ Sends(GatewayEnd(r), "gone").there = r.there
          /\ r.there => /\ Sends(GatewayEnd(r), "gone").by = r.by
                        /\ Sends(GatewayEnd(r), "gone").tenant = r.tenant
      BY <3>0, <3>2, GatewayEndOk, SendsOk
    <3>4. AfterRound(r) \in {r, Pinged(r), Sends(GatewayEnd(r), "gone")}
      BY DEF AfterRound
    <3> HIDE DEF r
    <3>5. /\ SocketOk(AfterRound(r)) /\ AfterRound(r).there = r.there
          /\ r.there => AfterRound(r).by = r.by /\ AfterRound(r).tenant = r.tenant
      BY <3>0, <3>1, <3>3, <3>4
    <3> QED BY <3>5 DEF r
  <2>2. sock' = [s \in Sockets |-> AfterRound(sock[s])]
    BY <1>2 DEF Heartbeat
  <2>3. \A s \in Sockets : AfterRound(sock[s]) \in SocketRecords
    BY <2>1 DEF SocketOk
  <2> QED BY <1>1, <2>1, <2>2, <2>3, GatewayKeeps
<1>3. ASSUME NEW e \in Messages, Publish(e) PROVE RealtimeInv'
  <2> DEFINE After(s) == IF Receives(sock[s], e) THEN Sends(sock[s], e) ELSE sock[s]
  <2>1. ASSUME NEW s \in Sockets
        PROVE  /\ SocketOk(After(s)) /\ After(s).there = sock[s].there
               /\ After(s).by = sock[s].by /\ After(s).tenant = sock[s].tenant
    <3>1. CASE Receives(sock[s], e)
      <4>1. sock[s].tenant = TenantOf[e]
        BY <1>0, <3>1, RealtimeAssumption DEF Receives, SocketOk
      <4>2. e \in FramesOf(sock[s].tenant)
        BY <4>1 DEF FramesOf, EventsFor
      <4> QED BY <1>0, <3>1, <4>2, SendsOk
    <3>2. CASE ~Receives(sock[s], e)
      BY <1>0, <3>2
    <3> QED BY <3>1, <3>2
  <2>2. sock' = [s \in Sockets |-> After(s)]
    BY <1>3 DEF Publish
  <2> HIDE DEF After
  <2>3. \A s \in Sockets : After(s) \in SocketRecords
    BY <2>1 DEF SocketOk
  <2> QED BY <1>1, <2>1, <2>2, <2>3, GatewayKeeps
<1>4. CASE Restart
  <2> DEFINE Deaf(s) == [sock[s] EXCEPT !.ask = FALSE]
             After(s) == IF sock[s].open THEN Sends(GatewayEnd(Deaf(s)), "gone")
                         ELSE Settled(Unbound(Deaf(s)))
  <2>1. ASSUME NEW s \in Sockets
        PROVE  /\ SocketOk(After(s)) /\ After(s).there = sock[s].there
               /\ sock[s].there => After(s).by = sock[s].by /\ After(s).tenant = sock[s].tenant
    <3>1. /\ SocketOk(Deaf(s)) /\ Deaf(s).there = sock[s].there
          /\ Deaf(s).by = sock[s].by /\ Deaf(s).tenant = sock[s].tenant
      BY <1>0 DEF SocketOk, SocketRecords
    <3> HIDE DEF Deaf
    <3>2. "gone" \in FramesOf(GatewayEnd(Deaf(s)).tenant)
      BY DEF FramesOf
    <3> QED BY <3>1, <3>2, GatewayEndOk, SendsOk
  <2>2. sock' = [s \in Sockets |-> After(s)]
    BY <1>4 DEF Restart
  <2> HIDE DEF After
  <2>3. \A s \in Sockets : After(s) \in SocketRecords
    BY <2>1 DEF SocketOk
  <2> QED BY <1>1, <2>1, <2>2, <2>3, GatewayKeeps
<1> QED BY <1>2, <1>3, <1>4

-----------------------------------------------------------------------------
(* The steps of the page.                                                   *)

ClientRecords ==
    [tenant : Tenants \cup {Null}, state : {"connecting", "open", "retrying", "closed"},
     sock : Sockets \cup {Null}, timer : BOOLEAN]

LEMMA DialedOk ==
  ASSUME NEW c \in Clients, NEW t \in Tenants
  PROVE  /\ SocketOk(Dialed(c, t)) /\ Dialed(c, t).there
         /\ Dialed(c, t).by = c /\ Dialed(c, t).tenant = t
<1> DEFINE d == Dialed(c, t)
<1>1. << >> \in Seq(Frames) /\ << >> \in Seq(FramesOf(t))
  BY EmptySeq
<1>2. /\ d.there /\ d.by = c /\ d.tenant = t /\ d.wire = << >> /\ d.room = Null
  BY DEF Dialed, NoSocket
<1>3. d \in SocketRecords
  BY <1>1 DEF Dialed, NoSocket, SocketRecords
<1> HIDE DEF d
<1>4. SocketOk(d)
  BY <1>1, <1>2, <1>3, RealtimeAssumption DEF SocketOk
<1> QED BY <1>2, <1>4 DEF d

\* A client without a socket dials on one that nobody uses.
LEMMA DialKeeps ==
  ASSUME RealtimeInv, NEW c \in Clients, NEW s \in FreeSockets, NEW t \in Tenants, NEW cl,
         cl \in ClientRecords, cl.tenant = t, cl.state = "connecting", cl.sock = s, ~cl.timer,
         client[c].sock = Null,
         client' = [client EXCEPT ![c] = cl], sock' = [sock EXCEPT ![s] = Dialed(c, t)]
  PROVE  Wired' /\ client' \in [Clients -> ClientRecords]
<1>0. /\ client \in [Clients -> ClientRecords] /\ sock \in [Sockets -> SocketRecords]
      /\ s \in Sockets
  BY DEF RealtimeInv, Types, Wired, ClientRecords, FreeSockets
<1>1. ~sock[s].there
  BY DEF FreeSockets, NoSocket
<1>2. \A d \in Clients : client[d].sock # s
  BY <1>0, <1>1, RealtimeAssumption DEF RealtimeInv, Wired
<1>3. /\ client'[c] = cl /\ \A d \in Clients \ {c} : client'[d] = client[d]
      /\ sock'[s] = Dialed(c, t) /\ \A x \in Sockets \ {s} : sock'[x] = sock[x]
      /\ client' \in [Clients -> ClientRecords]
  BY <1>0
<1>4. ClientOk(cl)
  BY <1>0, RealtimeAssumption DEF ClientOk
<1>5. Dialed(c, t) \in SocketRecords
  BY DialedOk DEF SocketOk
<1>6. sock' \in [Sockets -> SocketRecords] /\ \A x \in Sockets : SocketOk(sock'[x])
  BY <1>0, <1>3, <1>5, DialedOk DEF RealtimeInv, Wired
<1>7. \A d \in Clients : ClientOk(client'[d])
  BY <1>3, <1>4 DEF RealtimeInv, Wired
<1>8. ASSUME NEW x \in Sockets, sock'[x].there
      PROVE  /\ sock'[x].by \in Clients /\ client'[sock'[x].by].sock = x
             /\ client'[sock'[x].by].tenant = sock'[x].tenant
  <2>1. CASE x = s
    BY <1>3, <2>1, DialedOk
  <2>2. CASE x # s
    <3>1. /\ sock[x].by \in Clients /\ client[sock[x].by].sock = x
          /\ client[sock[x].by].tenant = sock[x].tenant /\ sock'[x] = sock[x]
      BY <1>3, <1>8, <2>2 DEF RealtimeInv, Wired
    <3>2. sock[x].by # c
      BY <3>1, RealtimeAssumption
    <3> QED BY <1>3, <3>1, <3>2
  <2> QED BY <2>1, <2>2
<1>9. ASSUME NEW d \in Clients, client'[d].sock # Null
      PROVE  sock'[client'[d].sock].there /\ sock'[client'[d].sock].by = d
  <2>1. CASE d = c
    BY <1>3, <2>1, DialedOk
  <2>2. CASE d # c
    <3>1. client'[d] = client[d] /\ client[d].sock \in Sockets \ {s}
      BY <1>0, <1>2, <1>3, <1>9, <2>2 DEF ClientRecords
    <3> QED BY <1>3, <1>9, <3>1 DEF RealtimeInv, Wired
  <2> QED BY <2>1, <2>2
<1> QED BY <1>3, <1>6, <1>7, <1>8, <1>9 DEF Wired

\* A client's timer fires, or the browser is online again.
LEMMA ReopenKeeps ==
  ASSUME RealtimeInv, NEW c \in Clients, RetryFires(c) \/ Online(c)
  PROVE  RealtimeInv'
<1>0. client \in [Clients -> ClientRecords] /\ client[c] \in ClientRecords
  BY DEF RealtimeInv, Types, ClientRecords
<1> DEFINE cl == ClearRetry(client[c])
<1>1. /\ client[c].state = "retrying" /\ client[c].sock = Null /\ client[c].tenant # Null
  BY DEF RealtimeInv, Wired, ClientOk, RetryFires, Online, OnlineSkips
<1>2. Reopen(c, cl)
  BY DEF RetryFires, Online, OnlineClient
<1>3. /\ cl \in ClientRecords /\ cl.tenant = client[c].tenant /\ cl.timer = FALSE
  BY <1>0 DEF ClearRetry, ClientRecords
<1> HIDE DEF cl
<1>4. PICK s \in FreeSockets :
        /\ client' = [client EXCEPT ![c] = Opening(cl, s)]
        /\ sock' = [sock EXCEPT ![s] = Dialed(c, cl.tenant)]
        /\ UNCHANGED <<page, faults>>
  BY <1>2 DEF Reopen
<1>5. s \in Sockets
  BY DEF FreeSockets
<1>6. /\ Opening(cl, s) \in ClientRecords /\ Opening(cl, s).tenant = cl.tenant
      /\ Opening(cl, s).state = "connecting" /\ Opening(cl, s).sock = s
      /\ ~Opening(cl, s).timer
  BY <1>3, <1>5 DEF Opening, ClientRecords
<1>7. cl.tenant \in Tenants
  BY <1>0, <1>1, <1>3 DEF ClientRecords
<1>8. Wired' /\ client' \in [Clients -> ClientRecords]
  BY <1>1, <1>4, <1>6, <1>7, DialKeeps
<1>9. UNCHANGED <<shown, holds, registry, reap>>
  BY <1>4 DEF page
<1>10. Types'
  BY <1>8, <1>9 DEF RealtimeInv, Types, ClientRecords
<1>11. \A d \in Clients : client'[d].tenant = client[d].tenant
  BY <1>0, <1>3, <1>4, <1>6
<1>12. Reachable'
  BY <1>9, <1>11 DEF RealtimeInv, Types, Reachable, Holders
<1> QED BY <1>8, <1>10, <1>12 DEF RealtimeInv

\* A socket closes under a client that keeps its workspace, and maybe its timer.
LEMMA CloseKeeps ==
  ASSUME RealtimeInv, NEW c \in Clients, NEW cl, cl \in ClientRecords, ClientOk(cl),
         cl.sock = Null, client' = [client EXCEPT ![c] = cl],
         sock' = IF client[c].sock = Null THEN sock
                 ELSE [sock EXCEPT ![client[c].sock] = PageEnd(@)]
  PROVE  Wired' /\ client' \in [Clients -> ClientRecords]
<1>0. /\ client \in [Clients -> ClientRecords] /\ sock \in [Sockets -> SocketRecords]
      /\ client[c].sock \in Sockets \cup {Null} /\ \A x \in Sockets : SocketOk(sock[x])
  BY DEF RealtimeInv, Types, Wired, ClientRecords
<1>1. /\ client'[c] = cl /\ \A d \in Clients \ {c} : client'[d] = client[d]
      /\ client' \in [Clients -> ClientRecords]
  BY <1>0
<1>2. \A x \in Sockets : \/ sock'[x] = sock[x] /\ x # client[c].sock
                         \/ sock'[x] = PageEnd(sock[x]) /\ x = client[c].sock
  BY <1>0, RealtimeAssumption
<1>3. \A x \in Sockets : SocketOk(sock'[x]) /\ (sock'[x].there => sock'[x] = sock[x])
  BY <1>0, <1>2, PageEndOk
<1>4. sock' \in [Sockets -> SocketRecords]
  <2>1. \A x \in Sockets : PageEnd(sock[x]) \in SocketRecords
    BY <1>0, PageEndOk DEF SocketOk
  <2> QED BY <1>0, <2>1
<1>5. \A d \in Clients : ClientOk(client'[d])
  BY <1>1 DEF RealtimeInv, Wired
<1>6. ASSUME NEW x \in Sockets, sock'[x].there
      PROVE  /\ sock'[x].by \in Clients /\ client'[sock'[x].by].sock = x
             /\ client'[sock'[x].by].tenant = sock'[x].tenant
  <2>1. sock'[x] = sock[x] /\ sock[x].there /\ x # client[c].sock
    BY <1>0, <1>2, <1>3, <1>6, PageEndOk
  <2>2. /\ sock[x].by \in Clients /\ client[sock[x].by].sock = x
        /\ client[sock[x].by].tenant = sock[x].tenant
    BY <2>1 DEF RealtimeInv, Wired
  <2> QED BY <1>1, <2>1, <2>2
<1>7. ASSUME NEW d \in Clients, client'[d].sock # Null
      PROVE  sock'[client'[d].sock].there /\ sock'[client'[d].sock].by = d
  <2>1. d # c /\ client'[d] = client[d] /\ client[d].sock \in Sockets
    BY <1>0, <1>1, <1>7 DEF ClientRecords
  <2>2. sock[client[d].sock].there /\ sock[client[d].sock].by = d
    BY <1>7, <2>1 DEF RealtimeInv, Wired
  <2>3. client[d].sock # client[c].sock
    BY <2>1, <2>2, <1>7 DEF RealtimeInv, Wired
  <2> QED BY <1>2, <2>1, <2>2, <2>3
<1> QED BY <1>1, <1>3, <1>4, <1>5, <1>6, <1>7 DEF Wired

\* Clients keep their workspaces, and the page does nothing: names stay in use.
LEMMA ReachableKept ==
  ASSUME RealtimeInv, UNCHANGED <<shown, holds, registry, reap>>,
         client' \in [Clients -> ClientRecords],
         \A d \in Clients : client'[d].tenant = client[d].tenant
  PROVE  Types' /\ Reachable'
<1>1. Types'
  BY DEF RealtimeInv, Types, ClientRecords
<1>2. Reachable'
  BY DEF RealtimeInv, Types, Reachable, Holders
<1> QED BY <1>1, <1>2

LEMMA FrameKeeps ==
  ASSUME RealtimeInv, NEW s \in Sockets, Frame(s)
  PROVE  RealtimeInv'
<1> DEFINE r == sock[s]  c == r.by  frame == Head(r.wire)  cl == AfterFrame(client[c], frame)
<1>0. /\ client \in [Clients -> ClientRecords] /\ sock \in [Sockets -> SocketRecords]
      /\ SocketOk(r) /\ r \in SocketRecords
  BY DEF RealtimeInv, Types, Wired, ClientRecords
<1>1. /\ r.there /\ r.wire # << >> /\ UNCHANGED <<shown, holds, registry, reap>>
  BY DEF Frame, page
<1>2. c \in Clients /\ client[c].sock = s /\ client[c].tenant = r.tenant
  BY <1>1 DEF RealtimeInv, Wired
<1>3. client' = [client EXCEPT ![c] = cl]
  BY <1>2, RealtimeAssumption DEF Frame, Live
<1>4. /\ client[c] \in ClientRecords /\ ClientOk(client[c]) /\ s # Null
      /\ client[c].state \in {"connecting", "open"} /\ client[c].tenant # Null
      /\ ~client[c].timer
  BY <1>0, <1>2, RealtimeAssumption DEF RealtimeInv, Wired, ClientOk
<1>5. CASE frame \in {"refused", "gone"}
  <2>1. sock' = [sock EXCEPT ![s] = PageEnd(r)]
    BY <1>5 DEF Frame
  <2>2. cl \in {ShutDown(client[c]), Retrying(client[c])}
    BY <1>5 DEF AfterFrame
  <2>3. /\ cl \in ClientRecords /\ ClientOk(cl) /\ cl.sock = Null
        /\ cl.tenant = client[c].tenant
    <3>1. CASE cl = ShutDown(client[c])
      BY <1>4, <3>1 DEF ShutDown, ClearRetry, ClientRecords, ClientOk
    <3>2. CASE cl = Retrying(client[c])
      BY <1>4, <3>2 DEF Retrying, ClientRecords, ClientOk
    <3> QED BY <2>2, <3>1, <3>2
  <2> HIDE DEF cl, c, r, frame
  <2>4. sock' = IF client[c].sock = Null THEN sock
                ELSE [sock EXCEPT ![client[c].sock] = PageEnd(@)]
    BY <1>2, <1>4, <2>1 DEF r
  <2>5. Wired' /\ client' \in [Clients -> ClientRecords]
    BY <1>2, <1>3, <2>3, <2>4, CloseKeeps
  <2>6. \A d \in Clients : client'[d].tenant = client[d].tenant
    BY <1>0, <1>2, <1>3, <2>3
  <2> QED BY <1>1, <2>5, <2>6, ReachableKept DEF RealtimeInv
<1>6. CASE frame \notin {"refused", "gone"}
  <2> DEFINE q == [r EXCEPT !.wire = Tail(r.wire)]
  <2>1. sock' = [sock EXCEPT ![s] = q]
    BY <1>6 DEF Frame
  <2>2. cl \in {[client[c] EXCEPT !.state = "open"], client[c]}
    BY <1>6 DEF AfterFrame
  <2>3. /\ cl \in ClientRecords /\ ClientOk(cl) /\ cl.sock = s
        /\ cl.tenant = client[c].tenant
    BY <1>2, <1>4, <2>2 DEF ClientRecords, ClientOk
  <2>4. /\ Tail(r.wire) \in Seq(Frames)
        /\ Tail(r.wire) \in Seq(FramesOf(r.tenant))
    BY <1>0, <1>1, HeadTailProperties DEF SocketOk, SocketRecords
  <2>5. /\ q \in SocketRecords /\ SocketOk(q) /\ q.there /\ q.by = c /\ q.tenant = r.tenant
        /\ q.there = r.there
    BY <1>0, <1>1, <2>4 DEF SocketOk, SocketRecords
  <2> HIDE DEF q, cl, frame
  <2>6. /\ client'[c] = cl /\ \A d \in Clients \ {c} : client'[d] = client[d]
        /\ sock'[s] = q /\ \A x \in Sockets \ {s} : sock'[x] = sock[x]
        /\ client' \in [Clients -> ClientRecords] /\ sock' \in [Sockets -> SocketRecords]
    BY <1>0, <1>2, <1>3, <2>1, <2>3, <2>5
  <2>7. \A d \in Clients : client'[d].tenant = client[d].tenant /\ client'[d].sock = client[d].sock
    BY <1>2, <2>3, <2>6
  <2>8. \A x \in Sockets : /\ sock'[x].there = sock[x].there /\ sock'[x].by = sock[x].by
                           /\ sock'[x].tenant = sock[x].tenant
    BY <1>1, <2>5, <2>6
  <2>9. Wired'
    <3>1. \A x \in Sockets : SocketOk(sock'[x])
      BY <2>5, <2>6 DEF RealtimeInv, Wired
    <3>2. \A d \in Clients : ClientOk(client'[d])
      BY <2>3, <2>6 DEF RealtimeInv, Wired
    <3>3. \A x \in Sockets : sock'[x].there =>
              /\ sock'[x].by \in Clients /\ client'[sock'[x].by].sock = x
              /\ client'[sock'[x].by].tenant = sock'[x].tenant
      BY <2>7, <2>8 DEF RealtimeInv, Wired
    <3>4. \A d \in Clients : client'[d].sock # Null =>
              sock'[client'[d].sock].there /\ sock'[client'[d].sock].by = d
      BY <1>0, <2>7, <2>8 DEF RealtimeInv, Wired, ClientRecords
    <3> QED BY <2>6, <3>1, <3>2, <3>3, <3>4 DEF Wired
  <2> QED BY <1>1, <2>6, <2>7, <2>9, ReachableKept DEF RealtimeInv
<1> QED BY <1>5, <1>6

\* Hooks let go: what is then held by nobody was in use.
LEMMA LetGoKeeps ==
  ASSUME RealtimeInv, NEW hs \in SUBSET Hooks, LetGo(hs),
         UNCHANGED <<registry, client, sock>>, shown' \in Tenants \cup {Null}
  PROVE  RealtimeInv'
<1>1. Types' /\ Wired'
  BY DEF RealtimeInv, Types, Wired, LetGo
<1>2. \A h \in Hooks : holds'[h] = Null \/ (holds'[h] = holds[h] /\ h \notin hs)
  BY DEF LetGo
<1>3. ASSUME NEW c \in reap' PROVE client[c].tenant # Null /\ Holders(c)' = {}
  <2>1. c \in Clients
    BY <1>1, <1>3 DEF Types
  <2>2. CASE c \in reap
    BY <1>2, <2>1, <2>2, RealtimeAssumption DEF RealtimeInv, Reachable, Holders
  <2>3. CASE c \notin reap
    <3>1. Holders(c) # {} /\ Holders(c) \subseteq hs
      BY <1>3, <2>3 DEF LetGo
    <3>2. client[c].tenant # Null
      BY <2>1, <3>1, RealtimeAssumption DEF RealtimeInv, Reachable, Holders
    <3>3. Holders(c)' = {}
      BY <1>2, <2>1, <3>1, RealtimeAssumption DEF Holders
    <3> QED BY <3>2, <3>3
  <2> QED BY <2>2, <2>3
<1>4. Reachable'
  BY <1>2, <1>3 DEF RealtimeInv, Reachable
<1> QED BY <1>1, <1>4 DEF RealtimeInv

LEMMA AcquireKeeps ==
  ASSUME RealtimeInv, NEW h \in Hooks, Acquire(h)
  PROVE  RealtimeInv'
<1>0. /\ client \in [Clients -> ClientRecords] /\ shown \in Tenants /\ holds[h] = Null
      /\ registry[shown] \in Clients \cup {Null} /\ reap \subseteq Clients
      /\ holds \in [Hooks -> Clients \cup {Null}] /\ shown' = shown
      /\ registry \in [Tenants -> Clients \cup {Null}]
  BY DEF Acquire, RealtimeInv, Types, ClientRecords
<1>1. CASE Reusable(registry[shown])
  <2> DEFINE c == registry[shown]
  <2>1. /\ c \in Clients /\ holds' = [holds EXCEPT ![h] = c] /\ reap' = reap \ {c}
        /\ UNCHANGED <<registry, client, sock>>
    BY <1>0, <1>1 DEF Acquire, Reusable, ReapAfterAcquire
  <2>2. client[c].tenant # Null
    BY <1>0, <2>1, RealtimeAssumption DEF RealtimeInv, Reachable
  <2> HIDE DEF c
  <2>3. Types' /\ Wired'
    BY <1>0, <2>1 DEF RealtimeInv, Types, Wired
  <2>4. \A d \in reap' : client[d].tenant # Null /\ Holders(d)' = {}
    BY <1>0, <2>1 DEF RealtimeInv, Reachable, Holders
  <2>5. Reachable'
    BY <1>0, <2>1, <2>2, <2>4 DEF RealtimeInv, Reachable
  <2> QED BY <2>3, <2>5 DEF RealtimeInv
<1>2. CASE ~Reusable(registry[shown])
  <2>1. PICK c \in FreeClients, s \in FreeSockets :
          /\ client' = [client EXCEPT ![c] = Opening([NoClient EXCEPT !.tenant = shown], s)]
          /\ sock' = [sock EXCEPT ![s] = Dialed(c, shown)]
          /\ registry' = [registry EXCEPT ![shown] = c]
          /\ holds' = [holds EXCEPT ![h] = c]
    BY <1>2 DEF Acquire
  <2>2. UNCHANGED reap
    BY <1>2 DEF Acquire
  <2> DEFINE cl == Opening([NoClient EXCEPT !.tenant = shown], s)
  <2>3. c \in Clients /\ s \in Sockets /\ client[c].sock = Null /\ client[c].tenant = Null
    BY DEF FreeClients, FreeSockets, NoClient
  <2>4. /\ cl \in ClientRecords /\ cl.tenant = shown /\ cl.state = "connecting"
        /\ cl.sock = s /\ ~cl.timer
    BY <1>0, <2>3 DEF NoClient, Opening, ClientRecords
  <2> HIDE DEF cl
  <2>5. client' = [client EXCEPT ![c] = cl]
    BY <2>1 DEF cl
  <2>6. Wired' /\ client' \in [Clients -> ClientRecords]
    BY <1>0, <2>1, <2>3, <2>4, <2>5, DialKeeps
  <2>7. Types'
    BY <1>0, <2>1, <2>2, <2>3, <2>6 DEF RealtimeInv, Types, ClientRecords
  <2>8. /\ client'[c].tenant # Null /\ \A d \in Clients \ {c} : client'[d] = client[d]
    BY <1>0, <2>3, <2>4, <2>5, RealtimeAssumption
  <2>9. \A d \in reap' : client'[d].tenant # Null /\ Holders(d)' = {}
    <3>1. \A d \in reap : d # c /\ d \in Clients
      BY <1>0, <2>3 DEF RealtimeInv, Reachable
    <3> QED BY <1>0, <2>1, <2>2, <2>8, <3>1 DEF RealtimeInv, Reachable, Holders
  <2>10. \A g \in Hooks : holds'[g] # Null => client'[holds'[g]].tenant # Null
    BY <1>0, <2>1, <2>8 DEF RealtimeInv, Reachable
  <2>11. \A t \in Tenants : registry'[t] # Null => client'[registry'[t]].tenant # Null
    BY <1>0, <2>1, <2>8 DEF RealtimeInv, Reachable
  <2> QED BY <2>6, <2>7, <2>9, <2>10, <2>11 DEF RealtimeInv, Reachable
<1> QED BY <1>1, <1>2

LEMMA ReapKeeps ==
  ASSUME RealtimeInv, NEW c \in Clients, Reap(c)
  PROVE  RealtimeInv'
<1>0. /\ client \in [Clients -> ClientRecords] /\ c \in reap /\ reap' = reap \ {c}
      /\ holds \in [Hooks -> Clients \cup {Null}] /\ UNCHANGED <<shown, holds>>
      /\ registry \in [Tenants -> Clients \cup {Null}] /\ reap \subseteq Clients
  BY DEF Reap, RealtimeInv, Types, ClientRecords
<1>1. Holders(c) = {}
  BY <1>0 DEF RealtimeInv, Reachable
<1> DEFINE cl == [ShutDown(client[c]) EXCEPT !.tenant = Null]
<1>2. /\ registry' = [t \in Tenants |-> IF registry[t] = c THEN Null ELSE registry[t]]
      /\ client' = [client EXCEPT ![c] = cl]
      /\ sock' = IF client[c].sock = Null THEN sock
                 ELSE [sock EXCEPT ![client[c].sock] = PageEnd(@)]
  BY <1>1 DEF Reap, Unused
<1>3. cl \in ClientRecords /\ ClientOk(cl) /\ cl.sock = Null
  BY <1>0 DEF ShutDown, ClearRetry, ClientRecords, ClientOk
<1> HIDE DEF cl
<1>4. Wired' /\ client' \in [Clients -> ClientRecords]
  BY <1>2, <1>3, CloseKeeps
<1>5. Types'
  BY <1>0, <1>2, <1>4 DEF RealtimeInv, Types, ClientRecords
<1>6. \A d \in Clients \ {c} : client'[d] = client[d]
  BY <1>0, <1>2
<1>7. \A h \in Hooks : holds[h] # c
  BY <1>1 DEF Holders
<1>8. \A t \in Tenants : registry'[t] # c /\ (registry'[t] # Null => registry'[t] = registry[t])
  BY <1>0, <1>2, RealtimeAssumption
<1>9. /\ \A h \in Hooks : holds'[h] # Null => client'[holds'[h]].tenant # Null
      /\ \A t \in Tenants : registry'[t] # Null => client'[registry'[t]].tenant # Null
      /\ \A d \in reap' : client'[d].tenant # Null /\ Holders(d)' = {}
  BY <1>0, <1>6, <1>7, <1>8 DEF RealtimeInv, Reachable, Holders
<1> QED BY <1>4, <1>5, <1>9 DEF RealtimeInv, Reachable

LEMMA InvStep == RealtimeInv /\ [Next]_vars => RealtimeInv'
<1> SUFFICES ASSUME RealtimeInv, [Next]_vars PROVE RealtimeInv'
  OBVIOUS
<1>1. ASSUME NEW h \in Hooks, Release(h) PROVE RealtimeInv'
  BY <1>1, LetGoKeeps DEF Release, RealtimeInv, Types
<1>2. CASE SwitchWorkspace
  BY <1>2, LetGoKeeps DEF SwitchWorkspace
<1>3. CASE TokenArrives
  BY <1>3 DEF TokenArrives, RealtimeInv, Types, Wired, Reachable, Holders
<1>4. CASE UNCHANGED vars
  BY <1>4 DEF vars, RealtimeInv, Types, Wired, Reachable, Holders
<1>5. CASE Fault
  BY <1>5, GatewaySteps, GatewayRounds DEF Fault
<1> QED BY <1>1, <1>2, <1>3, <1>4, <1>5, AcquireKeeps, ReapKeeps, ReopenKeeps, FrameKeeps,
       GatewaySteps, GatewayRounds DEF Next

\* Whatever closes, retries and comes late (client.ts, use-realtime.ts): the
\* socket, the timer and the state of a client always agree, no socket outlives
\* the client that dialled it, and a connection that somebody holds is never
\* about to be torn down.
THEOREM OneConnectionEach == Spec => []OneConnection
<1>1. RealtimeInv => OneConnection
  BY RealtimeAssumption DEF RealtimeInv, Wired, ClientOk, Reachable, OneConnection, Live
<1> QED BY <1>1, InvInit, InvStep, PTL DEF Spec

\* What is on its way to a client says nothing of another workspace.
OwnEventsOnly ==
    \A c \in Clients : client[c].sock # Null =>
        \A i \in 1..Len(sock[client[c].sock].wire) :
            sock[client[c].sock].wire[i] \in FramesOf(client[c].tenant)

\* gateway.ts binds a socket to the workspace it asked for: through every
\* reconnection, restart and reuse of a socket, the events on their way to a
\* client are of its own workspace.
THEOREM EventsOfOwnWorkspace == Spec => []OwnEventsOnly
<1>1. RealtimeInv => OwnEventsOnly
  <2> SUFFICES ASSUME RealtimeInv, NEW c \in Clients, client[c].sock # Null
               PROVE  \A i \in 1..Len(sock[client[c].sock].wire) :
                         sock[client[c].sock].wire[i] \in FramesOf(client[c].tenant)
    BY DEF OwnEventsOnly
  <2> DEFINE r == sock[client[c].sock]
  <2>1. client[c].sock \in Sockets
    BY DEF RealtimeInv, Types
  <2>2. SocketOk(r) /\ r.tenant = client[c].tenant
    BY <2>1 DEF RealtimeInv, Wired
  <2>3. r.wire \in Seq(FramesOf(client[c].tenant))
    BY <2>2 DEF SocketOk
  <2> HIDE DEF r
  <2>4. \A i \in 1..Len(r.wire) : r.wire[i] \in FramesOf(client[c].tenant)
    BY <2>3, ElementOfSeq
  <2> QED BY <2>4 DEF r
<1> QED BY <1>1, InvInit, InvStep, PTL DEF Spec

-----------------------------------------------------------------------------
(* Sockets' wires: an open first, an end last, events between them.         *)

Closing == {"refused", "gone"}
Opened(w) == w # << >> /\ w[1] = "open"
Closed(w) == w # << >> /\ w[Len(w)] \in Closing
Between(w) ==
    LET first == IF Opened(w) THEN 2 ELSE 1
        last == IF Closed(w) THEN Len(w) - 1 ELSE Len(w)
    IN SubSeq(w, first, last)

LEMMA EventsBetween == \A r : EventsOf(r) = Between(r.wire)
BY DEF EventsOf, Between, Opened, Closed, Closing

\* Where the events of a wire are.
LEMMA BetweenIs ==
    ASSUME NEW F, NEW w \in Seq(F)
    PROVE  LET o == IF Opened(w) THEN 1 ELSE 0
               n == Len(w) - o - (IF Closed(w) THEN 1 ELSE 0)
           IN /\ n \in Nat /\ o + n <= Len(w) /\ o + n \in Nat
              /\ Between(w) \in Seq(F) /\ Len(Between(w)) = n
              /\ \A i \in 1..n : Between(w)[i] = w[i + o]
<1> DEFINE o == IF Opened(w) THEN 1 ELSE 0
           n == Len(w) - o - (IF Closed(w) THEN 1 ELSE 0)
           first == IF Opened(w) THEN 2 ELSE 1
           last == IF Closed(w) THEN Len(w) - 1 ELSE Len(w)
<1>1. Len(w) \in Nat /\ (w # << >> => Len(w) >= 1)
  BY EmptySeq
<1>2. Opened(w) /\ Closed(w) => Len(w) >= 2
  <2>1. Opened(w) /\ Closed(w) => w[1] # w[Len(w)]
    BY DEF Opened, Closed, Closing
  <2>2. Opened(w) => Len(w) >= 1
    BY <1>1 DEF Opened
  <2> QED BY <1>1, <2>1, <2>2
<1>3. (Opened(w) => Len(w) >= 1) /\ (Closed(w) => Len(w) >= 1)
  BY <1>1 DEF Opened, Closed
<1>4. n \in Nat /\ o + n <= Len(w) /\ o + n \in Nat /\ n = last - first + 1 /\ o = first - 1
  BY <1>1, <1>2, <1>3
<1>5. first \in Int /\ last \in Int /\ first >= 1 /\ last <= Len(w) /\ (n > 0 <=> first <= last)
  <2>1. first \in {1, 2} /\ last \in {Len(w), Len(w) - 1}
    OBVIOUS
  <2> HIDE DEF first, last, n
  <2> QED BY <1>1, <1>4, <2>1
<1>6. \A i \in first..last : w[i] \in F
  <2>1. \A i \in first..last : i \in 1..Len(w)
    BY <1>1, <1>5
  <2> QED BY <2>1, ElementOfSeq
<1> HIDE DEF first, last
<1>7. /\ SubSeq(w, first, last) \in Seq(F)
      /\ Len(SubSeq(w, first, last)) = IF first <= last THEN last - first + 1 ELSE 0
      /\ \A i \in 1..last - first + 1 : SubSeq(w, first, last)[i] = w[first + i - 1]
  BY <1>5, <1>6, SubSeqProperties
<1>8. Between(w) = SubSeq(w, first, last)
  BY DEF Between, first, last
<1>9. Len(Between(w)) = n
  BY <1>4, <1>5, <1>7, <1>8
<1>10. ASSUME NEW i \in 1..n PROVE Between(w)[i] = w[i + o]
  <2>1. i \in 1..last - first + 1 /\ first + i - 1 = i + o
    BY <1>4, <1>5, <1>10
  <2> QED BY <1>7, <1>8, <2>1
<1> HIDE DEF n, o
<1>11. /\ n \in Nat /\ o + n <= Len(w) /\ o + n \in Nat
       /\ Between(w) \in Seq(F) /\ Len(Between(w)) = n
       /\ \A i \in 1..n : Between(w)[i] = w[i + o]
  BY <1>4, <1>7, <1>8, <1>9, <1>10
<1> QED BY <1>11 DEF n, o

LEMMA NoEventsYet ==
    /\ Between(<< >>) = << >> /\ Between(<<"open">>) = << >>
    /\ \A f \in Closing : Between(<<f>>) = << >>
<1>1. ASSUME NEW w, w \in {<< >>} \cup {<<f>> : f \in {"open"} \cup Closing} PROVE Between(w) = << >>
  <2>1. CASE w = << >>
    <3>1. ~Opened(w) /\ ~Closed(w) /\ Len(w) = 0
      BY <2>1, EmptySeq DEF Opened, Closed
    <3>2. Between(w) = SubSeq(w, 1, 0)
      BY <3>1 DEF Between
    <3> QED BY <3>2, SubSeqEmpty
  <2>2. CASE w = <<"open">>
    <3>1. Opened(w) /\ ~Closed(w) /\ Len(w) = 1
      BY <2>2 DEF Opened, Closed, Closing
    <3>2. Between(w) = SubSeq(w, 2, 1)
      BY <3>1 DEF Between
    <3> QED BY <3>2, SubSeqEmpty
  <2>3. ASSUME NEW f \in Closing, w = <<f>> PROVE Between(w) = << >>
    <3>1. ~Opened(w) /\ Closed(w) /\ Len(w) = 1
      BY <2>3 DEF Opened, Closed, Closing
    <3>2. Between(w) = SubSeq(w, 1, 0)
      BY <3>1 DEF Between
    <3> QED BY <3>2, SubSeqEmpty
  <2> QED BY <1>1, <2>1, <2>2, <2>3
<1> QED BY <1>1

\* A frame is added at the end of a wire that has no end yet.
LEMMA BetweenAppend ==
    ASSUME NEW w \in Seq(Frames), ~Closed(w), NEW f \in Frames, w = << >> => f # "open"
    PROVE  /\ Opened(Append(w, f)) <=> Opened(w)
           /\ Closed(Append(w, f)) <=> f \in Closing
           /\ f \in Closing => Between(Append(w, f)) = Between(w)
           /\ f \notin Closing => Between(Append(w, f)) = Append(Between(w), f)
<1> DEFINE v == Append(w, f)  o == IF Opened(w) THEN 1 ELSE 0
<1>1. /\ v \in Seq(Frames) /\ v # << >> /\ Len(v) = Len(w) + 1
      /\ \A i \in 1..Len(w) : v[i] = w[i]
      /\ v[Len(w) + 1] = f
  BY AppendProperties
<1>2. Len(w) \in Nat /\ (w # << >> => Len(w) >= 1) /\ (w = << >> => Len(w) = 0)
  BY EmptySeq
<1> HIDE DEF v
<1>3. Opened(v) <=> Opened(w)
  <2>1. CASE w = << >>
    BY <1>1, <1>2, <2>1 DEF Opened
  <2>2. CASE w # << >>
    BY <1>1, <1>2, <2>2 DEF Opened
  <2> QED BY <2>1, <2>2
<1>4. Closed(v) <=> f \in Closing
  BY <1>1, <1>2 DEF Closed
<1>5. /\ Between(w) \in Seq(Frames) /\ Len(Between(w)) = Len(w) - o
      /\ \A i \in 1..Len(w) - o : Between(w)[i] = w[i + o]
      /\ Len(w) - o \in Nat
  <2>1. Len(w) - o - 0 = Len(w) - o
    BY <1>2
  <2> QED BY <2>1, BetweenIs
<1>6. CASE f \in Closing
  <2>1. /\ Between(v) \in Seq(Frames) /\ Len(Between(v)) = Len(v) - o - 1
        /\ \A i \in 1..Len(v) - o - 1 : Between(v)[i] = v[i + o]
    BY <1>1, <1>3, <1>4, <1>6, BetweenIs
  <2>2. Len(v) - o - 1 = Len(w) - o
    BY <1>1, <1>2
  <2>3. \A i \in 1..Len(w) - o : i + o \in 1..Len(w)
    BY <1>2, <1>5
  <2>4. \A i \in 1..Len(Between(w)) : Between(w)[i] = Between(v)[i]
    BY <1>1, <1>5, <2>1, <2>2, <2>3
  <2>5. Between(w) = Between(v)
    BY <1>5, <2>1, <2>2, <2>4, SeqEqual
  <2> QED BY <1>3, <1>4, <1>6, <2>5 DEF v
<1>7. CASE f \notin Closing
  <2>1. /\ Between(v) \in Seq(Frames) /\ Len(Between(v)) = Len(v) - o - 0
        /\ \A i \in 1..Len(v) - o - 0 : Between(v)[i] = v[i + o]
    BY <1>1, <1>3, <1>4, <1>7, BetweenIs
  <2>2. Len(v) - o - 0 = Len(w) - o + 1
    BY <1>1, <1>2
  <2> DEFINE a == Append(Between(w), f)
  <2>3. /\ a \in Seq(Frames) /\ Len(a) = Len(w) - o + 1
        /\ \A i \in 1..Len(w) - o : a[i] = w[i + o]
        /\ a[Len(w) - o + 1] = f
    BY <1>5, AppendProperties
  <2> HIDE DEF a
  <2>4. ASSUME NEW i \in 1..Len(w) - o + 1 PROVE Between(v)[i] = a[i]
    <3>1. Between(v)[i] = v[i + o]
      BY <2>1, <2>2
    <3>2. CASE i \in 1..Len(w) - o
      <4>1. i + o \in 1..Len(w)
        BY <1>2, <1>5, <3>2
      <4> QED BY <1>1, <2>3, <3>1, <3>2, <4>1
    <3>3. CASE i = Len(w) - o + 1
      <4>1. i + o = Len(w) + 1
        BY <1>2, <3>3
      <4> QED BY <1>1, <2>3, <3>1, <3>3, <4>1
    <3> QED BY <1>5, <3>2, <3>3
  <2>5. Between(v) = a
    BY <2>1, <2>2, <2>3, <2>4, SeqEqual
  <2> QED BY <1>3, <1>4, <1>7, <2>5 DEF v, a
<1> QED BY <1>6, <1>7

\* The first frame is taken: an open, or an event.
LEMMA BetweenTail ==
    ASSUME NEW w \in Seq(Frames), w # << >>, w[1] \notin Closing, ~Opened(Tail(w))
    PROVE  /\ Closed(Tail(w)) <=> Closed(w)
           /\ Opened(w) => Between(Tail(w)) = Between(w)
           /\ ~Opened(w) => Between(w) # << >> /\ Between(Tail(w)) = Tail(Between(w))
<1> DEFINE v == Tail(w)  c == IF Closed(w) THEN 1 ELSE 0
<1>1. /\ v \in Seq(Frames) /\ Len(v) = Len(w) - 1
      /\ \A i \in 1..Len(v) : v[i] = w[i + 1]
  BY HeadTailProperties
<1>2. Len(w) \in Nat /\ Len(w) >= 1 /\ Len(v) \in Nat /\ (v # << >> => Len(v) >= 1)
      /\ (v = << >> => Len(v) = 0)
  <2> HIDE DEF v
  <2>1. Len(w) \in Nat \ {0}
    BY EmptySeq
  <2>2. v # << >> => Len(v) \in Nat \ {0}
    BY <1>1, EmptySeq
  <2>3. v = << >> => Len(v) = 0
    BY EmptySeq
  <2> QED BY <2>1, <2>2, <2>3
<1> HIDE DEF v
<1>3. Closed(v) <=> Closed(w)
  <2>1. CASE v = << >>
    <3>1. Len(w) = 1
      BY <1>1, <1>2, <2>1
    <3> QED BY <2>1, <3>1 DEF Closed
  <2>2. CASE v # << >>
    <3>1. v[Len(v)] = w[Len(w)]
      <4>1. Len(v) \in 1..Len(v) /\ Len(v) + 1 = Len(w)
        BY <1>1, <1>2, <2>2
      <4> QED BY <1>1, <4>1
    <3> QED BY <2>2, <3>1 DEF Closed
  <2> QED BY <2>1, <2>2
<1>4. /\ Between(v) \in Seq(Frames) /\ Len(Between(v)) = Len(v) - 0 - c
      /\ \A i \in 1..Len(v) - 0 - c : Between(v)[i] = v[i + 0]
      /\ Len(v) - 0 - c \in Nat
  BY <1>1, <1>3, BetweenIs DEF v
<1>5. /\ Len(v) - 0 - c = Len(v) - c /\ c \in {0, 1}
      /\ \A i \in 1..Len(v) - c : i + 0 = i /\ i \in 1..Len(v)
  BY <1>2
<1>6. /\ Len(Between(v)) = Len(v) - c /\ Len(v) - c \in Nat
      /\ \A i \in 1..Len(v) - c : Between(v)[i] = w[i + 1]
  BY <1>1, <1>4, <1>5
<1>7. CASE Opened(w)
  <2>1. /\ Between(w) \in Seq(Frames) /\ Len(Between(w)) = Len(w) - 1 - c
        /\ \A i \in 1..Len(w) - 1 - c : Between(w)[i] = w[i + 1]
    BY <1>7, BetweenIs
  <2>2. Len(w) - 1 - c = Len(v) - c
    BY <1>1, <1>2
  <2>3. Between(v) = Between(w)
    BY <1>4, <1>6, <2>1, <2>2, SeqEqual
  <2> QED BY <1>3, <1>7, <2>3 DEF v
<1>8. CASE ~Opened(w)
  <2>1. /\ Between(w) \in Seq(Frames) /\ Len(Between(w)) = Len(w) - 0 - c
        /\ \A i \in 1..Len(w) - 0 - c : Between(w)[i] = w[i + 0]
    BY <1>8, BetweenIs
  <2>2. Len(w) - 0 - c = Len(v) - c + 1
    BY <1>1, <1>2, <1>5
  <2>3. Between(w) # << >>
    BY <1>6, <2>1, <2>2, EmptySeq
  <2> DEFINE t == Tail(Between(w))
  <2>4. /\ t \in Seq(Frames) /\ Len(t) = Len(v) - c
        /\ \A i \in 1..Len(t) : t[i] = Between(w)[i + 1]
    <3>1. Len(Between(w)) - 1 = Len(v) - c
      BY <1>2, <1>5, <2>1, <2>2
    <3> QED BY <2>1, <2>3, <3>1, HeadTailProperties
  <2> HIDE DEF t
  <2>5. ASSUME NEW i \in 1..Len(v) - c PROVE t[i] = Between(v)[i]
    <3>1. i + 1 \in 1..Len(w) - 0 - c /\ i + 1 + 0 = i + 1
      BY <1>6, <2>2
    <3>2. Between(w)[i + 1] = w[i + 1]
      BY <2>1, <3>1
    <3> QED BY <1>6, <2>4, <3>2
  <2>6. Between(v) = t
    BY <1>4, <1>6, <2>4, <2>5, SeqEqual
  <2> QED BY <1>3, <1>8, <2>3, <2>6 DEF v, t
<1> QED BY <1>7, <1>8

\* An event can be on its way: the gateway has bound the socket, and a path.
Carries(r) == r.open /\ r.up /\ r.room # Null

\* Nothing comes before an open or after an end, and when an end is on its way
\* the gateway is done with the socket.
WireOk(r) ==
    /\ \A i \in 1..Len(r.wire) : r.wire[i] = "open" => i = 1
    /\ \A i \in 1..Len(r.wire) : r.wire[i] \in Closing => i = Len(r.wire)
    /\ Closed(r.wire) => ~(r.open /\ r.up)
    /\ Len(Between(r.wire)) <= MaxWire

\* A client that has not heard the open yet has it before it when there is
\* anything to hear; a socket that was accepted is not accepted again.
PhaseOk(r, state) ==
    /\ state = "connecting" /\ ((r.open /\ r.up) \/ Between(r.wire) # << >>) => Opened(r.wire)
    /\ state = "open" => ~Opened(r.wire)
    /\ (state = "open" \/ Opened(r.wire)) /\ r.up => r.open \/ Closed(r.wire)

\* What the gateway and the network may make of a socket whose page end stays.
Moves(r, q) ==
    /\ WireOk(q)
    /\ r.there =>
         /\ \A state \in {"connecting", "open"} : PhaseOk(r, state) => PhaseOk(q, state)
         /\ \/ Between(q.wire) = Between(r.wire)
            \/ Between(q.wire) = << >> /\ ~Carries(q)
            \/ /\ Carries(r) /\ Carries(q)
               /\ \E e \in EventsFor(r.tenant) :
                     Between(q.wire) = Append(Between(r.wire), e)

LEMMA FreshOk == \A q : q.wire = << >> => WireOk(q)
<1>1. ~Closed(<< >>) /\ Len(<< >>) = 0 /\ Len(Between(<< >>)) = 0
  BY EmptySeq, NoEventsYet DEF Closed
<1> QED BY <1>1, RealtimeAssumption DEF WireOk

LEMMA SameWire ==
    ASSUME NEW r, NEW q, WireOk(r), q.wire = r.wire, q.up = r.up, q.open = r.open
    PROVE  Moves(r, q)
BY DEF Moves, WireOk, PhaseOk

LEMMA SettledMoves ==
    ASSUME NEW r, NEW q, Moves(r, q), q.there = r.there, q.there \in BOOLEAN
    PROVE  Moves(r, Settled(q))
<1>1. CASE q.there \/ q.ask \/ q.open
  BY <1>1 DEF Settled
<1>2. CASE ~(q.there \/ q.ask \/ q.open)
  <2>1. Settled(q).wire = << >> /\ ~r.there
    BY <1>2 DEF Settled, NoSocket
  <2> QED BY <2>1, FreshOk DEF Moves
<1> QED BY <1>1, <1>2

\* The gateway closes a socket, and tells the page when it can.
LEMMA EndMoves ==
    ASSUME NEW r, SocketOk(r), WireOk(r), r.open
    PROVE  /\ \A f \in Closing : Moves(r, Sends(GatewayEnd(r), f))
           /\ ~(r.there /\ r.up) => Moves(r, GatewayEnd(r))
<1> DEFINE e == Unbound([r EXCEPT !.open = FALSE])
<1>1. /\ e.wire = r.wire /\ e.there = r.there /\ e.up = r.up /\ e.open = FALSE
      /\ e \in SocketRecords
  BY DEF Unbound, SocketOk, SocketRecords
<1>2. GatewayEnd(r) = Settled(e)
  BY DEF GatewayEnd
<1> HIDE DEF e
<1>3. r.there \in BOOLEAN /\ r.up \in BOOLEAN /\ r.wire \in Seq(Frames)
  BY DEF SocketOk, SocketRecords
<1>4. CASE ~(r.there /\ r.up)
  <2>1. Moves(r, e)
    BY <1>1, <1>4 DEF Moves, WireOk, PhaseOk
  <2>2. Moves(r, Settled(e))
    BY <1>1, <1>3, <2>1, SettledMoves
  <2>3. ~(Settled(e).there /\ Settled(e).up)
    BY <1>1, <1>4 DEF Settled, NoSocket
  <2> QED BY <1>2, <2>2, <2>3 DEF Sends
<1>5. ASSUME r.there /\ r.up, NEW f \in Closing PROVE Moves(r, Sends(GatewayEnd(r), f))
  <2> DEFINE q == [e EXCEPT !.wire = Append(r.wire, f)]
  <2>1. GatewayEnd(r) = e
    BY <1>1, <1>2, <1>5 DEF Settled
  <2>2. Sends(GatewayEnd(r), f) = q
    BY <1>1, <1>5, <2>1 DEF Sends
  <2>3. /\ q.wire = Append(r.wire, f) /\ q.open = FALSE /\ q.up = r.up
    BY <1>1 DEF SocketRecords
  <2> HIDE DEF q
  <2>4. ~Closed(r.wire) /\ f \in Frames /\ f # "open"
    BY <1>5 DEF WireOk, Closing, Frames
  <2>5. /\ Opened(q.wire) <=> Opened(r.wire)
        /\ Closed(q.wire)
        /\ Between(q.wire) = Between(r.wire)
    BY <1>3, <1>5, <2>3, <2>4, BetweenAppend
  <2>6. /\ Len(q.wire) = Len(r.wire) + 1 /\ q.wire[Len(r.wire) + 1] = f /\ Len(r.wire) \in Nat
        /\ \A i \in 1..Len(r.wire) : q.wire[i] = r.wire[i]
    BY <1>3, <2>3, <2>4, AppendProperties, LenProperties
  <2>7. \A i \in 1..Len(r.wire) : r.wire[i] \notin Closing
    BY <2>4, <2>6, EmptySeq DEF WireOk, Closed
  <2>8. WireOk(q)
    BY <2>3, <2>4, <2>5, <2>6, <2>7 DEF WireOk
  <2>9. \A state \in {"connecting", "open"} : PhaseOk(r, state) => PhaseOk(q, state)
    BY <1>5, <2>3, <2>5 DEF PhaseOk
  <2> QED BY <2>2, <2>5, <2>8, <2>9 DEF Moves
<1> QED BY <1>4, <1>5

LEMMA MovesFrom ==
    ASSUME NEW r, NEW s, NEW q, Moves(s, q), s.there = r.there, s.wire = r.wire, s.up = r.up,
           s.open = r.open, s.room = r.room, s.tenant = r.tenant
    PROVE  Moves(r, q)
BY DEF Moves, PhaseOk, Carries

\* The wire of a socket that answers a dial: an open, or an end at once.
LEMMA AnswerMoves ==
    ASSUME NEW r, SocketOk(r), WireOk(r), Dialing(r), NEW q,
           \/ q.wire = <<"open">> /\ q.open
           \/ q.wire = <<"gone">> /\ q.open = r.open
    PROVE  Moves(r, q)
<1>1. r.wire = << >> /\ r.up /\ ~r.open
  BY DEF Dialing
<1>2. ~Closed(r.wire) /\ ~Opened(r.wire) /\ Between(r.wire) = << >>
  BY <1>1, NoEventsYet DEF Closed, Opened
<1>3. CASE q.wire = <<"open">> /\ q.open
  <2>1. Len(q.wire) = 1 /\ q.wire[1] = "open" /\ Opened(q.wire) /\ ~Closed(q.wire)
    BY <1>3 DEF Opened, Closed, Closing
  <2>2. Between(q.wire) = << >> /\ Len(Between(q.wire)) = 0
    BY <1>3, NoEventsYet, EmptySeq
  <2>3. WireOk(q)
    BY <2>1, <2>2, RealtimeAssumption DEF WireOk, Closing
  <2>4. \A state \in {"connecting", "open"} : PhaseOk(r, state) => PhaseOk(q, state)
    BY <1>1, <1>2, <1>3, <2>1 DEF PhaseOk
  <2> QED BY <1>2, <2>2, <2>3, <2>4 DEF Moves
<1>4. CASE q.wire = <<"gone">> /\ q.open = r.open
  <2>1. Len(q.wire) = 1 /\ q.wire[1] = "gone" /\ ~Opened(q.wire) /\ Closed(q.wire)
    BY <1>4 DEF Opened, Closed, Closing
  <2>2. Between(q.wire) = << >> /\ Len(Between(q.wire)) = 0
    BY <1>4, NoEventsYet, EmptySeq DEF Closing
  <2>3. WireOk(q)
    BY <1>1, <1>4, <2>1, <2>2, RealtimeAssumption DEF WireOk
  <2>4. \A state \in {"connecting", "open"} : PhaseOk(r, state) => PhaseOk(q, state)
    BY <1>1, <1>2, <1>4, <2>1, <2>2 DEF PhaseOk
  <2> QED BY <1>2, <2>2, <2>3, <2>4 DEF Moves
<1> QED BY <1>3, <1>4

\* A network that died: what was on its way is lost, and the page may notice.
LEMMA DeadMoves ==
    ASSUME NEW r, NEW q, q.up = FALSE, q.wire = << >> \/ q.wire = <<"gone">>
    PROVE  Moves(r, q)
<1>1. CASE q.wire = << >>
  <2>1. ~Opened(q.wire) /\ Between(q.wire) = << >>
    BY <1>1, NoEventsYet DEF Opened
  <2> QED BY <1>1, <2>1, FreshOk DEF Moves, PhaseOk, Carries
<1>2. CASE q.wire = <<"gone">>
  <2>1. Len(q.wire) = 1 /\ q.wire[1] = "gone" /\ ~Opened(q.wire) /\ Closed(q.wire)
    BY <1>2 DEF Opened, Closed, Closing
  <2>2. Between(q.wire) = << >> /\ Len(Between(q.wire)) = 0
    BY <1>2, NoEventsYet, EmptySeq DEF Closing
  <2>3. WireOk(q)
    BY <2>1, <2>2, RealtimeAssumption DEF WireOk
  <2> QED BY <2>1, <2>2, <2>3 DEF Moves, PhaseOk, Carries
<1> QED BY <1>1, <1>2

\* An event is sent.
LEMMA EventMoves ==
    ASSUME NEW r, SocketOk(r), WireOk(r), NEW e \in Messages, Receives(r, e),
           Len(EventsOf(r)) < MaxWire
    PROVE  Moves(r, Sends(r, e))
<1>0. /\ r.there \in BOOLEAN /\ r.up \in BOOLEAN /\ r.wire \in Seq(Frames) /\ r \in SocketRecords
      /\ r.open /\ r.room = TenantOf[e] /\ r.tenant = TenantOf[e]
  BY RealtimeAssumption DEF SocketOk, SocketRecords, Receives
<1>1. CASE ~(r.there /\ r.up)
  BY <1>1, SameWire DEF Sends
<1>2. CASE r.there /\ r.up
  <2> DEFINE q == [r EXCEPT !.wire = Append(r.wire, e)]
  <2>1. Sends(r, e) = q
    BY <1>2 DEF Sends
  <2>2. q.wire = Append(r.wire, e) /\ q.open = r.open /\ q.up = r.up /\ q.room = r.room
    BY <1>0 DEF SocketRecords
  <2> HIDE DEF q
  <2>3. ~Closed(r.wire) /\ e \in Frames /\ e # "open" /\ e \notin Closing
    BY <1>0, <1>2, RealtimeAssumption DEF WireOk, Closing, Frames
  <2>4. /\ Opened(q.wire) <=> Opened(r.wire)
        /\ ~Closed(q.wire)
        /\ Between(q.wire) = Append(Between(r.wire), e)
    BY <1>0, <2>2, <2>3, BetweenAppend
  <2>5. /\ Len(q.wire) = Len(r.wire) + 1 /\ q.wire[Len(r.wire) + 1] = e /\ Len(r.wire) \in Nat
        /\ \A i \in 1..Len(r.wire) : q.wire[i] = r.wire[i]
    BY <1>0, <2>2, <2>3, AppendProperties, LenProperties
  <2>6. \A i \in 1..Len(r.wire) : r.wire[i] \notin Closing
    BY <2>3, <2>5, EmptySeq DEF WireOk, Closed
  <2>7. Len(Between(q.wire)) <= MaxWire
    <3>1. Between(r.wire) \in Seq(Frames)
      BY <1>0, BetweenIs
    <3>2. Len(Between(q.wire)) = Len(Between(r.wire)) + 1 /\ Len(Between(r.wire)) \in Nat
      BY <2>3, <2>4, <3>1, AppendProperties, LenProperties
    <3> QED BY <3>2, EventsBetween, RealtimeAssumption
  <2>8. WireOk(q)
    <3>1. \A i \in 1..Len(q.wire) : i \in 1..Len(r.wire) \/ i = Len(r.wire) + 1
      BY <2>5
    <3>2. \A i \in 1..Len(q.wire) : q.wire[i] = "open" => i = 1
      BY <2>3, <2>5, <3>1 DEF WireOk
    <3>3. \A i \in 1..Len(q.wire) : q.wire[i] \notin Closing
      BY <2>3, <2>5, <2>6, <3>1
    <3> QED BY <2>4, <2>7, <3>2, <3>3 DEF WireOk
  <2>9. \A state \in {"connecting", "open"} : PhaseOk(r, state) => PhaseOk(q, state)
    BY <1>0, <1>2, <2>2, <2>4 DEF PhaseOk
  <2>10. Carries(r) /\ Carries(q)
    BY <1>0, <1>2, <2>2, RealtimeAssumption DEF Carries
  <2>11. e \in EventsFor(r.tenant)
    BY <1>0 DEF EventsFor
  <2>12. \E x \in EventsFor(r.tenant) : Between(q.wire) = Append(Between(r.wire), x)
    BY <2>4, <2>11
  <2> QED BY <2>1, <2>8, <2>9, <2>10, <2>12 DEF Moves
<1> QED BY <1>1, <1>2

-----------------------------------------------------------------------------
(* The wires, through every step.                                           *)

WireInv ==
    /\ \A s \in Sockets : WireOk(sock[s])
    /\ \A c \in Clients : client[c].sock # Null =>
          PhaseOk(sock[client[c].sock], client[c].state)

GatewayStep ==
    \/ \E s \in Sockets : \/ Accept(s) \/ Admit(s) \/ Refuse(s) \/ PeerClosed(s)
                         \/ PeerReset(s) \/ Pong(s) \/ DialFails(s) \/ Cut(s) \/ Notice(s)
    \/ Heartbeat \/ (\E e \in Messages : Publish(e)) \/ Restart

LEMMA SocketMoves ==
    ASSUME RealtimeInv, WireInv, NEW s \in Sockets,
           \/ Accept(s) \/ Admit(s) \/ Refuse(s) \/ PeerClosed(s) \/ PeerReset(s)
           \/ Pong(s) \/ DialFails(s) \/ Cut(s) \/ Notice(s)
    PROVE  Moves(sock[s], sock'[s]) /\ \A x \in Sockets \ {s} : sock'[x] = sock[x]
<1> DEFINE r == sock[s]
<1>0. /\ SocketOk(r) /\ r \in SocketRecords /\ WireOk(r) /\ sock \in [Sockets -> SocketRecords]
      /\ r.there \in BOOLEAN /\ r.up \in BOOLEAN
  BY DEF RealtimeInv, Wired, WireInv, SocketRecords
<1>1. ASSUME NEW q, sock' = [sock EXCEPT ![s] = q], Moves(r, q)
      PROVE  Moves(sock[s], sock'[s]) /\ \A x \in Sockets \ {s} : sock'[x] = sock[x]
  BY <1>0, <1>1
<1>2. CASE Accept(s)
  <2> DEFINE q == [r EXCEPT !.open = TRUE, !.ask = TRUE]
             p == [q EXCEPT !.wire = Append(q.wire, "open")]
  <2>1. sock' = [sock EXCEPT ![s] = Sends(q, "open")] /\ Dialing(r)
    BY <1>2 DEF Accept
  <2>2. q.there /\ q.up /\ q.wire = << >> /\ q.open = TRUE /\ q \in SocketRecords
    BY <1>0, <2>1 DEF Dialing, SocketRecords
  <2>3. Sends(q, "open") = p
    BY <2>2 DEF Sends
  <2>4. p.wire = <<"open">> /\ p.open
    <3> HIDE DEF q
    <3>1. p.wire = Append(<< >>, "open") /\ p.open = TRUE
      BY <2>2 DEF SocketRecords
    <3> QED BY <3>1
  <2> HIDE DEF p, q
  <2>5. Moves(r, p)
    BY <1>0, <2>1, <2>4, AnswerMoves
  <2> QED BY <1>1, <2>1, <2>3, <2>5
<1>3. CASE Admit(s)
  <2> DEFINE q == [r EXCEPT !.ask = FALSE, !.room = r.tenant, !.alive = r.open]
  <2>1. sock' = [sock EXCEPT ![s] = Settled(q)]
    BY <1>3 DEF Admit, Bound, RoomFor
  <2>2. q.wire = r.wire /\ q.up = r.up /\ q.open = r.open /\ q.there = r.there
    BY <1>0 DEF SocketRecords
  <2> HIDE DEF q
  <2>3. Moves(r, Settled(q))
    BY <1>0, <2>2, SameWire, SettledMoves
  <2> QED BY <1>1, <2>1, <2>3
<1>4. CASE Refuse(s)
  <2> DEFINE q == [r EXCEPT !.ask = FALSE]
  <2>1. sock' = [sock EXCEPT ![s] = IF q.open THEN Sends(GatewayEnd(q), "refused")
                                    ELSE Settled(q)]
    BY <1>4 DEF Refuse
  <2>2. /\ q.wire = r.wire /\ q.up = r.up /\ q.open = r.open /\ q.there = r.there
        /\ q.room = r.room /\ q.tenant = r.tenant /\ SocketOk(q)
    BY <1>0 DEF SocketRecords, SocketOk
  <2> HIDE DEF q
  <2>3. WireOk(q)
    BY <1>0, <2>2 DEF WireOk
  <2>4. CASE q.open
    <3>1. Moves(q, Sends(GatewayEnd(q), "refused"))
      BY <2>2, <2>3, <2>4, EndMoves DEF Closing
    <3>2. Moves(r, Sends(GatewayEnd(q), "refused"))
      BY <2>2, <3>1, MovesFrom
    <3> QED BY <1>1, <2>1, <2>4, <3>2
  <2>5. CASE ~q.open
    <3>1. Moves(r, Settled(q))
      BY <1>0, <2>2, SameWire, SettledMoves
    <3> QED BY <1>1, <2>1, <2>5, <3>1
  <2> QED BY <2>4, <2>5
<1>5. CASE PeerClosed(s) \/ PeerReset(s)
  <2>1. sock' = [sock EXCEPT ![s] = GatewayEnd(r)] /\ r.open /\ ~(r.there /\ r.up)
    BY <1>5 DEF PeerClosed, PeerReset
  <2>2. Moves(r, GatewayEnd(r))
    BY <1>0, <2>1, EndMoves
  <2> QED BY <1>1, <2>1, <2>2
<1>6. CASE Pong(s)
  <2> DEFINE q == [r EXCEPT !.alive = TRUE]
  <2>1. sock' = [sock EXCEPT ![s] = q]
    BY <1>6 DEF Pong
  <2>2. q.wire = r.wire /\ q.up = r.up /\ q.open = r.open
    BY <1>0 DEF SocketRecords
  <2> HIDE DEF q
  <2> QED BY <1>0, <1>1, <2>1, <2>2, SameWire
<1>7. CASE DialFails(s)
  <2> DEFINE q == [r EXCEPT !.wire = Append(r.wire, "gone")]
  <2>1. sock' = [sock EXCEPT ![s] = Sends(r, "gone")] /\ Dialing(r)
    BY <1>7 DEF DialFails
  <2>2. Sends(r, "gone") = q
    BY <2>1 DEF Sends, Dialing
  <2>3. q.wire = <<"gone">> /\ q.open = r.open
    <3>1. q.wire = Append(<< >>, "gone") /\ q.open = r.open
      BY <1>0, <2>1 DEF SocketRecords, Dialing
    <3> QED BY <3>1
  <2> HIDE DEF q
  <2> QED BY <1>0, <1>1, <2>1, <2>2, <2>3, AnswerMoves
<1>8. CASE Cut(s)
  <2> DEFINE q == [r EXCEPT !.up = FALSE, !.wire = << >>]
  <2>1. sock' = [sock EXCEPT ![s] = q]
    BY <1>8 DEF Cut
  <2>2. q.up = FALSE /\ q.wire = << >>
    BY <1>0 DEF SocketRecords
  <2> HIDE DEF q
  <2> QED BY <1>1, <2>1, <2>2, DeadMoves
<1>9. CASE Notice(s)
  <2> DEFINE q == [r EXCEPT !.wire = <<"gone">>]
  <2>1. sock' = [sock EXCEPT ![s] = q] /\ ~r.up
    BY <1>9 DEF Notice
  <2>2. q.up = FALSE /\ q.wire = <<"gone">>
    BY <1>0, <2>1 DEF SocketRecords
  <2> HIDE DEF q
  <2> QED BY <1>1, <2>1, <2>2, DeadMoves
<1> QED BY <1>2, <1>3, <1>4, <1>5, <1>6, <1>7, <1>8, <1>9

LEMMA RoundMoves ==
    ASSUME RealtimeInv, WireInv, Heartbeat \/ (\E e \in Messages : Publish(e)) \/ Restart,
           NEW s \in Sockets
    PROVE  Moves(sock[s], sock'[s])
<1> DEFINE r == sock[s]
<1>0. /\ SocketOk(r) /\ r \in SocketRecords /\ WireOk(r)
      /\ r.there \in BOOLEAN /\ r.up \in BOOLEAN /\ r.open \in BOOLEAN
  BY DEF RealtimeInv, Wired, WireInv, SocketRecords
<1>1. Moves(r, r)
  BY <1>0, SameWire
<1>2. CASE Heartbeat
  <2>1. sock'[s] = AfterRound(r)
    BY <1>2 DEF Heartbeat
  <2>2. AfterRound(r) \in {r, Pinged(r)} \/ (r.open /\ AfterRound(r) = Sends(GatewayEnd(r), "gone"))
    BY DEF AfterRound
  <2>3. Pinged(r).wire = r.wire /\ Pinged(r).up = r.up /\ Pinged(r).open = r.open
    BY <1>0 DEF Pinged, SocketRecords
  <2>4. Moves(r, Pinged(r))
    BY <1>0, <2>3, SameWire
  <2>5. r.open => Moves(r, Sends(GatewayEnd(r), "gone"))
    BY <1>0, EndMoves DEF Closing
  <2> QED BY <1>1, <2>1, <2>2, <2>4, <2>5
<1>3. ASSUME NEW e \in Messages, Publish(e) PROVE Moves(r, sock'[s])
  <2>1. sock'[s] = IF Receives(r, e) THEN Sends(r, e) ELSE r
    BY <1>3 DEF Publish
  <2>2. Receives(r, e) => Len(EventsOf(r)) < MaxWire
    BY <1>3 DEF Publish
  <2> QED BY <1>0, <1>1, <2>1, <2>2, EventMoves
<1>4. CASE Restart
  <2> DEFINE q == [r EXCEPT !.ask = FALSE]
  <2>1. sock'[s] = IF r.open THEN Sends(GatewayEnd(q), "gone") ELSE Settled(Unbound(q))
    BY <1>4 DEF Restart
  <2>2. /\ q.wire = r.wire /\ q.up = r.up /\ q.open = r.open /\ q.there = r.there
        /\ q.room = r.room /\ q.tenant = r.tenant /\ SocketOk(q) /\ q \in SocketRecords
    BY <1>0 DEF SocketRecords, SocketOk
  <2> HIDE DEF q
  <2>3. WireOk(q)
    BY <1>0, <2>2 DEF WireOk
  <2>4. CASE r.open
    <3>1. Moves(q, Sends(GatewayEnd(q), "gone"))
      BY <2>2, <2>3, <2>4, EndMoves DEF Closing
    <3>2. Moves(r, Sends(GatewayEnd(q), "gone"))
      BY <2>2, <3>1, MovesFrom
    <3> QED BY <2>1, <2>4, <3>2
  <2>5. CASE ~r.open
    <3> DEFINE u == Unbound(q)
    <3>1. u.wire = r.wire /\ u.up = r.up /\ u.open = r.open /\ u.there = r.there
      BY <2>2 DEF Unbound, SocketRecords
    <3> HIDE DEF u
    <3>2. Moves(r, Settled(u))
      BY <1>0, <3>1, SameWire, SettledMoves
    <3> QED BY <2>1, <2>5, <3>2 DEF u
  <2> QED BY <2>4, <2>5
<1> QED BY <1>2, <1>3, <1>4

LEMMA GatewayMoves ==
    ASSUME RealtimeInv, WireInv, GatewayStep
    PROVE  /\ UNCHANGED <<client, page>>
           /\ \A s \in Sockets : Moves(sock[s], sock'[s])
<1>1. \A s \in Sockets : Moves(sock[s], sock[s])
  BY SameWire DEF WireInv
<1>2. ASSUME NEW s \in Sockets,
             \/ Accept(s) \/ Admit(s) \/ Refuse(s) \/ PeerClosed(s) \/ PeerReset(s)
             \/ Pong(s) \/ DialFails(s) \/ Cut(s) \/ Notice(s)
      PROVE  UNCHANGED <<client, page>> /\ \A x \in Sockets : Moves(sock[x], sock'[x])
  <2>1. UNCHANGED <<client, page>>
    BY <1>2 DEF Accept, Admit, Refuse, PeerClosed, PeerReset, Pong, DialFails, Cut, Notice, pageSide
  <2> QED BY <1>1, <1>2, <2>1, SocketMoves
<1>3. CASE Heartbeat \/ (\E e \in Messages : Publish(e)) \/ Restart
  <2>1. UNCHANGED <<client, page>>
    BY <1>3 DEF Heartbeat, Publish, Restart, pageSide
  <2> QED BY <1>3, <2>1, RoundMoves
<1> QED BY <1>2, <1>3 DEF GatewayStep

LEMMA GatewayWires ==
    ASSUME RealtimeInv, WireInv, GatewayStep
    PROVE  WireInv'
<1>1. UNCHANGED <<client, page>> /\ \A s \in Sockets : Moves(sock[s], sock'[s])
  BY GatewayMoves
<1>2. ASSUME NEW c \in Clients, client[c].sock # Null
      PROVE  PhaseOk(sock'[client[c].sock], client[c].state)
  <2>1. /\ client[c].sock \in Sockets /\ client[c].state \in {"connecting", "open"}
        /\ sock[client[c].sock].there
    BY <1>2 DEF RealtimeInv, Types, Wired, ClientOk
  <2> QED BY <1>1, <1>2, <2>1 DEF Moves, WireInv
<1> QED BY <1>1, <1>2 DEF WireInv, Moves

\* What the page takes from a wire, and what that tells of its client.
LEMMA TakeFrame ==
    ASSUME NEW r, SocketOk(r), WireOk(r), r.wire # << >>, Head(r.wire) \notin Closing,
           NEW state \in {"connecting", "open"}, PhaseOk(r, state),
           NEW q, q.wire = Tail(r.wire), q.up = r.up, q.open = r.open
    PROVE  /\ WireOk(q) /\ PhaseOk(q, "open")
           /\ Head(r.wire) = "open" =>
                state = "connecting" /\ Between(q.wire) = Between(r.wire)
           /\ Head(r.wire) # "open" =>
                /\ state = "open" /\ Between(r.wire) # << >>
                /\ Between(q.wire) = Tail(Between(r.wire))
<1> DEFINE w == r.wire  v == q.wire
<1>0. w \in Seq(Frames) /\ r.open \in BOOLEAN /\ r.up \in BOOLEAN
  BY DEF SocketOk, SocketRecords
<1>1. /\ v \in Seq(Frames) /\ Len(v) = Len(w) - 1 /\ Len(w) \in Nat \ {0}
      /\ \A i \in 1..Len(v) : v[i] = w[i + 1]
      /\ Head(w) = w[1]
  <2>1. Len(w) \in Nat \ {0}
    BY <1>0, EmptySeq
  <2> QED BY <1>0, <2>1, HeadTailProperties
<1> HIDE DEF w, v
<1>2. \A i \in 1..Len(v) : i + 1 \in 1..Len(w) /\ i + 1 # 1
  BY <1>1
<1>3. \A i \in 1..Len(v) : v[i] # "open"
  BY <1>1, <1>2 DEF WireOk, w
<1>4. ~Opened(v)
  <2>1. v # << >> => 1 \in 1..Len(v)
    BY <1>1, EmptySeq
  <2> QED BY <1>3, <2>1 DEF Opened
<1>5. /\ Closed(v) <=> Closed(w)
      /\ Opened(w) => Between(v) = Between(w)
      /\ ~Opened(w) => Between(w) # << >> /\ Between(v) = Tail(Between(w))
  BY <1>0, <1>1, <1>4, BetweenTail DEF v, w
<1>6. Opened(w) <=> Head(w) = "open"
  BY <1>1 DEF Opened, w
<1>7. WireOk(q)
  <2>1. \A i \in 1..Len(v) : v[i] \in Closing => i = Len(v)
    <3>1. \A i \in 1..Len(v) : v[i] \in Closing => i + 1 = Len(w)
      BY <1>1, <1>2 DEF WireOk, w
    <3> QED BY <1>1, <3>1
  <2>2. Len(Between(v)) <= MaxWire
    <3>1. Between(w) \in Seq(Frames) /\ Len(Between(w)) <= MaxWire
      BY <1>0, BetweenIs DEF WireOk, w
    <3>2. CASE Opened(w)
      BY <1>5, <3>1, <3>2
    <3>3. CASE ~Opened(w)
      <4>1. Len(Between(v)) = Len(Between(w)) - 1
        BY <1>5, <3>1, <3>3, HeadTailProperties
      <4>2. Len(Between(w)) \in Nat
        BY <3>1, LenProperties
      <4> QED BY <3>1, <4>1, <4>2, RealtimeAssumption
    <3> QED BY <3>2, <3>3
  <2>3. Closed(v) => ~(q.open /\ q.up)
    BY <1>5 DEF WireOk, w
  <2> QED BY <1>3, <2>1, <2>2, <2>3 DEF WireOk, v
<1>8. PhaseOk(q, "open")
  BY <1>4, <1>5, <1>6 DEF PhaseOk, w, v
<1>9. ~Opened(w) => state = "open"
  BY <1>5 DEF PhaseOk, w
<1>10. Opened(w) => state = "connecting"
  BY DEF PhaseOk, w
<1> QED BY <1>5, <1>6, <1>7, <1>8, <1>9, <1>10 DEF v, w

LEMMA DialedWire ==
    ASSUME NEW c, NEW t
    PROVE  /\ WireOk(Dialed(c, t)) /\ PhaseOk(Dialed(c, t), "connecting")
           /\ Between(Dialed(c, t).wire) = << >> /\ ~Carries(Dialed(c, t))
<1>1. Dialed(c, t).wire = << >> /\ ~Dialed(c, t).open
  BY DEF Dialed, NoSocket
<1>2. Between(<< >>) = << >> /\ ~Opened(<< >>)
  BY NoEventsYet DEF Opened
<1> QED BY <1>1, <1>2, FreshOk DEF PhaseOk, Carries

\* A client dials on a free socket: nobody else's is touched.
LEMMA DialWires ==
    ASSUME RealtimeInv, WireInv, NEW c \in Clients, NEW s \in FreeSockets, NEW t \in Tenants,
           NEW cl \in ClientRecords, cl.state = "connecting", cl.sock = s,
           client' = [client EXCEPT ![c] = cl], sock' = [sock EXCEPT ![s] = Dialed(c, t)]
    PROVE  /\ WireInv' /\ client'[c] = cl /\ sock'[s] = Dialed(c, t)
           /\ \A d \in Clients \ {c} :
                 /\ client'[d] = client[d]
                 /\ client[d].sock # Null => sock'[client[d].sock] = sock[client[d].sock]
<1>0. /\ client \in [Clients -> ClientRecords] /\ sock \in [Sockets -> SocketRecords]
      /\ s \in Sockets /\ ~sock[s].there
  BY DEF RealtimeInv, Types, Wired, ClientRecords, FreeSockets, NoSocket
<1>1. \A d \in Clients : client[d].sock # Null => client[d].sock \in Sockets \ {s}
  BY <1>0 DEF RealtimeInv, Wired, ClientRecords
<1>2. /\ client'[c] = cl /\ \A d \in Clients \ {c} : client'[d] = client[d]
      /\ sock'[s] = Dialed(c, t) /\ \A x \in Sockets \ {s} : sock'[x] = sock[x]
  BY <1>0
<1>3. \A x \in Sockets : WireOk(sock'[x])
  BY <1>2, DialedWire DEF WireInv
<1>4. \A d \in Clients : client'[d].sock # Null =>
         PhaseOk(sock'[client'[d].sock], client'[d].state)
  BY <1>1, <1>2, DialedWire DEF WireInv
<1> QED BY <1>1, <1>2, <1>3, <1>4 DEF WireInv

\* A client's socket closes.
LEMMA CloseWires ==
    ASSUME RealtimeInv, WireInv, NEW c \in Clients, NEW cl, cl.sock = Null,
           client' = [client EXCEPT ![c] = cl],
           sock' = IF client[c].sock = Null THEN sock
                   ELSE [sock EXCEPT ![client[c].sock] = PageEnd(@)]
    PROVE  /\ WireInv' /\ client'[c] = cl
           /\ \A d \in Clients \ {c} :
                 /\ client'[d] = client[d]
                 /\ client[d].sock # Null => sock'[client[d].sock] = sock[client[d].sock]
<1>0. /\ client \in [Clients -> ClientRecords] /\ sock \in [Sockets -> SocketRecords]
      /\ client[c].sock \in Sockets \cup {Null}
  BY DEF RealtimeInv, Types, Wired, ClientRecords
<1>1. \A d \in Clients \ {c} : client[d].sock # Null =>
         client[d].sock \in Sockets /\ client[d].sock # client[c].sock
  BY <1>0 DEF RealtimeInv, Wired, ClientRecords
<1>2. /\ client'[c] = cl /\ \A d \in Clients \ {c} : client'[d] = client[d]
      /\ \A x \in Sockets : \/ sock'[x] = sock[x]
                            \/ sock'[x] = PageEnd(sock[x]) /\ x = client[c].sock
  BY <1>0, RealtimeAssumption
<1>3. \A x \in Sockets : WireOk(PageEnd(sock[x]))
  <2> SUFFICES ASSUME NEW x \in Sockets PROVE PageEnd(sock[x]).wire = << >>
    BY FreshOk
  <2>1. sock[x] \in SocketRecords
    BY <1>0
  <2> DEFINE e == [sock[x] EXCEPT !.there = FALSE, !.wire = << >>]
  <2>2. e.wire = << >>
    BY <2>1 DEF SocketRecords
  <2> HIDE DEF e
  <2>3. Settled(e).wire = << >>
    BY <2>2 DEF Settled, NoSocket
  <2> QED BY <2>3 DEF PageEnd, e
<1>4. \A x \in Sockets : WireOk(sock'[x])
  BY <1>2, <1>3 DEF WireInv
<1>5. \A d \in Clients \ {c} : client[d].sock # Null => sock'[client[d].sock] = sock[client[d].sock]
  BY <1>1, <1>2
<1>6. \A d \in Clients : client'[d].sock # Null =>
         PhaseOk(sock'[client'[d].sock], client'[d].state)
  BY <1>2, <1>5 DEF WireInv
<1> QED BY <1>2, <1>4, <1>5, <1>6 DEF WireInv

\* client.ts takes a frame: it ends the connection, or the connection is open
\* after it and it was the open or the next event.
LEMMA FrameWires ==
    ASSUME RealtimeInv, WireInv, NEW s \in Sockets, Frame(s), NEW c, c = sock[s].by
    PROVE  /\ WireInv' /\ UNCHANGED page
           /\ c \in Clients /\ client[c].sock = s /\ client[c].tenant = sock[s].tenant
           /\ client'[c].tenant = client[c].tenant
           /\ client[c].state \in {"connecting", "open"}
           /\ \/ client'[c].sock = Null /\ client'[c].state \in {"retrying", "closed"}
              \/ /\ client'[c].sock = s /\ client'[c].state = "open"
                 /\ Carries(sock'[s]) <=> Carries(sock[s])
                 /\ \/ /\ client[c].state = "connecting"
                       /\ Between(sock'[s].wire) = Between(sock[s].wire)
                    \/ /\ client[c].state = "open" /\ Between(sock[s].wire) # << >>
                       /\ Between(sock'[s].wire) = Tail(Between(sock[s].wire))
           /\ \A d \in Clients \ {c} :
                 /\ client'[d] = client[d]
                 /\ client[d].sock # Null => sock'[client[d].sock] = sock[client[d].sock]
<1> DEFINE r == sock[s]  frame == Head(r.wire)  cl == AfterFrame(client[c], frame)
<1>0. /\ client \in [Clients -> ClientRecords] /\ sock \in [Sockets -> SocketRecords]
      /\ SocketOk(r) /\ r \in SocketRecords /\ WireOk(r)
  BY DEF RealtimeInv, Types, Wired, ClientRecords, WireInv
<1>1. /\ r.there /\ r.wire # << >> /\ UNCHANGED page
  BY DEF Frame
<1>2. c \in Clients /\ client[c].sock = s /\ client[c].tenant = r.tenant
  BY <1>1 DEF RealtimeInv, Wired
<1>3. client' = [client EXCEPT ![c] = cl]
  BY <1>2, RealtimeAssumption DEF Frame, Live
<1>4. /\ client[c] \in ClientRecords /\ s # Null
      /\ client[c].state \in {"connecting", "open"} /\ PhaseOk(r, client[c].state)
  BY <1>0, <1>2, RealtimeAssumption DEF RealtimeInv, Wired, ClientOk, WireInv
<1>5. CASE frame \in Closing
  <2>1. sock' = [sock EXCEPT ![s] = PageEnd(r)]
    BY <1>5 DEF Frame, Closing
  <2>2. cl \in {ShutDown(client[c]), Retrying(client[c])}
    BY <1>5 DEF AfterFrame, Closing
  <2>3. cl.sock = Null /\ cl.tenant = client[c].tenant /\ cl.state \in {"retrying", "closed"}
    <3>1. CASE cl = ShutDown(client[c])
      BY <1>4, <3>1 DEF ShutDown, ClearRetry, ClientRecords
    <3>2. CASE cl = Retrying(client[c])
      BY <1>4, <3>2 DEF Retrying, ClientRecords
    <3> QED BY <2>2, <3>1, <3>2
  <2> HIDE DEF cl, frame
  <2>4. sock' = IF client[c].sock = Null THEN sock
                ELSE [sock EXCEPT ![client[c].sock] = PageEnd(@)]
    BY <1>2, <1>4, <2>1 DEF r
  <2> HIDE DEF r
  <2>5. /\ WireInv' /\ client'[c] = cl
        /\ \A d \in Clients \ {c} :
              /\ client'[d] = client[d]
              /\ client[d].sock # Null => sock'[client[d].sock] = sock[client[d].sock]
    BY <1>2, <1>3, <2>3, <2>4, CloseWires
  <2> QED BY <1>1, <1>2, <1>4, <2>3, <2>5 DEF r
<1>6. CASE frame \notin Closing
  <2> DEFINE q == [r EXCEPT !.wire = Tail(r.wire)]
  <2>1. sock' = [sock EXCEPT ![s] = q]
    BY <1>6 DEF Frame, Closing
  <2>2. /\ q.wire = Tail(r.wire) /\ q.up = r.up /\ q.open = r.open /\ q.room = r.room
    BY <1>0 DEF SocketRecords
  <2>3. /\ frame = "open" => cl = [client[c] EXCEPT !.state = "open"]
        /\ frame # "open" => cl = client[c]
    BY <1>6 DEF AfterFrame, Closing
  <2> HIDE DEF q, cl
  <2>4. /\ WireOk(q) /\ PhaseOk(q, "open")
        /\ frame = "open" => client[c].state = "connecting" /\ Between(q.wire) = Between(r.wire)
        /\ frame # "open" =>
             /\ client[c].state = "open" /\ Between(r.wire) # << >>
             /\ Between(q.wire) = Tail(Between(r.wire))
    <3> DEFINE state == client[c].state
    <3>1. state \in {"connecting", "open"} /\ PhaseOk(r, state)
      BY <1>4
    <3> HIDE DEF state, r
    <3> QED BY <1>0, <1>1, <1>6, <2>2, <3>1, TakeFrame DEF state
  <2>5. cl.sock = s /\ cl.tenant = client[c].tenant /\ cl.state = "open"
    BY <1>2, <1>4, <2>3, <2>4 DEF ClientRecords
  <2>6. /\ client'[c] = cl /\ \A d \in Clients \ {c} : client'[d] = client[d]
        /\ sock'[s] = q /\ \A x \in Sockets \ {s} : sock'[x] = sock[x]
    BY <1>0, <1>2, <1>3, <2>1
  <2>7. \A d \in Clients \ {c} : client[d].sock # Null => client[d].sock \in Sockets \ {s}
    BY <1>0 DEF RealtimeInv, Wired, ClientRecords
  <2>8. WireInv'
    <3>1. \A x \in Sockets : WireOk(sock'[x])
      BY <2>4, <2>6 DEF WireInv
    <3>2. \A d \in Clients : client'[d].sock # Null =>
             PhaseOk(sock'[client'[d].sock], client'[d].state)
      BY <2>4, <2>5, <2>6, <2>7 DEF WireInv
    <3> QED BY <3>1, <3>2 DEF WireInv
  <2>9. Carries(sock'[s]) <=> Carries(r)
    BY <2>2, <2>6 DEF Carries
  <2> QED BY <1>1, <1>2, <1>4, <2>4, <2>5, <2>6, <2>7, <2>8, <2>9
<1> QED BY <1>5, <1>6

\* A client's timer fires, or the browser is online again: it connects anew.
LEMMA ReopenWires ==
    ASSUME RealtimeInv, WireInv, NEW c \in Clients, RetryFires(c) \/ Online(c)
    PROVE  /\ WireInv' /\ UNCHANGED page
           /\ client[c].state = "retrying" /\ client[c].sock = Null
           /\ client'[c].state = "connecting" /\ client'[c].tenant = client[c].tenant
           /\ client'[c].sock \in Sockets
           /\ sock'[client'[c].sock] = Dialed(c, client[c].tenant)
           /\ \A d \in Clients \ {c} :
                 /\ client'[d] = client[d]
                 /\ client[d].sock # Null => sock'[client[d].sock] = sock[client[d].sock]
<1>0. client \in [Clients -> ClientRecords] /\ client[c] \in ClientRecords
  BY DEF RealtimeInv, Types, ClientRecords
<1>1. client[c].state = "retrying" /\ client[c].sock = Null /\ client[c].tenant \in Tenants
  BY <1>0 DEF RealtimeInv, Wired, ClientOk, RetryFires, Online, OnlineSkips, ClientRecords
<1> DEFINE cl == ClearRetry(client[c])
<1>2. Reopen(c, cl)
  BY DEF RetryFires, Online, OnlineClient
<1>3. cl.tenant = client[c].tenant /\ cl \in ClientRecords
  BY <1>0 DEF ClearRetry, ClientRecords
<1> HIDE DEF cl
<1>4. PICK s \in FreeSockets : /\ client' = [client EXCEPT ![c] = Opening(cl, s)]
                               /\ sock' = [sock EXCEPT ![s] = Dialed(c, cl.tenant)]
  BY <1>2 DEF Reopen
<1>5. UNCHANGED page /\ s \in Sockets
  BY <1>2 DEF Reopen, FreeSockets
<1>6. /\ Opening(cl, s).state = "connecting" /\ Opening(cl, s).sock = s
      /\ Opening(cl, s).tenant = cl.tenant /\ Opening(cl, s) \in ClientRecords
  BY <1>3, <1>5 DEF Opening, ClientRecords
<1>7. cl.tenant \in Tenants
  BY <1>1, <1>3
<1>8. WireInv'
  BY <1>4, <1>6, <1>7, DialWires
<1>9. ASSUME NEW d \in Clients \ {c}
      PROVE  /\ client'[d] = client[d]
             /\ client[d].sock # Null => sock'[client[d].sock] = sock[client[d].sock]
  BY <1>4, <1>6, <1>7, DialWires
<1>10. client'[c] = Opening(cl, s) /\ sock'[s] = Dialed(c, cl.tenant)
  BY <1>0, <1>4, <1>5 DEF RealtimeInv, Wired
<1> QED BY <1>1, <1>3, <1>5, <1>6, <1>8, <1>9, <1>10

\* use-realtime.ts hands out the connection of the workspace, or a new one.
LEMMA AcquireWires ==
    ASSUME RealtimeInv, WireInv, NEW h \in Hooks, Acquire(h)
    PROVE  /\ WireInv'
           /\ holds[h] = Null /\ holds'[h] \in Clients /\ client'[holds'[h]].state # "closed"
           /\ \A g \in Hooks \ {h} : holds'[g] = holds[g]
           /\ \A d \in Clients : client[d].tenant # Null =>
                 /\ client'[d] = client[d]
                 /\ client[d].sock # Null => sock'[client[d].sock] = sock[client[d].sock]
<1>0. /\ client \in [Clients -> ClientRecords] /\ shown \in Tenants /\ holds[h] = Null
      /\ registry[shown] \in Clients \cup {Null}
      /\ holds \in [Hooks -> Clients \cup {Null}]
  BY DEF Acquire, RealtimeInv, Types, ClientRecords
<1>1. CASE Reusable(registry[shown])
  <2>1. /\ holds' = [holds EXCEPT ![h] = registry[shown]] /\ UNCHANGED <<client, sock>>
    BY <1>1 DEF Acquire
  <2>2. registry[shown] \in Clients /\ client[registry[shown]].state # "closed"
    BY <1>0, <1>1 DEF Reusable
  <2> QED BY <1>0, <2>1, <2>2 DEF WireInv
<1>2. CASE ~Reusable(registry[shown])
  <2>1. PICK c \in FreeClients, s \in FreeSockets :
          /\ client' = [client EXCEPT ![c] = Opening([NoClient EXCEPT !.tenant = shown], s)]
          /\ sock' = [sock EXCEPT ![s] = Dialed(c, shown)]
          /\ registry' = [registry EXCEPT ![shown] = c]
          /\ holds' = [holds EXCEPT ![h] = c]
    BY <1>2 DEF Acquire
  <2> DEFINE cl == Opening([NoClient EXCEPT !.tenant = shown], s)
  <2>2. c \in Clients /\ client[c].tenant = Null
    BY DEF FreeClients, NoClient
  <2>3. cl.state = "connecting" /\ cl.sock = s /\ cl \in ClientRecords
    BY <1>0, <2>1 DEF NoClient, Opening, ClientRecords, FreeSockets
  <2> HIDE DEF cl
  <2>4. client' = [client EXCEPT ![c] = cl]
    BY <2>1 DEF cl
  <2>5. /\ WireInv' /\ client'[c] = cl
        /\ \A d \in Clients \ {c} :
              /\ client'[d] = client[d]
              /\ client[d].sock # Null => sock'[client[d].sock] = sock[client[d].sock]
    BY <1>0, <2>1, <2>2, <2>3, <2>4, DialWires
  <2>6. holds'[h] = c /\ \A g \in Hooks \ {h} : holds'[g] = holds[g]
    BY <1>0, <2>1
  <2> QED BY <1>0, <2>2, <2>3, <2>5, <2>6
<1> QED BY <1>1, <1>2

\* A deferred teardown: of a connection nobody holds.
LEMMA ReapWires ==
    ASSUME RealtimeInv, WireInv, NEW c \in Clients, Reap(c)
    PROVE  /\ WireInv' /\ UNCHANGED holds /\ \A h \in Hooks : holds[h] # c
           /\ \A d \in Clients \ {c} :
                 /\ client'[d] = client[d]
                 /\ client[d].sock # Null => sock'[client[d].sock] = sock[client[d].sock]
<1>0. client \in [Clients -> ClientRecords] /\ Holders(c) = {} /\ UNCHANGED holds
  BY DEF Reap, RealtimeInv, Types, ClientRecords, Reachable
<1> DEFINE cl == [ShutDown(client[c]) EXCEPT !.tenant = Null]
<1>1. /\ client' = [client EXCEPT ![c] = cl]
      /\ sock' = IF client[c].sock = Null THEN sock
                 ELSE [sock EXCEPT ![client[c].sock] = PageEnd(@)]
  BY <1>0 DEF Reap, Unused
<1>2. cl.sock = Null
  BY <1>0 DEF ShutDown, ClearRetry, ClientRecords
<1> HIDE DEF cl
<1>3. /\ WireInv'
      /\ \A d \in Clients \ {c} :
            /\ client'[d] = client[d]
            /\ client[d].sock # Null => sock'[client[d].sock] = sock[client[d].sock]
  BY <1>1, <1>2, CloseWires
<1> QED BY <1>0, <1>3 DEF Holders

LEMMA WiresInit == Init => WireInv
<1> SUFFICES ASSUME Init PROVE WireInv
  OBVIOUS
<1>1. \A s \in Sockets : sock[s].wire = << >>
  BY DEF Init, NoSocket
<1>2. \A c \in Clients : client[c].sock = Null
  BY DEF Init, NoClient
<1> QED BY <1>1, <1>2, FreshOk DEF WireInv

\* The page steps that leave connections alone.
PageOnly ==
    \/ \E h \in Hooks : Release(h)
    \/ SwitchWorkspace \/ TokenArrives

LEMMA StepKinds ==
    ASSUME Next
    PROVE  \/ GatewayStep \/ PageOnly
           \/ \E h \in Hooks : Acquire(h)
           \/ \E c \in Clients : Reap(c) \/ RetryFires(c) \/ Online(c)
           \/ \E s \in Sockets : Frame(s)
BY DEF Next, Fault, GatewayStep, PageOnly

LEMMA WiresStep == RealtimeInv /\ WireInv /\ [Next]_vars => WireInv'
<1> SUFFICES ASSUME RealtimeInv, WireInv, [Next]_vars PROVE WireInv'
  OBVIOUS
<1>1. CASE PageOnly \/ UNCHANGED vars
  <2>1. UNCHANGED <<client, sock>>
    BY <1>1 DEF PageOnly, Release, SwitchWorkspace, TokenArrives, vars
  <2> QED BY <2>1 DEF WireInv
<1>2. ASSUME NEW s \in Sockets, Frame(s) PROVE WireInv'
  BY <1>2, FrameWires
<1> QED BY <1>1, <1>2, StepKinds, GatewayWires, AcquireWires, ReapWires, ReopenWires

Counted == switches \in 0..MaxSwitches /\ faults \in 0..MaxFaults

LEMMA CountedStep == Counted /\ [Next]_vars => Counted'
<1> SUFFICES ASSUME Counted, [Next]_vars PROVE Counted'
  OBVIOUS
<1>1. ASSUME NEW n \in Nat, NEW i \in 0..n, i < n PROVE i + 1 \in 0..n
  BY <1>1
<1>2. CASE SwitchWorkspace
  BY <1>1, <1>2, RealtimeAssumption DEF SwitchWorkspace, Counted
<1>3. CASE Fault
  <2>1. faults' \in 0..MaxFaults
    BY <1>1, <1>3, RealtimeAssumption DEF Fault, Counted
  <2>2. UNCHANGED switches
    BY <1>3 DEF Fault, Refuse, DialFails, Cut, Restart, pageSide, page
  <2> QED BY <2>1, <2>2 DEF Counted
<1>4. CASE UNCHANGED <<switches, faults>>
  BY <1>4 DEF Counted
<1>5. ASSUME NEW h \in Hooks, Acquire(h) \/ Release(h) PROVE UNCHANGED <<switches, faults>>
  BY <1>5 DEF Acquire, Release
<1>6. ASSUME NEW c \in Clients, Reap(c) \/ RetryFires(c) \/ Online(c)
      PROVE  UNCHANGED <<switches, faults>>
  BY <1>6 DEF Reap, RetryFires, Online, Reopen, page
<1>7. ASSUME NEW s \in Sockets,
             \/ Frame(s) \/ Accept(s) \/ Admit(s) \/ PeerClosed(s)
             \/ PeerReset(s) \/ Pong(s) \/ Notice(s)
      PROVE  UNCHANGED <<switches, faults>>
  BY <1>7 DEF Frame, Accept, Admit, PeerClosed, PeerReset, Pong, Notice, pageSide, page
<1>8. ASSUME (\E e \in Messages : Publish(e)) \/ Heartbeat \/ TokenArrives \/ UNCHANGED vars
      PROVE  UNCHANGED <<switches, faults>>
  BY <1>8 DEF Publish, Heartbeat, TokenArrives, pageSide, page, vars
<1> QED BY <1>2, <1>3, <1>4, <1>5, <1>6, <1>7, <1>8 DEF Next

\* A wire holds an open, the events and an end.
LEMMA WireLength ==
    ASSUME NEW r, SocketOk(r), WireOk(r)
    PROVE  r.wire \in Seq(Frames) /\ Len(r.wire) <= MaxWire + 2
<1> DEFINE w == r.wire  o == IF Opened(w) THEN 1 ELSE 0  c == IF Closed(w) THEN 1 ELSE 0
           n == Len(Between(w))
<1>1. w \in Seq(Frames) /\ n <= MaxWire
  BY DEF SocketOk, SocketRecords, WireOk
<1>2. n = Len(w) - o - c /\ n \in Nat /\ Len(w) \in Nat
  BY <1>1, BetweenIs, LenProperties
<1>3. o \in {0, 1} /\ c \in {0, 1}
  OBVIOUS
<1> HIDE DEF o, c, n
<1> QED BY <1>1, <1>2, <1>3, RealtimeAssumption

\* The state of Realtime, through every step of the page, the gateway and the
\* network: its clients, its sockets at both ends, and no more on a wire than
\* the open of an upgrade (gateway.ts), MaxWire events and the close.
THEOREM RealtimeTypes == Spec => []TypeOK
<1>1. Init => Counted
  BY RealtimeAssumption DEF Init, Counted
<1>2. RealtimeInv /\ WireInv /\ Counted => TypeOK
  <2> SUFFICES ASSUME RealtimeInv, WireInv, Counted PROVE TypeOK
    OBVIOUS
  <2>1. \A c \in Clients : client[c].state = "closed" => ~client[c].timer /\ client[c].sock = Null
    BY DEF RealtimeInv, Wired, ClientOk
  <2>2. ASSUME NEW s \in Sockets
        PROVE  /\ DOMAIN sock[s] = DOMAIN NoSocket
               /\ sock[s].by \in Clients \cup {Null}
               /\ {sock[s].tenant, sock[s].room} \subseteq Tenants \cup {Null}
               /\ {sock[s].there, sock[s].up, sock[s].ask, sock[s].open,
                   sock[s].alive} \subseteq BOOLEAN
               /\ sock[s].wire \in Seq(Frames) /\ Len(sock[s].wire) <= MaxWire + 2
    <3>1. sock[s] \in SocketRecords /\ SocketOk(sock[s]) /\ WireOk(sock[s])
      BY DEF RealtimeInv, Wired, WireInv
    <3>2. DOMAIN sock[s] = DOMAIN NoSocket
      BY <3>1 DEF SocketRecords, NoSocket
    <3>3. sock[s].wire \in Seq(Frames) /\ Len(sock[s].wire) <= MaxWire + 2
      BY <3>1, WireLength
    <3>4. /\ sock[s].by \in Clients \cup {Null} /\ sock[s].tenant \in Tenants \cup {Null}
          /\ sock[s].room \in Tenants \cup {Null} /\ sock[s].there \in BOOLEAN
          /\ sock[s].up \in BOOLEAN /\ sock[s].ask \in BOOLEAN /\ sock[s].open \in BOOLEAN
          /\ sock[s].alive \in BOOLEAN
      BY <3>1 DEF SocketRecords
    <3> QED BY <3>2, <3>3, <3>4, Zenon
  <2> QED BY <2>1, <2>2 DEF RealtimeInv, Types, Counted, TypeOK
<1> QED BY <1>1, <1>2, InvInit, InvStep, WiresInit, WiresStep, CountedStep, PTL DEF Spec

-----------------------------------------------------------------------------
(* What one component sees is a LiveChannel.                                *)

AllTold(w) == [i \in DOMAIN w |-> Told(w[i])]
ToldOf(T) == {Told(e) : e \in T}

LEMMA ToldIs ==
    ASSUME NEW T, NEW e \in Seq(T)
    PROVE  /\ AllTold(e) \in Seq(ToldOf(T)) /\ Len(AllTold(e)) = Len(e)
           /\ \A i \in 1..Len(e) : AllTold(e)[i] = Told(e[i])
<1>1. Len(e) \in Nat /\ DOMAIN e = 1..Len(e) /\ \A i \in 1..Len(e) : e[i] \in T
  BY LenProperties, ElementOfSeq
<1>2. /\ AllTold(e) \in [1..Len(e) -> ToldOf(T)] /\ DOMAIN AllTold(e) = 1..Len(e)
      /\ \A i \in 1..Len(e) : AllTold(e)[i] = Told(e[i])
  BY <1>1 DEF AllTold, ToldOf
<1>3. AllTold(e) \in Seq(ToldOf(T))
  BY <1>1, <1>2, SeqDef
<1>4. Len(AllTold(e)) \in Nat /\ 1..Len(AllTold(e)) = 1..Len(e)
  BY <1>2, <1>3, LenProperties
<1>5. ASSUME NEW m \in Nat, NEW n \in Nat, 1..m = 1..n PROVE m = n
  <2>1. m > n => m \in 1..m /\ m \notin 1..n
    OBVIOUS
  <2>2. n > m => n \in 1..n /\ n \notin 1..m
    OBVIOUS
  <2> QED BY <1>5, <2>1, <2>2
<1>6. Len(AllTold(e)) = Len(e)
  BY <1>1, <1>4, <1>5
<1> QED BY <1>2, <1>3, <1>6

LEMMA ToldEmpty == AllTold(<< >>) = << >>
<1>1. << >> \in Seq({}) /\ Len(<< >>) = 0
  BY EmptySeq
<1>2. AllTold(<< >>) \in Seq(ToldOf({})) /\ Len(AllTold(<< >>)) = 0
  BY <1>1, ToldIs
<1> QED BY <1>2, EmptySeq

LEMMA ToldAppend ==
    ASSUME NEW T, NEW e \in Seq(T), NEW t \in T
    PROVE  AllTold(Append(e, t)) = Append(AllTold(e), Told(t))
<1> DEFINE a == Append(e, t)  x == Told(t)  b == Append(AllTold(e), x)
<1>1. /\ a \in Seq(T) /\ Len(a) = Len(e) + 1 /\ Len(e) \in Nat
      /\ a[Len(e) + 1] = t /\ \A i \in 1..Len(e) : a[i] = e[i]
  BY AppendProperties, LenProperties
<1>2. /\ AllTold(e) \in Seq(ToldOf(T)) /\ Len(AllTold(e)) = Len(e)
      /\ \A i \in 1..Len(e) : AllTold(e)[i] = Told(e[i])
  BY ToldIs
<1>3. x \in ToldOf(T)
  BY DEF ToldOf
<1> HIDE DEF x
<1>4. /\ b \in Seq(ToldOf(T)) /\ Len(b) = Len(e) + 1 /\ b[Len(e) + 1] = x
      /\ \A i \in 1..Len(e) : b[i] = AllTold(e)[i]
  BY <1>2, <1>3, AppendProperties
<1> HIDE DEF a, b
<1>5. /\ AllTold(a) \in Seq(ToldOf(T)) /\ Len(AllTold(a)) = Len(e) + 1
      /\ \A i \in 1..Len(a) : AllTold(a)[i] = Told(a[i])
  BY <1>1, ToldIs
<1>6. ASSUME NEW i \in 1..Len(AllTold(a)) PROVE AllTold(a)[i] = b[i]
  <2>1. CASE i \in 1..Len(e)
    BY <1>1, <1>2, <1>4, <1>5, <2>1
  <2>2. CASE i = Len(e) + 1
    BY <1>1, <1>4, <1>5, <2>2 DEF x
  <2> QED BY <1>1, <1>5, <2>1, <2>2
<1>7. AllTold(a) = b
  BY <1>4, <1>5, <1>6, SeqEqual
<1> QED BY <1>7 DEF a, b, x

LEMMA ToldTail ==
    ASSUME NEW T, NEW e \in Seq(T), e # << >>
    PROVE  AllTold(e) # << >> /\ AllTold(Tail(e)) = Tail(AllTold(e))
<1> DEFINE a == Tail(e)  b == Tail(AllTold(e))
<1>1. /\ a \in Seq(T) /\ Len(a) = Len(e) - 1 /\ Len(e) \in Nat \ {0}
      /\ \A i \in 1..Len(a) : a[i] = e[i + 1]
  BY HeadTailProperties, EmptySeq
<1>2. /\ AllTold(e) \in Seq(ToldOf(T)) /\ Len(AllTold(e)) = Len(e)
      /\ \A i \in 1..Len(e) : AllTold(e)[i] = Told(e[i])
  BY ToldIs
<1>3. AllTold(e) # << >>
  BY <1>1, <1>2, EmptySeq
<1>4. /\ b \in Seq(ToldOf(T)) /\ Len(b) = Len(e) - 1
      /\ \A i \in 1..Len(b) : b[i] = AllTold(e)[i + 1]
  BY <1>2, <1>3, HeadTailProperties
<1> HIDE DEF a, b
<1>5. /\ AllTold(a) \in Seq(ToldOf(T)) /\ Len(AllTold(a)) = Len(e) - 1
      /\ \A i \in 1..Len(a) : AllTold(a)[i] = Told(a[i])
  BY <1>1, ToldIs
<1>6. ASSUME NEW i \in 1..Len(AllTold(a)) PROVE AllTold(a)[i] = b[i]
  <2>1. i \in 1..Len(a) /\ i \in 1..Len(b) /\ i + 1 \in 1..Len(e)
    BY <1>1, <1>4, <1>5
  <2> QED BY <1>1, <1>2, <1>4, <1>5, <2>1
<1>7. AllTold(a) = b
  BY <1>1, <1>4, <1>5, <1>6, SeqEqual
<1> QED BY <1>3, <1>7 DEF a, b

\* The events on a socket are of the workspace it was dialled for.
LEMMA OwnEvents ==
    ASSUME NEW r, SocketOk(r), WireOk(r)
    PROVE  Between(r.wire) \in Seq(EventsFor(r.tenant))
<1> DEFINE w == r.wire  o == IF Opened(w) THEN 1 ELSE 0  c == IF Closed(w) THEN 1 ELSE 0
           n == Len(w) - o - c  T == EventsFor(r.tenant)  b == Between(w)
<1>1. w \in Seq(FramesOf(r.tenant))
  BY DEF SocketOk
<1>2. /\ n \in Nat /\ o + n <= Len(w) /\ b \in Seq(FramesOf(r.tenant)) /\ Len(b) = n
      /\ \A i \in 1..n : b[i] = w[i + o]
  BY <1>1, BetweenIs
<1>3. Len(w) \in Nat /\ \A j \in 1..Len(w) : w[j] \in FramesOf(r.tenant)
  BY <1>1, LenProperties, ElementOfSeq
<1>4. /\ o \in {0, 1} /\ c \in {0, 1}
      /\ o = 0 <=> ~Opened(w)
      /\ c = 0 <=> ~Closed(w)
  OBVIOUS
<1>5. /\ \A j \in 1..Len(w) : w[j] = "open" => j = 1
      /\ \A j \in 1..Len(w) : w[j] \in Closing => j = Len(w)
  BY DEF WireOk
<1> HIDE DEF o, c
<1>6. ASSUME NEW i \in 1..n PROVE b[i] \in T
  <2>1. i + o \in 1..Len(w) /\ b[i] = w[i + o] /\ w # << >>
    BY <1>2, <1>3, <1>4, EmptySeq
  <2>2. w[i + o] # "open"
    <3>1. CASE w[i + o] = "open"
      <4>1. i + o = 1
        BY <1>5, <2>1, <3>1
      <4>2. o = 0 /\ w[1] = "open"
        BY <1>2, <1>4, <3>1, <4>1
      <4> QED BY <1>4, <2>1, <4>2 DEF Opened
    <3> QED BY <3>1
  <2>3. w[i + o] \notin Closing
    <3>1. CASE w[i + o] \in Closing
      <4>1. i + o = Len(w) /\ w[Len(w)] \in Closing
        BY <1>5, <2>1, <3>1
      <4>2. c = 0
        BY <1>2, <1>3, <1>4, <4>1
      <4> QED BY <1>4, <2>1, <4>1, <4>2 DEF Closed
    <3> QED BY <3>1
  <2> QED BY <1>3, <2>1, <2>2, <2>3 DEF FramesOf, Closing
<1> HIDE DEF n, w, T, b
<1>7. SubSeq(b, 1, Len(b)) \in Seq(T) /\ SubSeq(b, 1, Len(b)) = b
  BY <1>2, <1>6, SubSeqProperties, SubSeqFull
<1> QED BY <1>7 DEF w, T, b

Topic == IF holds[Me] = Null THEN Null ELSE client[holds[Me]].tenant
Status == IF holds[Me] = Null THEN "closed" ELSE client[holds[Me]].state
Carrying == MySocket.open /\ MySocket.up /\ MySocket.room # Null
Same == UNCHANGED <<Topic, Status, Carrying, MyEvents>>

\* The view of a component that listens, and of one that does not.
NoView == Topic = Null /\ Status = "closed" /\ ~Carrying /\ MyEvents = << >>
ViewOf(c) ==
    /\ Topic = client[c].tenant /\ Status = client[c].state
    /\ client[c].sock = Null => ~Carrying /\ MyEvents = << >>
    /\ client[c].sock # Null =>
         /\ Carrying <=> Carries(sock[client[c].sock])
         /\ MyEvents = AllTold(Between(sock[client[c].sock].wire))
Viewed ==
    /\ holds[Me] = Null => NoView
    /\ holds[Me] # Null => ViewOf(holds[Me])

LEMMA ViewHolds == Viewed /\ Viewed'
<1>1. AllTold(Between(<< >>)) = << >>
  BY NoEventsYet, ToldEmpty
<1>2. NoSocket.wire = << >> /\ ~NoSocket.open
  BY DEF NoSocket
<1>3. MyEvents = AllTold(Between(MySocket.wire))
  BY EventsBetween DEF MyEvents, AllTold
<1>4. MyEvents' = AllTold(Between(MySocket'.wire))
  BY EventsBetween DEF MyEvents, AllTold
<1>5. Viewed
  <2>1. CASE holds[Me] = Null
    <3>1. MySocket = NoSocket
      BY <2>1 DEF MySocket
    <3> QED BY <1>1, <1>2, <1>3, <2>1, <3>1 DEF Viewed, NoView, Topic, Status, Carrying
  <2>2. CASE holds[Me] # Null
    <3>1. MySocket = IF client[holds[Me]].sock = Null THEN NoSocket ELSE sock[client[holds[Me]].sock]
      BY <2>2 DEF MySocket
    <3> QED BY <1>1, <1>2, <1>3, <2>2, <3>1 DEF Viewed, ViewOf, Topic, Status, Carrying, Carries
  <2> QED BY <2>1, <2>2
<1>6. Viewed'
  <2>1. CASE holds'[Me] = Null
    <3>1. MySocket' = NoSocket
      BY <2>1 DEF MySocket
    <3> QED BY <1>1, <1>2, <1>4, <2>1, <3>1 DEF Viewed, NoView, Topic, Status, Carrying
  <2>2. CASE holds'[Me] # Null
    <3>1. MySocket' = IF client'[holds'[Me]].sock = Null THEN NoSocket
                      ELSE sock'[client'[holds'[Me]].sock]
      BY <2>2 DEF MySocket
    <3> QED BY <1>1, <1>2, <1>4, <2>2, <3>1 DEF Viewed, ViewOf, Topic, Status, Carrying, Carries
  <2> QED BY <2>1, <2>2
<1> QED BY <1>5, <1>6

LEMMA CarryingBoolean == Carrying \in BOOLEAN /\ Carrying' \in BOOLEAN
BY DEF Carrying

\* The steps of LiveChannel, on the view.
LEMMA Stutters == Same => UNCHANGED Channel!chan
BY DEF Same, Channel!chan, Topic, Status, Carrying

LEMMA Takes ==
    ASSUME Topic = Null, Topic' \in Tenants, Status' \in {"connecting", "open", "retrying"},
           MyEvents' \in Seq(ToldOf(EventsFor(Topic')))
    PROVE  Channel!ChannelNext
<1>1. ToldOf(EventsFor(Topic')) \subseteq {e \in Channel!Events : e.topic = Topic'}
  BY DEF ToldOf, EventsFor, Told, Channel!Events
<1>2. MyEvents' \in Seq({e \in Channel!Events : e.topic = Topic'})
  BY <1>1, SeqMonotonic
<1>3. Status' \in Channel!Statuses \ {"closed"}
  BY DEF Channel!Statuses
<1>4. Channel!Take(Topic')
  BY <1>2, <1>3, CarryingBoolean DEF Channel!Take, Topic, Status, Carrying
<1> QED BY <1>4 DEF Channel!ChannelNext

LEMMA Leaves ==
    ASSUME Topic # Null, Topic' = Null, Status' = "closed", ~Carrying', MyEvents' = << >>
    PROVE  Channel!ChannelNext
<1>1. Carrying' = FALSE
  BY CarryingBoolean
<1>2. Channel!Leave
  BY <1>1 DEF Channel!Leave, Topic, Status, Carrying
<1> QED BY <1>2 DEF Channel!ChannelNext

LEMMA OpensOrDelivers ==
    ASSUME UNCHANGED <<Topic, Carrying>>, Status' = "open",
           \/ Status = "connecting" /\ MyEvents' = MyEvents
           \/ Status = "open" /\ MyEvents # << >> /\ MyEvents' = Tail(MyEvents)
    PROVE  Channel!ChannelNext
<1>1. CASE Status = "connecting" /\ MyEvents' = MyEvents
  <2>1. Channel!Opens
    BY <1>1 DEF Channel!Opens, Topic, Status, Carrying
  <2> QED BY <2>1 DEF Channel!ChannelNext
<1>2. CASE Status = "open" /\ MyEvents # << >> /\ MyEvents' = Tail(MyEvents)
  <2>1. Channel!Deliver
    BY <1>2 DEF Channel!Deliver, Topic, Status, Carrying
  <2> QED BY <2>1 DEF Channel!ChannelNext
<1> QED BY <1>1, <1>2

LEMMA EndsOrRedials ==
    ASSUME UNCHANGED Topic, ~Carrying', MyEvents' = << >>,
           \/ Status \in {"connecting", "open"} /\ Status' \in {"retrying", "closed"}
           \/ /\ Status = "retrying" /\ Status' = "connecting"
              /\ ~Carrying /\ MyEvents = << >>
    PROVE  Channel!ChannelNext
<1>1. Carrying' = FALSE
  BY CarryingBoolean
<1>2. CASE Status \in {"connecting", "open"} /\ Status' \in {"retrying", "closed"}
  <2>1. Channel!Ends
    BY <1>1, <1>2 DEF Channel!Ends, Topic, Status, Carrying
  <2> QED BY <2>1 DEF Channel!ChannelNext
<1>3. CASE Status = "retrying" /\ Status' = "connecting" /\ ~Carrying /\ MyEvents = << >>
  <2>1. UNCHANGED Carrying /\ UNCHANGED MyEvents
    <3>1. Carrying = FALSE
      BY <1>3, CarryingBoolean
    <3> QED BY <1>1, <1>3, <3>1
  <2>2. Channel!Redials
    BY <1>3, <2>1 DEF Channel!Redials, Topic, Status, Carrying
  <2> QED BY <2>2 DEF Channel!ChannelNext
<1> QED BY <1>2, <1>3

LEMMA BindsOrFades ==
    ASSUME UNCHANGED <<Topic, Status>>, Status \in {"connecting", "open"},
           \/ MyEvents' = MyEvents
           \/ MyEvents' = << >> /\ ~Carrying'
    PROVE  Channel!ChannelNext \/ Same
<1>1. CASE ~Carrying'
  <2>1. Carrying' = FALSE
    BY <1>1, CarryingBoolean
  <2>2. Channel!Fades
    BY <2>1 DEF Channel!Fades, Topic, Status, Carrying
  <2> QED BY <2>2 DEF Channel!ChannelNext
<1>2. CASE Carrying' /\ Carrying
  <2>1. UNCHANGED Carrying
    BY <1>2, CarryingBoolean
  <2> QED BY <1>2, <2>1 DEF Same
<1>3. CASE Carrying' /\ ~Carrying
  <2>1. Carrying' = TRUE /\ Carrying = FALSE
    BY <1>3, CarryingBoolean
  <2>2. Channel!Binds
    BY <1>3, <2>1 DEF Channel!Binds, Topic, Status, Carrying
  <2> QED BY <2>2 DEF Channel!ChannelNext
<1> QED BY <1>1, <1>2, <1>3

LEMMA Publishes ==
    ASSUME UNCHANGED <<Topic, Status>>, Carrying, Carrying', NEW x \in EventsFor(Topic),
           MyEvents' = Append(MyEvents, Told(x))
    PROVE  Channel!ChannelNext
<1> DEFINE e == Told(x)
<1>1. e \in Channel!Events /\ e.topic = Topic
  BY RealtimeAssumption DEF EventsFor, Told, Channel!Events
<1>2. MyEvents' = Append(MyEvents, e)
  OBVIOUS
<1> HIDE DEF e
<1>3. UNCHANGED Carrying
  BY CarryingBoolean
<1>4. Channel!Publish(e)
  BY <1>1, <1>2, <1>3 DEF Channel!Publish, Topic, Status, Carrying
<1> QED BY <1>1, <1>4 DEF Channel!ChannelNext

-----------------------------------------------------------------------------
(* Every step of Realtime is one of the channel or changes nothing of it.   *)

\* The connection of the component is not touched.
LEMMA Untouched ==
    ASSUME holds'[Me] = holds[Me],
           \/ holds[Me] = Null
           \/ /\ client'[holds[Me]] = client[holds[Me]]
              /\ client[holds[Me]].sock # Null =>
                    sock'[client[holds[Me]].sock] = sock[client[holds[Me]].sock]
    PROVE  Same
<1>1. CASE holds[Me] = Null
  <2>1. NoView /\ NoView'
    BY <1>1, ViewHolds DEF Viewed
  <2>2. UNCHANGED Carrying
    BY <2>1, CarryingBoolean DEF NoView
  <2> QED BY <2>1, <2>2 DEF NoView, Same
<1>2. CASE holds[Me] # Null
  <2> DEFINE c == holds[Me]  s == client[c].sock
  <2>1. client'[c] = client[c] /\ holds'[Me] = c /\ (s # Null => sock'[s] = sock[s])
    BY <1>2
  <2>2. ViewOf(c) /\ ViewOf(holds[Me])'
    BY <1>2, ViewHolds DEF Viewed
  <2>3. UNCHANGED Carrying
    BY <2>1, <2>2, CarryingBoolean DEF ViewOf
  <2>4. UNCHANGED <<Topic, Status, MyEvents>>
    BY <2>1, <2>2 DEF ViewOf
  <2> QED BY <2>3, <2>4 DEF Same
<1> QED BY <1>1, <1>2

\* What the gateway and the network do to the component's socket.
LEMMA GatewayMaps ==
    ASSUME RealtimeInv, WireInv, GatewayStep
    PROVE  Channel!ChannelNext \/ Same
<1>1. /\ UNCHANGED <<client, holds>> /\ \A s \in Sockets : Moves(sock[s], sock'[s])
  BY GatewayMoves DEF page
<1>2. CASE holds[Me] = Null \/ client[holds[Me]].sock = Null
  BY <1>1, <1>2, Untouched
<1>3. CASE holds[Me] # Null /\ client[holds[Me]].sock # Null
  <2> DEFINE c == holds[Me]  s == client[c].sock  r == sock[s]  q == sock'[s]
  <2>1. /\ c \in Clients /\ s \in Sockets /\ SocketOk(r) /\ WireOk(r) /\ r.there
        /\ client[c].state \in {"connecting", "open"} /\ r.tenant = client[c].tenant
    BY <1>3, RealtimeAssumption DEF RealtimeInv, Types, Wired, ClientOk, WireInv
  <2>2. /\ Topic = client[c].tenant /\ Status = client[c].state
        /\ Topic' = Topic /\ Status' = Status
        /\ Carrying <=> Carries(r)
        /\ Carrying' <=> Carries(q)
        /\ MyEvents = AllTold(Between(r.wire)) /\ MyEvents' = AllTold(Between(q.wire))
    BY <1>1, <1>3, ViewHolds DEF Viewed, ViewOf
  <2>3. \/ Between(q.wire) = Between(r.wire)
        \/ Between(q.wire) = << >> /\ ~Carries(q)
        \/ /\ Carries(r) /\ Carries(q)
           /\ \E e \in EventsFor(r.tenant) : Between(q.wire) = Append(Between(r.wire), e)
    BY <1>1, <2>1 DEF Moves
  <2> HIDE DEF c, s, r, q
  <2>4. CASE Between(q.wire) = Between(r.wire) \/ (Between(q.wire) = << >> /\ ~Carries(q))
    BY <2>1, <2>2, <2>4, ToldEmpty, BindsOrFades
  <2>5. ASSUME NEW e \in EventsFor(r.tenant), Carries(r), Carries(q),
               Between(q.wire) = Append(Between(r.wire), e)
        PROVE  Channel!ChannelNext
    <3>1. Between(r.wire) \in Seq(EventsFor(r.tenant))
      BY <2>1, OwnEvents
    <3>2. MyEvents' = Append(MyEvents, Told(e))
      BY <2>2, <2>5, <3>1, ToldAppend
    <3> QED BY <2>1, <2>2, <2>5, <3>2, Publishes
  <2> QED BY <2>3, <2>4, <2>5
<1> QED BY <1>2, <1>3

\* The component's client takes a frame, or another one does.
LEMMA FrameMaps ==
    ASSUME RealtimeInv, WireInv, NEW s \in Sockets, Frame(s)
    PROVE  Channel!ChannelNext \/ Same
<1> DEFINE c == sock[s].by  r == sock[s]  q == sock'[s]
<1>1. /\ UNCHANGED holds
      /\ c \in Clients /\ client[c].sock = s /\ client[c].tenant = r.tenant
      /\ client'[c].tenant = client[c].tenant
      /\ client[c].state \in {"connecting", "open"}
      /\ \/ client'[c].sock = Null /\ client'[c].state \in {"retrying", "closed"}
         \/ /\ client'[c].sock = s /\ client'[c].state = "open"
            /\ Carries(q) <=> Carries(r)
            /\ \/ client[c].state = "connecting" /\ Between(q.wire) = Between(r.wire)
               \/ /\ client[c].state = "open" /\ Between(r.wire) # << >>
                  /\ Between(q.wire) = Tail(Between(r.wire))
      /\ \A d \in Clients \ {c} :
            /\ client'[d] = client[d]
            /\ client[d].sock # Null => sock'[client[d].sock] = sock[client[d].sock]
  <2> DEFINE k == sock[s].by
  <2>1. k = sock[s].by
    OBVIOUS
  <2> HIDE DEF k
  <2> QED BY <2>1, FrameWires DEF page
<1>2. /\ SocketOk(r) /\ WireOk(r) /\ s # Null
      /\ holds[Me] \in Clients \cup {Null}
  BY RealtimeAssumption DEF RealtimeInv, Types, Wired, WireInv
<1> HIDE DEF c, r, q
<1>3. CASE holds[Me] # c
  BY <1>1, <1>2, <1>3, Untouched
<1>4. CASE holds[Me] = c
  <2>1. /\ Topic = client[c].tenant /\ Topic' = Topic
        /\ Status = client[c].state /\ Status' = client'[c].state
        /\ Carrying <=> Carries(r)
        /\ MyEvents = AllTold(Between(r.wire))
        /\ client'[c].sock = Null => ~Carrying' /\ MyEvents' = << >>
        /\ client'[c].sock = s =>
             (Carrying' <=> Carries(q)) /\ MyEvents' = AllTold(Between(q.wire))
    BY <1>1, <1>2, <1>4, RealtimeAssumption, ViewHolds DEF Viewed, ViewOf, r, q
  <2>2. CASE client'[c].sock = Null /\ client'[c].state \in {"retrying", "closed"}
    BY <1>1, <2>1, <2>2, EndsOrRedials
  <2>3. CASE client'[c].sock = s /\ client'[c].state = "open" /\ (Carries(q) <=> Carries(r))
    <3>1. UNCHANGED Carrying
      BY <2>1, <2>3, CarryingBoolean
    <3>2. CASE client[c].state = "connecting" /\ Between(q.wire) = Between(r.wire)
      BY <2>1, <2>3, <3>1, <3>2, OpensOrDelivers
    <3>3. CASE /\ client[c].state = "open" /\ Between(r.wire) # << >>
               /\ Between(q.wire) = Tail(Between(r.wire))
      <4>1. Between(r.wire) \in Seq(EventsFor(r.tenant))
        BY <1>2, OwnEvents
      <4>2. MyEvents # << >> /\ MyEvents' = Tail(MyEvents)
        BY <2>1, <2>3, <3>3, <4>1, ToldTail
      <4> QED BY <2>1, <2>3, <3>1, <3>3, <4>2, OpensOrDelivers
    <3> QED BY <1>1, <1>2, <2>3, <3>2, <3>3
  <2> QED BY <1>1, <2>2, <2>3
<1> QED BY <1>3, <1>4

LEMMA ReopenMaps ==
    ASSUME RealtimeInv, WireInv, NEW c \in Clients, RetryFires(c) \/ Online(c)
    PROVE  Channel!ChannelNext \/ Same
<1>1. /\ UNCHANGED holds
      /\ client[c].state = "retrying" /\ client[c].sock = Null
      /\ client'[c].state = "connecting" /\ client'[c].tenant = client[c].tenant
      /\ client'[c].sock \in Sockets
      /\ sock'[client'[c].sock] = Dialed(c, client[c].tenant)
      /\ \A d \in Clients \ {c} :
            /\ client'[d] = client[d]
            /\ client[d].sock # Null => sock'[client[d].sock] = sock[client[d].sock]
  BY ReopenWires DEF page
<1>2. holds[Me] \in Clients \cup {Null} /\ c # Null /\ client'[c].sock # Null
  BY <1>1, RealtimeAssumption DEF RealtimeInv, Types
<1>3. CASE holds[Me] # c
  BY <1>1, <1>2, <1>3, Untouched
<1>4. CASE holds[Me] = c
  <2>1. /\ Between(sock'[client'[c].sock].wire) = << >> /\ ~Carries(sock'[client'[c].sock])
    BY <1>1, DialedWire
  <2>2. /\ UNCHANGED Topic /\ Status = "retrying" /\ Status' = "connecting"
        /\ ~Carrying /\ MyEvents = << >> /\ ~Carrying' /\ MyEvents' = AllTold(<< >>)
    BY <1>1, <1>2, <1>4, <2>1, ViewHolds DEF Viewed, ViewOf
  <2> QED BY <2>2, ToldEmpty, EndsOrRedials
<1> QED BY <1>3, <1>4

LEMMA AcquireMaps ==
    ASSUME RealtimeInv, WireInv, RealtimeInv', WireInv', NEW h \in Hooks, Acquire(h)
    PROVE  Channel!ChannelNext \/ Same
<1>1. /\ holds[h] = Null /\ holds'[h] \in Clients /\ client'[holds'[h]].state # "closed"
      /\ \A g \in Hooks \ {h} : holds'[g] = holds[g]
      /\ \A d \in Clients : client[d].tenant # Null =>
            /\ client'[d] = client[d]
            /\ client[d].sock # Null => sock'[client[d].sock] = sock[client[d].sock]
  BY AcquireWires
<1>2. CASE h # Me
  <2>1. holds'[Me] = holds[Me]
    BY <1>1, <1>2, RealtimeAssumption
  <2>2. \/ holds[Me] = Null
        \/ holds[Me] \in Clients /\ client[holds[Me]].tenant # Null
    BY RealtimeAssumption DEF RealtimeInv, Types, Reachable
  <2> QED BY <1>1, <2>1, <2>2, Untouched
<1>3. CASE h = Me
  <2> DEFINE c == holds'[Me]  s == client'[c].sock  r == sock'[s]
  <2>1. /\ holds[Me] = Null /\ c \in Clients /\ c # Null
        /\ client'[c].state \in {"connecting", "open", "retrying"}
        /\ client'[c].tenant \in Tenants
    BY <1>1, <1>3, RealtimeAssumption DEF RealtimeInv, Types, Reachable
  <2>2. NoView /\ ViewOf(holds[Me])'
    BY <2>1, ViewHolds DEF Viewed
  <2>3. /\ Topic = Null /\ Topic' = client'[c].tenant /\ Status' = client'[c].state
        /\ s = Null => MyEvents' = << >>
        /\ s # Null => MyEvents' = AllTold(Between(r.wire))
    BY <2>2 DEF NoView, ViewOf
  <2>4. s # Null => /\ SocketOk(r) /\ WireOk(r) /\ r.tenant = client'[c].tenant
    BY <2>1 DEF RealtimeInv, Types, Wired, WireInv
  <2> HIDE DEF c, s, r
  <2>5. MyEvents' \in Seq(ToldOf(EventsFor(Topic')))
    <3>1. CASE s = Null
      BY <2>3, <3>1, EmptySeq
    <3>2. CASE s # Null
      <4>1. Between(r.wire) \in Seq(EventsFor(r.tenant))
        BY <2>4, <3>2, OwnEvents
      <4>2. AllTold(Between(r.wire)) \in Seq(ToldOf(EventsFor(r.tenant)))
        BY <4>1, ToldIs
      <4> QED BY <2>3, <2>4, <3>2, <4>2
    <3> QED BY <3>1, <3>2
  <2> QED BY <2>1, <2>3, <2>5, Takes
<1> QED BY <1>2, <1>3

\* The hooks of a set let go.
LEMMA LetGoMaps ==
    ASSUME RealtimeInv, NEW hs \in SUBSET Hooks, LetGo(hs), UNCHANGED <<client, sock>>
    PROVE  Channel!ChannelNext \/ Same
<1>1. holds'[Me] = IF Me \in hs THEN Null ELSE holds[Me]
  BY RealtimeAssumption DEF LetGo
<1>2. CASE holds'[Me] = holds[Me]
  <2>1. MySocket' = MySocket
    BY <1>2 DEF MySocket
  <2>2. MyEvents = AllTold(Between(MySocket.wire)) /\ MyEvents' = AllTold(Between(MySocket'.wire))
    BY EventsBetween DEF MyEvents, AllTold
  <2> QED BY <1>2, <2>1, <2>2 DEF Same, Topic, Status, Carrying
<1>3. CASE holds[Me] # Null /\ holds'[Me] = Null
  <2>1. ViewOf(holds[Me]) /\ NoView'
    BY <1>3, ViewHolds DEF Viewed
  <2>2. Topic # Null
    BY <1>3, <2>1, RealtimeAssumption DEF ViewOf, RealtimeInv, Reachable
  <2> QED BY <2>1, <2>2, Leaves DEF NoView
<1> QED BY <1>1, <1>2, <1>3

LEMMA ChannelStep ==
    ASSUME RealtimeInv, WireInv, RealtimeInv', WireInv', [Next]_vars
    PROVE  [Channel!ChannelNext]_(Channel!chan)
<1> SUFFICES Channel!ChannelNext \/ Same
  BY Stutters
<1>1. CASE UNCHANGED vars
  BY <1>1, Untouched DEF vars
<1>2. CASE PageOnly
  <2>1. ASSUME NEW h \in Hooks, Release(h) PROVE Channel!ChannelNext \/ Same
    BY <2>1, LetGoMaps DEF Release
  <2>2. CASE SwitchWorkspace
    BY <2>2, LetGoMaps DEF SwitchWorkspace
  <2>3. CASE TokenArrives
    BY <2>3, Untouched DEF TokenArrives
  <2> QED BY <1>2, <2>1, <2>2, <2>3 DEF PageOnly
<1>3. ASSUME NEW c \in Clients, Reap(c) PROVE Same
  <2>1. /\ UNCHANGED holds /\ holds[Me] # c /\ holds[Me] \in Clients \cup {Null}
        /\ \A d \in Clients \ {c} :
              /\ client'[d] = client[d]
              /\ client[d].sock # Null => sock'[client[d].sock] = sock[client[d].sock]
    BY <1>3, ReapWires, RealtimeAssumption DEF RealtimeInv, Types
  <2> QED BY <2>1, Untouched
<1> QED BY <1>1, <1>2, <1>3, StepKinds, GatewayMaps, FrameMaps, ReopenMaps, AcquireMaps

\* Registry, client and gateway (use-realtime.ts, client.ts, gateway.ts) give a
\* component what LiveChannel promises, for any number of components, sockets,
\* workspaces, events and faults: of the events on their way to it each once
\* and in order, of its own workspace only, through an open connection, and
\* never a start on one that was refused.
THEOREM ImplementsLiveChannel == Spec => ImplementsChannel
<1>1. Init => Channel!ChannelInit
  <2> SUFFICES ASSUME Init PROVE Channel!ChannelInit
    OBVIOUS
  <2>1. holds[Me] = Null
    BY RealtimeAssumption DEF Init
  <2>2. NoView
    BY <2>1, ViewHolds DEF Viewed
  <2>3. Carrying = FALSE
    BY <2>2, CarryingBoolean DEF NoView
  <2> QED BY <2>2, <2>3 DEF NoView, Channel!ChannelInit, Topic, Status, Carrying
<1>2. RealtimeInv /\ WireInv /\ RealtimeInv' /\ WireInv' /\ [Next]_vars
        => [Channel!ChannelNext]_(Channel!chan)
  BY ChannelStep
<1> QED BY <1>1, <1>2, InvInit, InvStep, WiresInit, WiresStep, PTL
        DEF Spec, ImplementsChannel, Channel!ChannelSpec
=============================================================================
