---------------------------- MODULE LiveChannel -----------------------------
(* What a component of the web app may rely on of its live connection      *)
(* (useRealtime and useRealtimeStatus, apps/web/lib/realtime): a status,   *)
(* and events of the workspace it asked for, in order, some of them        *)
(* missing. "open" does not mean that events arrive. Realtime implements   *)
(* it; SyncCard is built on it.                                            *)
EXTENDS Naturals, Sequences

CONSTANTS
    Topics,   \* workspaces
    Kinds,    \* what an event says
    Null

VARIABLES
    topic,      \* the workspace asked for, Null while no connection is held
    status,     \* what the status badge shows
    carrying,   \* whether an event published now is on its way here
    wire        \* the events on their way

chan == <<topic, status, carrying, wire>>

Statuses == {"connecting", "open", "retrying", "closed"}
Events == [topic : Topics, kind : Kinds]

ChannelInit ==
    /\ topic = Null
    /\ status = "closed"
    /\ carrying = FALSE
    /\ wire = << >>

\* A component that starts listening shares the connection there is.
Take(t) ==
    /\ topic = Null
    /\ topic' = t
    /\ status' \in Statuses \ {"closed"}
    /\ carrying' \in BOOLEAN
    /\ wire' \in Seq({e \in Events : e.topic = t})

Leave ==
    /\ topic # Null
    /\ topic' = Null
    /\ status' = "closed"
    /\ carrying' = FALSE
    /\ wire' = << >>

Opens ==
    /\ status = "connecting"
    /\ status' = "open"
    /\ UNCHANGED <<topic, carrying, wire>>

\* A lost connection is tried again; a refused one is not.
Ends ==
    /\ status \in {"connecting", "open"}
    /\ status' \in {"retrying", "closed"}
    /\ carrying' = FALSE
    /\ wire' = << >>
    /\ UNCHANGED topic

Redials ==
    /\ status = "retrying"
    /\ status' = "connecting"
    /\ UNCHANGED <<topic, carrying, wire>>

\* The gateway admits a socket that already reads as open, or is about to.
Binds ==
    /\ status \in {"connecting", "open"}
    /\ carrying = FALSE /\ carrying' = TRUE
    /\ UNCHANGED <<topic, status, wire>>

\* The gateway lets go of it, or the network dies, and nobody here knows.
Fades ==
    /\ status \in {"connecting", "open"}
    /\ carrying' = FALSE
    /\ wire' \in {wire, << >>}
    /\ UNCHANGED <<topic, status>>

Publish(e) ==
    /\ e.topic = topic
    /\ wire' = IF carrying THEN Append(wire, e) ELSE wire
    /\ UNCHANGED <<topic, status, carrying>>

\* Nothing arrives but through an open connection, and only what is next.
Deliver ==
    /\ status = "open"
    /\ wire # << >>
    /\ wire' = Tail(wire)
    /\ UNCHANGED <<topic, status, carrying>>

ChannelNext ==
    \/ \E t \in Topics : Take(t)
    \/ Leave \/ Opens \/ Ends \/ Redials \/ Binds \/ Fades \/ Deliver
    \/ \E e \in Events : Publish(e)

ChannelSpec == ChannelInit /\ [][ChannelNext]_chan
=============================================================================
