--------------------------- MODULE SyncCardProofs ---------------------------
(* Theorems about SyncCard: its types, what it asks of the live connection,  *)
(* and that a run shown as over is over and ended as it is shown.            *)
EXTENDS SyncCard, FiniteSetTheorems, SequenceTheorems, TLAPS

\* There is room for the run that waits, and rows are there up to the latest.
CardInv ==
    /\ TypeOK
    /\ IsFiniteSet(answers)
    /\ job = "waiting" => latest < MaxRuns
    /\ \A n \in 0..MaxRuns : n = 0 \/ n > latest => rows[n] = "none"

\* What the card and the answers on their way know of the rows: a row once
\* read as over still says the same.
StillSo(r) == Over(r) => rows[r.run] = r.is

Remembered ==
    /\ StillSo(card.shown) /\ StillSo(card.prop)
    /\ \A a \in answers : StillSo(a.row)

-----------------------------------------------------------------------------
(* Types.                                                                    *)

Card == [shown : Rows, prop : Rows, queued : BOOLEAN, gaveUp : BOOLEAN,
         pressed : 0..MaxRuns \cup {Null}]
ChannelTypes ==
    /\ topic \in Topics \cup {Null} /\ status \in Statuses
    /\ carrying \in BOOLEAN
    /\ wire \in Seq(Events) /\ Len(wire) <= MaxWire
ServerTypes ==
    /\ job \in {"none", "waiting", "active"}
    /\ rows \in [0..MaxRuns -> RowStates] /\ latest \in 0..MaxRuns
    /\ telling \in 1..MaxRuns \cup {Null}
    /\ job = "waiting" => latest < MaxRuns
    /\ \A n \in 0..MaxRuns : n = 0 \/ n > latest => rows[n] = "none"
PageTypes ==
    /\ card \in Card
    /\ asks \subseteq Requests
    /\ answers \subseteq [to : Requests, row : Rows]
    /\ IsFiniteSet(answers) /\ Cardinality(answers) <= MaxAnswers
    /\ faults \in 0..MaxFaults

LEMMA InParts == CardInv <=> ChannelTypes /\ ServerTypes /\ PageTypes
BY DEF CardInv, TypeOK, ChannelTypes, ServerTypes, PageTypes, Card

LEMMA RowTyped == ServerTypes => row \in Rows /\ (row.is = "running" => latest \in 1..MaxRuns)
BY DEF ServerTypes, row, Rows

LEMMA SeededTyped == ASSUME NEW r \in Rows PROVE Seeded(r) \in Card
BY DEF Seeded, Card

LEMMA NoEvents == << >> \in Seq(Events) /\ Len(<< >>) <= MaxWire
<1>1. << >> \in Seq(Events) /\ Len(<< >>) = 0
  BY EmptySeq
<1> QED BY <1>1, CardAssumption

LEMMA CardInit == Init => CardInv
<1> SUFFICES ASSUME Init PROVE CardInv
  OBVIOUS
<1>1. ChannelTypes
  BY NoEvents DEF Init, ChannelInit, ChannelTypes, Statuses
<1>2. ServerTypes
  <2>1. PICK end \in MayEnd[1] :
           rows = [n \in 0..MaxRuns |-> IF n = 1 /\ latest = 1 THEN end ELSE "none"]
    BY DEF Init
  <2>2. end \in RowStates /\ latest \in 0..MaxRuns
    BY CardAssumption DEF RowStates, Init
  <2>3. rows \in [0..MaxRuns -> RowStates]
    BY <2>1, <2>2 DEF RowStates
  <2>4. \A n \in 0..MaxRuns : n = 0 \/ n > latest => rows[n] = "none"
    BY <2>1, <2>2
  <2>5. job = "none" /\ telling = Null
    BY DEF Init
  <2> QED BY <2>2, <2>3, <2>4, <2>5 DEF ServerTypes
<1>3. PageTypes
  BY <1>2, CardAssumption, FS_EmptySet, SeededTyped, RowTyped DEF Init, PageTypes
<1> QED BY <1>1, <1>2, <1>3, InParts

\* Announcing is publishing, to the workspace the connection is for.
LEMMA AnnouncedIsPublished ==
    ASSUME ChannelTypes, NEW n \in 1..MaxRuns, NEW says \in {"progress", "done"},
           Announced(says, n)
    PROVE  ChannelTypes' /\ [ChannelNext]_chan
<1>1. CASE topic = Null
  BY <1>1 DEF Announced, ChannelTypes, chan
<1>2. CASE topic # Null
  <2> DEFINE e == [topic |-> topic, kind |-> [run |-> n, says |-> says]]
  <2>1. e \in Events /\ Len(wire) < MaxWire /\ Publish(e)
    BY <1>2, KindsAssumption DEF Announced, ChannelTypes, Events
  <2> HIDE DEF e
  <2>2. ChannelTypes'
    BY <2>1, AppendProperties, CardAssumption DEF ChannelTypes, Publish
  <2> QED BY <2>1, <2>2 DEF ChannelNext
<1> QED BY <1>1, <1>2

LEMMA ConnectionTyped ==
    ASSUME ChannelTypes,
           Listens \/ Opens \/ Binds \/ Redials \/ Ends \/ Fades \/ Leave \/ Deliver
    PROVE  ChannelTypes' /\ ChannelNext
<1>1. CASE Listens
  BY <1>1, NoEvents DEF Listens, Take, ChannelTypes, ChannelNext
<1>2. CASE Opens \/ Binds \/ Redials
  BY <1>2 DEF Opens, Binds, Redials, ChannelTypes, ChannelNext, Statuses
<1>3. CASE Ends \/ Fades \/ Leave
  BY <1>3, NoEvents DEF Ends, Fades, Leave, ChannelTypes, ChannelNext, Statuses
<1>4. CASE Deliver
  <2>1. Tail(wire) \in Seq(Events) /\ Len(Tail(wire)) = Len(wire) - 1
    BY <1>4, HeadTailProperties DEF Deliver, ChannelTypes
  <2>2. Len(wire) \in Nat
    BY LenProperties DEF ChannelTypes
  <2> QED BY <1>4, <2>1, <2>2, CardAssumption DEF Deliver, ChannelTypes, ChannelNext
<1> QED BY <1>1, <1>2, <1>3, <1>4

LEMMA HeadIsKnown ==
    ASSUME ChannelTypes, Deliver
    PROVE  Head(wire).kind \in [run : 1..MaxRuns, says : {"progress", "done"}]
<1>1. Head(wire) \in Events
  BY HeadTailProperties DEF ChannelTypes, Deliver
<1> QED BY <1>1, KindsAssumption DEF Events

\* A step of the program keeps the types and uses the connection as it may.
LEMMA CardStep ==
    ASSUME CardInv, [Next]_vars
    PROVE  CardInv' /\ [ChannelNext]_chan
<1>0. ChannelTypes /\ ServerTypes /\ PageTypes
  BY InParts
<1> SUFFICES ChannelTypes' /\ ServerTypes' /\ PageTypes' /\ [ChannelNext]_chan
  BY DEF CardInv, TypeOK, ChannelTypes, ServerTypes, PageTypes, Card
<1>1. ASSUME UNCHANGED chan PROVE ChannelTypes' /\ [ChannelNext]_chan
  BY <1>0, <1>1 DEF chan, ChannelTypes
<1>2. ASSUME UNCHANGED server PROVE ServerTypes'
  BY <1>0, <1>2 DEF server, ServerTypes
<1>3. ASSUME UNCHANGED <<card, requests, faults>> PROVE PageTypes'
  BY <1>0, <1>3 DEF requests, PageTypes
<1>4. CASE OthersEnqueue \/ RunOpens \/ RunEnds
  <2>1. ServerTypes'
    <3>1. CASE OthersEnqueue
      BY <1>0, <3>1 DEF OthersEnqueue, ServerTypes
    <3>2. CASE RunOpens
      <4>1. latest + 1 \in 1..MaxRuns /\ rows' \in [0..MaxRuns -> RowStates]
        BY <1>0, <3>2, CardAssumption DEF RunOpens, ServerTypes, RowStates
      <4>2. \A n \in 0..MaxRuns : n = 0 \/ n > latest' => rows'[n] = "none"
        BY <1>0, <3>2, <4>1 DEF RunOpens, ServerTypes
      <4> QED BY <1>0, <3>2, <4>1, <4>2 DEF RunOpens, ServerTypes
    <3>3. CASE RunEnds
      <4>1. latest \in 1..MaxRuns
        BY <1>0, <3>3, RowTyped DEF RunEnds
      <4>2. PICK end \in MayEnd[latest] :
               /\ rows' = [rows EXCEPT ![latest] = end]
               /\ \/ telling' = latest /\ job' \in {"active", "none"}
                  \/ latest < MaxRuns /\ job' = "waiting" /\ UNCHANGED telling
        BY <3>3 DEF RunEnds
      <4>3. end \in RowStates /\ latest' = latest
        BY <3>3, <4>1, CardAssumption DEF RowStates, RunEnds
      <4>4. rows' \in [0..MaxRuns -> RowStates]
        BY <1>0, <4>1, <4>2, <4>3 DEF ServerTypes
      <4>5. \A n \in 0..MaxRuns : n = 0 \/ n > latest' => rows'[n] = "none"
        BY <1>0, <4>1, <4>2, <4>3 DEF ServerTypes
      <4> QED BY <1>0, <4>1, <4>2, <4>3, <4>4, <4>5 DEF ServerTypes
    <3> QED BY <1>4, <3>1, <3>2, <3>3
  <2> QED BY <1>1, <1>3, <1>4, <2>1 DEF OthersEnqueue, RunOpens, RunEnds
<1>5. CASE RunTicks
  <2>1. latest \in 1..MaxRuns
    BY <1>0, <1>5, RowTyped DEF RunTicks
  <2> QED BY <1>0, <1>2, <1>3, <1>5, <2>1, AnnouncedIsPublished DEF RunTicks
<1>6. CASE EndAnnounced
  <2>1. telling \in 1..MaxRuns
    BY <1>0, <1>6 DEF EndAnnounced, ServerTypes
  <2>2. ServerTypes'
    BY <1>0, <1>6 DEF EndAnnounced, ServerTypes
  <2> QED BY <1>0, <1>3, <1>6, <2>1, <2>2, AnnouncedIsPublished DEF EndAnnounced
<1>7. CASE Press
  <2>1. ServerTypes'
    BY <1>0, <1>7 DEF Press, ServerTypes
  <2>2. PageTypes'
    BY <1>0, <1>7 DEF Press, PageTypes, ServerTypes, Card, Rows, requests
  <2> QED BY <1>1, <1>7, <2>1, <2>2 DEF Press
<1>8. CASE PressAnswered \/ GiveUp
  <2>1. PageTypes'
    BY <1>0, <1>8 DEF PressAnswered, GiveUp, PageTypes, Card, requests
  <2> QED BY <1>1, <1>2, <1>8, <2>1 DEF PressAnswered, GiveUp
<1>9. CASE Poll
  <2>1. PageTypes'
    BY <1>0, <1>9 DEF Poll, PageTypes, Requests
  <2> QED BY <1>1, <1>2, <1>9, <2>1 DEF Poll
<1>10. ASSUME NEW k \in Requests, ServerReads(k) PROVE ChannelTypes' /\ ServerTypes' /\ PageTypes' /\ [ChannelNext]_chan
  <2> DEFINE a == [to |-> k, row |-> row]
  <2>1. a \in [to : Requests, row : Rows] /\ answers' = answers \cup {a}
    BY <1>0, <1>10, RowTyped DEF ServerReads
  <2> HIDE DEF a
  <2>2. IsFiniteSet(answers') /\ Cardinality(answers') <= Cardinality(answers) + 1
    <3>1. IsFiniteSet(answers) /\ Cardinality(answers) \in Nat
      BY <1>0, FS_CardinalityType DEF PageTypes
    <3>2. /\ IsFiniteSet(answers \cup {a})
          /\ \/ Cardinality(answers \cup {a}) = Cardinality(answers)
             \/ Cardinality(answers \cup {a}) = Cardinality(answers) + 1
      BY <3>1, FS_AddElement
    <3> QED BY <2>1, <3>1, <3>2
  <2>3. Cardinality(answers') <= MaxAnswers
    BY <1>0, <1>10, <2>2, FS_CardinalityType, CardAssumption DEF ServerReads, PageTypes
  <2>4. PageTypes'
    BY <1>0, <1>10, <2>1, <2>2, <2>3 DEF ServerReads, PageTypes
  <2> QED BY <1>1, <1>2, <1>10, <2>4 DEF ServerReads
<1>11. ASSUME NEW a \in answers PROVE IsFiniteSet(answers \ {a}) /\ Cardinality(answers \ {a}) <= MaxAnswers
  <2>1. IsFiniteSet(answers) /\ Cardinality(answers) \in Nat /\ Cardinality(answers) <= MaxAnswers
    BY <1>0, FS_CardinalityType DEF PageTypes
  <2>2. /\ IsFiniteSet(answers \ {a})
        /\ Cardinality(answers \ {a}) = Cardinality(answers) - 1
    BY <1>11, <2>1, FS_RemoveElement
  <2> QED BY <2>1, <2>2, CardAssumption
<1>12. ASSUME NEW a \in [to : Requests, row : Rows], Answered(a)
       PROVE  ChannelTypes' /\ ServerTypes' /\ PageTypes' /\ [ChannelNext]_chan
  <2>1. PollShown(a.row) \in Card /\ RefreshShown(a.row) \in Card
    BY <1>0 DEF PageTypes, PollShown, RefreshShown, Card
  <2>2. PageTypes'
    BY <1>0, <1>11, <1>12, <2>1 DEF Answered, PageTypes
  <2> QED BY <1>1, <1>2, <1>12, <2>2 DEF Answered
<1>13. CASE EventShown
  <2> DEFINE e == Head(wire).kind
  <2>1. Deliver /\ e \in [run : 1..MaxRuns, says : {"progress", "done"}]
    BY <1>0, <1>13, HeadIsKnown DEF EventShown
  <2>2. card' = [card EXCEPT !.shown = [run |-> e.run, is |-> "running"]] \/ card' = DoneShown
    BY <1>13 DEF EventShown
  <2>3. asks' \subseteq Requests /\ UNCHANGED <<answers, faults>>
    BY <1>0, <1>13 DEF EventShown, PageTypes
  <2> HIDE DEF e
  <2>4. [run |-> e.run, is |-> "running"] \in Rows
    BY <2>1 DEF Rows, RowStates
  <2>5. card' \in Card
    BY <1>0, <2>2, <2>4 DEF PageTypes, DoneShown, Card
  <2>6. PageTypes'
    BY <1>0, <2>3, <2>5 DEF PageTypes
  <2> QED BY <1>0, <1>2, <1>13, <2>1, <2>6, ConnectionTyped DEF EventShown
<1>14. CASE Connection
  BY <1>0, <1>2, <1>3, <1>14, ConnectionTyped DEF Connection
<1>15. CASE Fault
  <2>1. faults' \in 0..MaxFaults /\ UNCHANGED server
    BY <1>0, <1>15, CardAssumption DEF Fault, PageTypes
  <2>2. CASE (Ends \/ Fades) /\ UNCHANGED <<card, requests>>
    BY <1>0, <1>2, <2>1, <2>2, ConnectionTyped DEF PageTypes, requests
  <2>3. ASSUME NEW a \in answers, answers' = answers \ {a}, UNCHANGED <<chan, card, asks>>
        PROVE  ChannelTypes' /\ ServerTypes' /\ PageTypes' /\ [ChannelNext]_chan
    BY <1>0, <1>1, <1>2, <1>11, <2>1, <2>3 DEF PageTypes
  <2>4. CASE Reload
    <3>1. PageTypes'
      BY <1>0, <2>1, <2>4, SeededTyped, RowTyped, FS_EmptySet, CardAssumption
         DEF Reload, PageTypes
    <3> QED BY <1>0, <1>1, <1>2, <2>1, <2>4, <3>1, ConnectionTyped DEF Reload
  <2> QED BY <1>15, <2>2, <2>3, <2>4 DEF Fault
<1>16. CASE UNCHANGED vars
  BY <1>1, <1>2, <1>3, <1>16 DEF vars
<1> QED BY <1>4, <1>5, <1>6, <1>7, <1>8, <1>9, <1>10, <1>12, <1>13, <1>14, <1>15, <1>16 DEF Next

\* The types, the bounds among them, for any number of runs and requests.
THEOREM CardTypes == Spec => []TypeOK
<1>1. CardInv /\ [Next]_vars => CardInv'
  BY CardStep
<1>2. CardInv => TypeOK
  BY DEF CardInv
<1> QED BY <1>1, <1>2, CardInit, PTL DEF Spec

\* The card and the worker's announcements use the live connection in no way
\* that LiveChannel does not allow: what is shown of SyncCard rests on nothing
\* else of it.
THEOREM CardUsesChannel == Spec => ChannelSpec
<1>1. CardInv /\ [Next]_vars => CardInv' /\ [ChannelNext]_chan
  BY CardStep
<1>2. Init => ChannelInit
  BY DEF Init
<1> QED BY <1>1, <1>2, CardInit, PTL DEF Spec, ChannelSpec

-----------------------------------------------------------------------------
(* What is shown as over.                                                    *)

LEMMA RememberedInit == Init => Remembered
BY DEF Init, Remembered, StillSo, Seeded, row

LEMMA RememberedStep ==
    ASSUME CardInv, CardInv', Remembered, [Next]_vars
    PROVE  Remembered'
<1>0. /\ ServerTypes /\ ServerTypes' /\ card \in Card /\ card' \in Card
      /\ answers \subseteq [to : Requests, row : Rows]
  BY DEF CardInv, TypeOK, ServerTypes, Card
\* A row that is over is never written again.
<1>1. ASSUME NEW r \in Rows, StillSo(r) PROVE StillSo(r)'
  <2>1. CASE UNCHANGED rows
    BY <1>1, <2>1 DEF StillSo
  <2>2. CASE RunOpens
    <3>1. Over(r) => r.run # latest + 1
      BY <1>0, <1>1, <2>2 DEF StillSo, Over, RunOpens, ServerTypes, Rows
    <3>2. Over(r) => rows'[r.run] = rows[r.run]
      BY <1>0, <2>2, <3>1 DEF RunOpens, ServerTypes, Rows
    <3> QED BY <1>1, <3>2 DEF StillSo
  <2>3. CASE RunEnds
    <3>1. PICK end : rows' = [rows EXCEPT ![latest] = end]
      BY <2>3 DEF RunEnds
    <3>2. Over(r) => r.run # latest
      BY <1>1, <2>3 DEF StillSo, Over, RunEnds, row
    <3>3. Over(r) => rows'[r.run] = rows[r.run]
      BY <1>0, <3>1, <3>2 DEF ServerTypes, Rows
    <3> QED BY <1>1, <3>3 DEF StillSo
  <2> QED BY <2>1, <2>2, <2>3
          DEF Next, vars, server, OthersEnqueue, RunTicks, EndAnnounced, Press, PressAnswered,
              GiveUp, Poll, ServerReads, Answered, EventShown, Connection, Fault
<1>2. \A a \in answers : a.row \in Rows /\ StillSo(a.row)'
  BY <1>0, <1>1 DEF Remembered
<1>3. card.shown \in Rows /\ card.prop \in Rows /\ StillSo(card.shown) /\ StillSo(card.prop)
  BY <1>0 DEF Remembered, Card
<1>4. StillSo(row) /\ StillSo(row)'
  BY DEF StillSo, row
<1> SUFFICES /\ StillSo(card.shown)' /\ StillSo(card.prop)'
             /\ \A a \in answers' : StillSo(a.row)'
  BY DEF Remembered, StillSo
<1>5. ASSUME UNCHANGED answers PROVE \A a \in answers' : StillSo(a.row)'
  BY <1>2, <1>5
<1>6. ASSUME card'.shown = card.shown, card'.prop = card.prop
      PROVE  StillSo(card.shown)' /\ StillSo(card.prop)'
  BY <1>1, <1>3, <1>6 DEF StillSo
<1>7. ASSUME UNCHANGED card, answers' \subseteq answers
      PROVE  /\ StillSo(card.shown)' /\ StillSo(card.prop)'
             /\ \A a \in answers' : StillSo(a.row)'
  BY <1>2, <1>6, <1>7
<1>8. CASE PressAnswered \/ Press \/ GiveUp
  <2>1. card'.shown = card.shown /\ card'.prop = card.prop
    BY <1>0, <1>8 DEF PressAnswered, Press, GiveUp, Card
  <2>2. UNCHANGED answers
    BY <1>8 DEF PressAnswered, Press, GiveUp, requests
  <2> QED BY <1>5, <1>6, <2>1, <2>2
<1>9. ASSUME NEW k \in Requests, ServerReads(k)
      PROVE  /\ StillSo(card.shown)' /\ StillSo(card.prop)'
             /\ \A a \in answers' : StillSo(a.row)'
  <2>1. answers' = answers \cup {[to |-> k, row |-> row]} /\ UNCHANGED <<rows, latest, card>>
    BY <1>9 DEF ServerReads, server
  <2>2. \A a \in answers' : a \in answers \/ a.row = row
    BY <2>1
  <2>3. \A a \in answers' : StillSo(a.row)'
    BY <1>2, <1>4, <2>1, <2>2 DEF StillSo
  <2> QED BY <1>6, <2>1, <2>3
<1>10. ASSUME NEW a \in answers, Answered(a)
       PROVE  /\ StillSo(card.shown)' /\ StillSo(card.prop)'
              /\ \A b \in answers' : StillSo(b.row)'
  <2>1. card' = IF a.to = "poll" THEN PollShown(a.row) ELSE RefreshShown(a.row)
    BY <1>10 DEF Answered
  <2>2. card'.shown \in {card.shown, a.row} /\ card'.prop \in {card.prop, a.row}
    BY <1>0, <2>1 DEF PollShown, RefreshShown, Card
  <2>3. StillSo(card.shown)' /\ StillSo(card.prop)'
    BY <1>1, <1>2, <1>3, <1>10, <2>2 DEF StillSo
  <2>4. answers' \subseteq answers
    BY <1>10 DEF Answered
  <2> QED BY <1>2, <2>3, <2>4
<1>11. CASE EventShown
  <2>1. card' = [card EXCEPT !.shown = [run |-> Head(wire).kind.run, is |-> "running"]]
        \/ card' = [card EXCEPT !.queued = FALSE]
    BY <1>11 DEF EventShown, DoneShown
  <2>2. /\ card'.prop = card.prop
        /\ card'.shown = card.shown \/ card'.shown.is = "running"
    BY <1>0, <2>1 DEF Card
  <2>3. StillSo(card.shown)' /\ StillSo(card.prop)'
    BY <1>1, <1>3, <2>2 DEF StillSo, Over
  <2>4. UNCHANGED answers
    BY <1>11 DEF EventShown
  <2> QED BY <1>5, <2>3, <2>4
<1>12. CASE Fault
  <2>1. CASE UNCHANGED <<card, requests>>
    BY <1>7, <2>1 DEF requests
  <2>2. ASSUME NEW a \in answers, answers' = answers \ {a}, UNCHANGED card
        PROVE  /\ StillSo(card.shown)' /\ StillSo(card.prop)'
               /\ \A b \in answers' : StillSo(b.row)'
    BY <1>7, <2>2
  <2>3. CASE Reload
    <3>1. card' = Seeded(row) /\ answers' = {}
      BY <2>3 DEF Reload
    <3>2. card'.shown = row /\ card'.prop = row
      BY <3>1 DEF Seeded
    <3>3. StillSo(card.shown)' /\ StillSo(card.prop)'
      BY <1>4, <1>12, <3>2 DEF StillSo, Fault, server
    <3> QED BY <3>1, <3>3
  <2> QED BY <1>12, <2>1, <2>2, <2>3 DEF Fault
<1>13. CASE OthersEnqueue \/ RunOpens \/ RunTicks \/ RunEnds \/ EndAnnounced \/ Poll \/ Connection \/ UNCHANGED vars
  BY <1>7, <1>13 DEF OthersEnqueue, RunOpens, RunTicks, RunEnds, EndAnnounced, Poll, Connection,
     vars, requests
<1>14. \A a \in [to : Requests, row : Rows] : Answered(a) => a \in answers
  BY DEF Answered
<1> QED BY <1>8, <1>9, <1>10, <1>11, <1>12, <1>13, <1>14 DEF Next

\* sync-progress.tsx: a run shown as over is over, and ended as it is shown, ok
\* or failed: late as its end may be announced, in whatever order answers come,
\* and whichever run it is, for any number of runs, events and answers.
THEOREM OverMeansOver == Spec => []ShownOverIsOver
<1> DEFINE Inv == CardInv /\ Remembered
<1>1. Init => Inv
  BY CardInit, RememberedInit
<1>2. Inv /\ [Next]_vars => Inv'
  BY CardStep, RememberedStep
<1>3. Inv => ShownOverIsOver
  BY DEF Remembered, StillSo, ShownOverIsOver
<1> QED BY <1>1, <1>2, <1>3, PTL DEF Spec
=============================================================================
