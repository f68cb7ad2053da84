----------------------- MODULE WebSocketWindowsProofs -----------------------
(***************************************************************************)
(* Proofs about WebSocketWindows, for any number of application threads.   *)
(***************************************************************************)
EXTENDS WebSocketWindows, TLAPS

\* Every step of the specification, one disjunct per action.
LEMMA NextCases ==
    ASSUME [Next]_vars
    PROVE  \/ \E t \in Clients : Open(t)
           \/ \E t \in Clients : Send(t)
           \/ \E t \in Clients : Close(t)
           \/ \E t \in Clients : Destroy(t)
           \/ \E a \in Activities : Judge(a)
           \/ \E a \in Activities : OnError(a)
           \/ \E a \in Activities : OnClose(a)
           \/ Connected
           \/ Stored
           \/ Welcome
           \/ OnOpen
           \/ \E a \in Continuations : FaultIsTested(a)
           \/ OnWebSocketClosed
           \/ OnMessageReceived
           \/ OnMessage
           \/ ConnectionEnds
           \/ UNCHANGED vars
  BY DEF Next, Proceeds, Continues

-----------------------------------------------------------------------------
(* The inductive invariant.                                                *)

Reporting == {"onError", "onClose"}

\* Before Open() nothing has begun.
NotBegun ==
    opened = 0 =>
        /\ socket = "new"
        /\ \A a \in Activities : act[a] = Resting

\* An activity on its way to CloseOnce brings a close code.
Brings == \A a \in Activities : At(a, "close") => act[a].code \in Codes

\* The flag and the verdict are set by the same exchange ...
Judged == closed <=> verdict[1] # 0

\* ... and whoever made it is the only one who reports, with the code it brought.
Reporter ==
    /\ \A a \in Activities : act[a].pc \in Reporting =>
          closed /\ act[a].code = verdict[1]
    /\ \A a, b \in Activities :
          act[a].pc \in Reporting /\ act[b].pc \in Reporting => a = b

\* How much has been reported by then.
Reported ==
    /\ ~closed => reports[1] = <<>>
    /\ \A a \in Activities :
          /\ At(a, "onError") => act[a].code # 1000 /\ reports[1] = <<>>
          /\ At(a, "onClose") =>
                reports[1] = IF act[a].code = 1000 THEN <<>> ELSE <<"error">>

Inv ==
    /\ TypeOK
    /\ reports \in [{1} -> Seq({"error", "close"})]
    /\ NotBegun /\ Brings /\ Judged /\ Reporter /\ Reported

-----------------------------------------------------------------------------
(* Types.                                                                  *)

LEMMA Destroyed ==
    ASSUME NEW t, Destroy(t)
    PROVE  alive' \in BOOLEAN
  BY DEF Destroy

LEMMA TypeStep ==
    ASSUME TypeOK, reports \in [{1} -> Seq({"error", "close"})], [Next]_vars
    PROVE  TypeOK' /\ reports' \in [{1} -> Seq({"error", "close"})]
  <1> USE WindowsAssumption
      DEF WindowsAssumption, TypeOK, Activities, Continuations, Events, Using,
          Ended, Codes, Goes, Return, Resting, At
  <1>1. CASE \E t \in Clients : Open(t)
    BY <1>1 DEF Open, Free
  <1>2. CASE \E t \in Clients : Send(t)
    BY <1>2 DEF Send, Free
  <1>3. CASE \E t \in Clients : Close(t)
    BY <1>3 DEF Close, Free
  <1>4. CASE \E t \in Clients : Destroy(t)
    <2>1. PICK t \in Clients : Destroy(t)
      BY <1>4
    <2>2. alive' \in BOOLEAN
      BY <2>1, Destroyed
    <2>3. UNCHANGED << closed, socket, act, messages, opened, verdict, reports >>
      BY <2>1 DEF Destroy
    <2>4. QED
      BY <2>2, <2>3
  <1>5. CASE \E a \in Activities : Judge(a)
    BY <1>5 DEF Judge
  <1>6. CASE \E a \in Activities : OnError(a)
    <2>1. PICK a \in Activities : OnError(a)
      BY <1>6
    <2>2. reports' \in [{1} -> Seq({"error", "close"})]
      BY <2>1 DEF OnError
    <2>3. QED
      BY <2>1, <2>2 DEF OnError
  <1>7. CASE \E a \in Activities : OnClose(a)
    BY <1>7 DEF OnClose
  <1>8. CASE Connected
    BY <1>8 DEF Connected
  <1>9. CASE Stored
    BY <1>9 DEF Stored
  <1>10. CASE Welcome
    BY <1>10 DEF Welcome
  <1>11. CASE OnOpen
    BY <1>11 DEF OnOpen
  <1>12. CASE \E a \in Continuations : FaultIsTested(a)
    BY <1>12 DEF FaultIsTested
  <1>13. CASE OnWebSocketClosed
    BY <1>13 DEF OnWebSocketClosed
  <1>14. CASE OnMessageReceived
    BY <1>14 DEF OnMessageReceived
  <1>15. CASE OnMessage
    BY <1>15 DEF OnMessage
  <1>16. CASE ConnectionEnds
    BY <1>16 DEF ConnectionEnds
  <1>17. CASE UNCHANGED vars
    BY <1>17 DEF vars
  <1>18. QED
    BY NextCases, <1>1, <1>2, <1>3, <1>4, <1>5, <1>6, <1>7, <1>8, <1>9, <1>10,
       <1>11, <1>12, <1>13, <1>14, <1>15, <1>16, <1>17

-----------------------------------------------------------------------------
(* The other parts, first for the steps that report nothing.               *)

Protocol == NotBegun /\ Brings /\ Judged /\ Reporter /\ Reported

\* An activity goes on to anything but the callbacks.
LEMMA QuietStep ==
    ASSUME Inv, NEW a \in Activities, NEW next,
           act' = [act EXCEPT ![a] = next], next.pc \notin Reporting,
           next.pc = "close" => next.code \in Codes,
           UNCHANGED << closed, verdict, reports >>, opened' = 1
    PROVE  Protocol'
  <1>1. \A b \in Activities : act'[b] = IF b = a THEN next ELSE act[b]
    BY DEF Inv, TypeOK
  <1>2. NotBegun' /\ Brings' /\ Judged'
    BY <1>1 DEF Inv, NotBegun, Brings, Judged, At
  <1>3. Reporter'
    BY <1>1 DEF Inv, Reporter
  <1>4. Reported'
    BY <1>1 DEF Inv, Reported, At, Reporting
  <1>5. QED
    BY <1>2, <1>3, <1>4 DEF Protocol

\* No activity moves at all.
LEMMA StillStep ==
    ASSUME Inv, UNCHANGED << closed, act, opened, verdict, reports >>,
           opened = 0 => socket' = socket
    PROVE  Protocol'
  BY DEF Inv, Protocol, NotBegun, Brings, Judged, Reporter, Reported, At

\* Whoever is somewhere got there after Open().
LEMMA Begun ==
    ASSUME Inv, \/ socket # "new"
                \/ \E a \in Activities : ~At(a, "idle")
    PROVE  opened = 1
  BY DEF Inv, TypeOK, NotBegun, At, Resting

LEMMA GoesQuietly ==
    ASSUME Inv, NEW a \in Activities, NEW pc, NEW code, Goes(a, pc, code),
           pc \notin Reporting, pc = "close" => code \in Codes,
           UNCHANGED << closed, verdict, reports >>, opened' = 1
    PROVE  Protocol'
  <1> DEFINE next == [pc |-> pc, code |-> code]
  <1>1. /\ act' = [act EXCEPT ![a] = next]
        /\ next.pc \notin Reporting /\ (next.pc = "close" => next.code \in Codes)
    BY DEF Goes
  <1> HIDE DEF next
  <1>2. QED
    BY <1>1, QuietStep

\* An activity that is over is on the way to no callback.
LEMMA Returns ==
    ASSUME NEW a \in Activities, Return(a)
    PROVE  \E next : /\ act' = [act EXCEPT ![a] = next]
                     /\ next.pc \in {"idle", "done"}
  <1> DEFINE next == IF a \in {"connect", "closedEvent"}
                     THEN [Resting EXCEPT !.pc = "done"] ELSE Resting
  <1>1. act' = [act EXCEPT ![a] = next]
    BY DEF Return
  <1>2. next.pc \in {"idle", "done"}
    BY DEF Resting
  <1>3. QED
    BY <1>1, <1>2

LEMMA ReturnsQuietly ==
    ASSUME Inv, NEW a \in Activities, Return(a),
           UNCHANGED << closed, verdict, reports >>, opened' = 1
    PROVE  Protocol'
  BY Returns, QuietStep DEF Reporting

LEMMA ProtocolStep ==
    ASSUME Inv, [Next]_vars
    PROVE  Protocol'
  <1>a. /\ "connect" \in Activities /\ "store" \in Activities
        /\ "closedEvent" \in Activities /\ "messageEvent" \in Activities
        /\ Clients \subseteq Activities
        /\ Continuations \subseteq Activities
    BY DEF Activities, Continuations, Events
  <1>b. {1000, 1001, 1006} = Codes
    BY DEF Codes
  <1>1. CASE \E t \in Clients : Open(t)
    BY <1>1, <1>a, <1>b, GoesQuietly DEF Open, Reporting
  <1>2. CASE \E t \in Clients : Send(t)
    BY <1>2, <1>a, <1>b, GoesQuietly DEF Send, Reporting
  <1>3. CASE \E t \in Clients : Close(t)
    BY <1>3, StillStep DEF Close
  <1>4. CASE \E t \in Clients : Destroy(t)
    BY <1>4, StillStep DEF Destroy
  <1>5. CASE \E a \in Activities : Judge(a)
    <2>1. PICK a \in Activities : Judge(a)
      BY <1>5
    <2>2. opened = 1 /\ opened' = 1
      BY <2>1, Begun DEF Judge, At
    <2>3. CASE closed
      <3>1. Return(a) /\ UNCHANGED << closed, verdict, reports >>
        BY <2>1, <2>3 DEF Judge
      <3>2. QED
        BY <2>2, <3>1, ReturnsQuietly
    <2>4. CASE ~closed
      <3> DEFINE next == [pc |-> IF act[a].code = 1000 THEN "onClose" ELSE "onError",
                          code |-> act[a].code]
      <3>1. /\ closed' = TRUE /\ act[a].code \in Codes
            /\ verdict' = [verdict EXCEPT ![1] = act[a].code]
            /\ act' = [act EXCEPT ![a] = next] /\ reports' = reports
        BY <2>1, <2>4 DEF Judge, Goes, Inv, Brings
      <3>2. verdict'[1] = act[a].code /\ act[a].code # 0
        BY <3>1 DEF Inv, TypeOK, Codes
      <3>3. reports[1] = <<>> /\ \A b \in Activities : act[b].pc \notin Reporting
        BY <2>4 DEF Inv, Reported, Reporter
      <3>4. \A b \in Activities : act'[b] = IF b = a THEN next ELSE act[b]
        BY <3>1 DEF Inv, TypeOK
      <3>5. NotBegun' /\ Judged'
        BY <2>2, <3>1, <3>2 DEF NotBegun, Judged
      <3>6. Brings'
        BY <3>1, <3>4 DEF Brings, Inv, At
      <3>7. Reporter'
        BY <3>1, <3>2, <3>3, <3>4 DEF Reporter
      <3>8. Reported'
        BY <3>1, <3>3, <3>4 DEF Reported, At, Reporting
      <3>9. QED
        BY <3>5, <3>6, <3>7, <3>8 DEF Protocol
    <2>5. QED
      BY <2>3, <2>4
  <1>6. CASE \E a \in Activities : OnError(a)
    <2>1. PICK a \in Activities : OnError(a)
      BY <1>6
    <2> DEFINE next == [pc |-> "onClose", code |-> act[a].code]
    <2>2. /\ act' = [act EXCEPT ![a] = next] /\ act[a].pc \in Reporting
          /\ reports' = [reports EXCEPT ![1] = Append(@, "error")]
          /\ UNCHANGED << closed, verdict, opened >>
      BY <2>1 DEF OnError, Goes, At, Reporting
    <2>3. opened = 1 /\ closed /\ act[a].code = verdict[1] /\ act[a].code # 1000
          /\ reports[1] = <<>>
      BY <2>1, Begun DEF OnError, At, Inv, Reporter, Reported, Reporting
    <2>4. reports'[1] = <<"error">>
      BY <2>2, <2>3 DEF Inv
    <2>5. \A b \in Activities : act'[b] = IF b = a THEN next ELSE act[b]
      BY <2>2 DEF Inv, TypeOK
    <2>6. \A b \in Activities : act'[b].pc \in Reporting => b = a
      BY <2>2, <2>5 DEF Inv, Reporter
    <2>7. NotBegun' /\ Judged' /\ Brings'
      BY <2>2, <2>3, <2>5 DEF NotBegun, Judged, Brings, Inv, At
    <2>8. Reporter'
      BY <2>2, <2>3, <2>5, <2>6 DEF Reporter
    <2>9. Reported'
      BY <2>2, <2>3, <2>4, <2>5, <2>6 DEF Reported, At, Reporting
    <2>10. QED
      BY <2>7, <2>8, <2>9 DEF Protocol
  <1>7. CASE \E a \in Activities : OnClose(a)
    <2>1. PICK a \in Activities : OnClose(a)
      BY <1>7
    <2>2. PICK next : act' = [act EXCEPT ![a] = next] /\ next.pc \in {"idle", "done"}
      BY <2>1, Returns DEF OnClose
    <2>3. /\ act[a].pc \in Reporting /\ opened = 1 /\ closed
          /\ UNCHANGED << closed, verdict, opened >>
      BY <2>1, Begun DEF OnClose, At, Reporting, Inv, Reporter
    <2>4. \A b \in Activities : act'[b] = IF b = a THEN next ELSE act[b]
      BY <2>2 DEF Inv, TypeOK
    <2>5. \A b \in Activities : act'[b].pc \notin Reporting
      BY <2>2, <2>3, <2>4 DEF Inv, Reporter, Reporting
    <2>6. NotBegun' /\ Judged' /\ Brings'
      BY <2>2, <2>3, <2>4 DEF NotBegun, Judged, Brings, Inv, At
    <2>7. Reporter' /\ Reported'
      BY <2>3, <2>5 DEF Reporter, Reported, At, Reporting
    <2>8. QED
      BY <2>6, <2>7 DEF Protocol
  <1>8. CASE Connected
    BY <1>8, <1>a, Begun, GoesQuietly DEF Connected, Reporting, At
  <1>9. CASE Stored
    <2>1. opened = 1
      BY <1>9, <1>a, Begun DEF Stored, At
    <2>2. QED
      BY <1>9, <1>a, <2>1, ReturnsQuietly, GoesQuietly DEF Stored, Reporting
  <1>10. CASE Welcome
    <2>1. opened = 1
      BY <1>10, <1>a, Begun DEF Welcome, At
    <2>2. QED
      BY <1>10, <1>a, <2>1, ReturnsQuietly, GoesQuietly DEF Welcome, Reporting
  <1>11. CASE OnOpen
    <2>1. opened = 1
      BY <1>11, <1>a, Begun DEF OnOpen, At
    <2>2. QED
      BY <1>11, <1>a, <2>1, ReturnsQuietly, GoesQuietly DEF OnOpen, Reporting
  <1>12. CASE \E a \in Continuations : FaultIsTested(a)
    <2>1. PICK a \in Continuations : FaultIsTested(a)
      BY <1>12
    <2>2. opened = 1 /\ a \in Activities
      BY <2>1, <1>a, Begun DEF FaultIsTested, At
    <2>3. QED
      BY <2>1, <1>b, <2>2, ReturnsQuietly, GoesQuietly DEF FaultIsTested, Reporting
  <1>13. CASE OnWebSocketClosed
    <2>1. opened = 1
      BY <1>13, Begun DEF OnWebSocketClosed
    <2>2. QED
      BY <1>13, <1>a, <1>b, <2>1, GoesQuietly DEF OnWebSocketClosed, Reporting
  <1>14. CASE OnMessageReceived
    <2>1. opened = 1
      BY <1>14, Begun DEF OnMessageReceived
    <2>2. QED
      BY <1>14, <1>a, <1>b, <2>1, GoesQuietly DEF OnMessageReceived, Reporting
  <1>15. CASE OnMessage
    <2>1. opened = 1
      BY <1>15, <1>a, Begun DEF OnMessage, At
    <2>2. QED
      BY <1>15, <1>a, <2>1, ReturnsQuietly DEF OnMessage
  <1>16. CASE ConnectionEnds
    BY <1>16, Begun, StillStep DEF ConnectionEnds
  <1>17. CASE UNCHANGED vars
    BY <1>17, StillStep DEF vars
  <1>18. QED
    BY NextCases, <1>1, <1>2, <1>3, <1>4, <1>5, <1>6, <1>7, <1>8, <1>9, <1>10,
       <1>11, <1>12, <1>13, <1>14, <1>15, <1>16, <1>17

-----------------------------------------------------------------------------
(* The results.                                                            *)

LEMMA InvInit == Init => Inv
  <1> SUFFICES ASSUME Init PROVE Inv
    OBVIOUS
  <1>1. TypeOK
    <2>1. /\ 0 \in 0 .. MaxMessages /\ 0 \in Codes \cup {0} /\ 0 \in 0 .. 1
          /\ Clients \subseteq Activities
      BY WindowsAssumption DEF WindowsAssumption, Activities
    <2>2. verdict \in [{1} -> Codes \cup {0}]
      BY DEF Init
    <2>3. QED
      BY <2>1, <2>2 DEF Init, TypeOK, Resting
  <1>2. reports \in [{1} -> Seq({"error", "close"})]
    <2>1. ASSUME NEW S, NEW x \in S
          PROVE  <<x>> \in [{1} -> S]
      OBVIOUS
    <2>2. <<>> \in Seq({"error", "close"})
      OBVIOUS
    <2>3. QED
      BY <2>1, <2>2 DEF Init
  <1>3. NotBegun /\ Brings /\ Judged /\ Reporter /\ Reported
    BY DEF Init, Resting, NotBegun, Brings, Judged, Reporter, Reporting, Reported, At
  <1>4. QED
    BY <1>1, <1>2, <1>3 DEF Inv

LEMMA InvStep == Inv /\ [Next]_vars => Inv'
  BY TypeStep, ProtocolStep DEF Inv, Protocol

LEMMA Invariance == Spec => []Inv
  BY InvInit, InvStep, PTL DEF Spec

\* The types of the object and of what goes on in it.
THEOREM TypeCorrect == Spec => []TypeOK
  <1>1. Inv => TypeOK
    BY DEF Inv
  <1>2. QED
    BY <1>1, Invariance, PTL

\* Whatever comes late, it asks the cancellation source before it touches the
\* object: a continuation that is outside stays outside once it is destroyed.
LEMMA DeadStep ==
    ASSUME TypeOK, [Next]_vars, ~alive, NEW c \in Continuations,
           act[c].pc \notin Using
    PROVE  act'[c].pc \notin Using
  <1> USE WindowsAssumption
      DEF WindowsAssumption, TypeOK, Activities, Continuations, Events, Using,
          Goes, Return, Resting, At
  <1>1. CASE \E t \in Clients : Open(t) \/ Send(t) \/ Close(t) \/ Destroy(t)
    BY <1>1 DEF Open, Send, Close, Destroy, Free
  <1>2. CASE \E a \in Activities : Judge(a)
    BY <1>2 DEF Judge
  <1>3. CASE \E a \in Activities : OnError(a)
    BY <1>3 DEF OnError
  <1>4. CASE \E a \in Activities : OnClose(a)
    BY <1>4 DEF OnClose
  <1>5. CASE Connected
    BY <1>5 DEF Connected
  <1>6. CASE Stored
    BY <1>6 DEF Stored
  <1>7. CASE Welcome
    BY <1>7 DEF Welcome
  <1>8. CASE OnOpen
    BY <1>8 DEF OnOpen
  <1>9. CASE \E a \in Continuations : FaultIsTested(a)
    BY <1>9 DEF FaultIsTested
  <1>10. CASE OnWebSocketClosed \/ OnMessageReceived
    BY <1>10 DEF OnWebSocketClosed, OnMessageReceived
  <1>11. CASE OnMessage
    BY <1>11 DEF OnMessage
  <1>12. CASE ConnectionEnds \/ UNCHANGED vars
    BY <1>12 DEF ConnectionEnds, vars
  <1>13. QED
    BY NextCases, <1>1, <1>2, <1>3, <1>4, <1>5, <1>6, <1>7, <1>8, <1>9, <1>10,
       <1>11, <1>12

\* A continuation tests the cancellation before it touches the object, so once
\* the object is gone no continuation that was not already in it gets into it.
THEOREM TheDeadAreLeftAlone == Spec => NoContinuationEntersTheDead
  <1>1. TypeOK /\ [Next]_vars =>
          [ \A a \in Continuations :
              (~alive /\ act[a].pc \notin Using) => act'[a].pc \notin Using ]_vars
    BY DeadStep
  <1>2. QED
    BY <1>1, TypeCorrect, PTL DEF Spec, NoContinuationEntersTheDead

-----------------------------------------------------------------------------
(* No end is lost.                                                         *)

\* A connection that is being made has a continuation waiting for it, ...
Attempt == socket = "connecting" => At("connect", "pending")

\* ... and the Closed event is raised for none but a connection that was open.
Raised == ~At("closedEvent", "idle") => socket \in Ended \ {"refused"}

\* Somebody is going to judge the end, ...
Owed ==
    alive /\ socket \in Ended /\ ~closed =>
        \/ \E a \in Activities : At(a, "close")
        \/ socket = "refused" /\ act["connect"].pc \in {"pending", "faulted"}
        \/ socket # "refused" /\ At("closedEvent", "idle")

\* ... and whoever did is going to say what there is to say.
Unfinished ==
    verdict[1] # 0 /\ Len(reports[1]) # Len(Contract!Expected(verdict[1])) =>
        \E a \in Activities : act[a].pc \in Reporting

Await == Attempt /\ Raised /\ Owed /\ Unfinished

LEMMA ActivitiesAre ==
    /\ "connect" \in Activities /\ "store" \in Activities
    /\ "closedEvent" \in Activities /\ "messageEvent" \in Activities
    /\ Clients \subseteq Activities /\ Continuations \subseteq Activities
    /\ Continuations = {"connect", "store"} /\ "closedEvent" \notin Continuations
    /\ \A t \in Clients : t # "connect" /\ t # "closedEvent"
  BY WindowsAssumption
  DEF WindowsAssumption, Activities, Continuations, Events

\* Where an activity goes, and where the others stay.
LEMMA GoesTo ==
    ASSUME TypeOK, NEW a \in Activities, NEW pc, NEW code, Goes(a, pc, code)
    PROVE  \A b \in Activities : act'[b].pc = IF b = a THEN pc ELSE act[b].pc
  BY DEF TypeOK, Goes

LEMMA ReturnsFrom ==
    ASSUME TypeOK, NEW a \in Activities, Return(a)
    PROVE  /\ \A b \in Activities : b # a => act'[b].pc = act[b].pc
           /\ act'[a].pc = IF a \in {"connect", "closedEvent"} THEN "done" ELSE "idle"
  BY DEF TypeOK, Return, Resting

\* Nothing is judged and nothing reported, and nobody leaves the way to it.
LEMMA UnfinishedStays ==
    ASSUME Unfinished, UNCHANGED << verdict, reports >>,
           \A a \in Activities : act[a].pc \in Reporting => act'[a].pc = act[a].pc
    PROVE  Unfinished'
  BY DEF Unfinished

\* An activity that is over, or goes on, after something that has nothing to do
\* with the end of the connection.
LEMMA AwaitAside ==
    ASSUME Await, UNCHANGED << closed, alive, socket, verdict, reports >>,
           \A a \in Activities : act[a].pc \in {"close", "onError", "onClose"} =>
                act'[a].pc = act[a].pc,
           \/ act'["connect"].pc = act["connect"].pc
           \/ act["connect"].pc \notin {"pending", "faulted"}
           \/ ~alive /\ ~At("connect", "pending"),
           act'["closedEvent"].pc = act["closedEvent"].pc
    PROVE  Await'
  <1>1. Attempt' /\ Raised'
    BY DEF Await, Attempt, Raised, At
  <1>2. Owed'
    BY DEF Await, Owed, At
  <1>3. Unfinished'
    BY UnfinishedStays DEF Await, Reporting
  <1>4. QED
    BY <1>1, <1>2, <1>3 DEF Await

\* An activity sets out for CloseOnce.
LEMMA AwaitGoesToClose ==
    ASSUME TypeOK, Await, NEW a \in Activities, NEW code, Goes(a, "close", code),
           UNCHANGED << closed, alive, verdict, reports >>,
           socket' = socket \/ socket' \in Ended,
           socket' # "connecting",
           act[a].pc \notin Reporting,
           Raised'
    PROVE  Await'
  <1>1. \A b \in Activities : act'[b].pc = IF b = a THEN "close" ELSE act[b].pc
    BY GoesTo
  <1>2. Attempt'
    BY DEF Attempt
  <1>3. Owed'
    BY <1>1 DEF Owed, At
  <1>4. Unfinished'
    BY <1>1, UnfinishedStays DEF Await
  <1>5. QED
    BY <1>2, <1>3, <1>4 DEF Await


\* The client opens, sends, closes or destroys.
LEMMA AwaitClient ==
    ASSUME Inv, Await, NEW t \in Clients, Open(t) \/ Send(t) \/ Close(t) \/ Destroy(t)
    PROVE  Await'
  <1> USE ActivitiesAre
  <1>0. TypeOK
    BY DEF Inv
  <1>1. CASE Open(t)
    <2>1. /\ At(t, "idle") /\ socket = "new"
          /\ \A a \in Activities : act[a].pc = "idle"
          /\ UNCHANGED << closed, alive, verdict, reports >>
      BY <1>1 DEF Open, Free, Inv, NotBegun, Resting
    <2>2. CASE socket' = "connecting" /\ Goes("connect", "pending", 0)
      <3>1. \A b \in Activities :
                act'[b].pc = IF b = "connect" THEN "pending" ELSE act[b].pc
        BY <1>0, <2>2, GoesTo
      <3>2. Attempt' /\ Raised' /\ Owed'
        BY <2>1, <2>2, <3>1 DEF Attempt, Raised, Owed, At, Ended
      <3>3. Unfinished'
        BY <2>1, <3>1, UnfinishedStays DEF Await, Reporting
      <3>4. QED
        BY <3>2, <3>3 DEF Await
    <2>3. CASE socket' = "refused" /\ Goes(t, "close", 1006)
      <3>1. \A b \in Activities : act'[b].pc = IF b = t THEN "close" ELSE act[b].pc
        BY <1>0, <2>3, GoesTo
      <3>2. Raised'
        BY <2>1, <3>1 DEF Raised, At
      <3>3. QED
        BY <1>0, <2>1, <2>3, <3>2, AwaitGoesToClose DEF Ended, Reporting
    <2>4. QED
      BY <1>1, <2>2, <2>3 DEF Open
  <1>2. CASE Send(t)
    <2>1. At(t, "idle") /\ UNCHANGED << closed, alive, socket, verdict, reports >>
      BY <1>2 DEF Send, Free
    <2>2. CASE Goes("store", "pending", 0) /\ At("store", "idle")
      <3>1. \A b \in Activities :
                act'[b].pc = IF b = "store" THEN "pending" ELSE act[b].pc
        BY <1>0, <2>2, GoesTo
      <3>2. QED
        BY <2>1, <2>2, <3>1, AwaitAside DEF At
    <2>3. CASE Goes(t, "close", 1006)
      <3>1. \A b \in Activities : act'[b].pc = IF b = t THEN "close" ELSE act[b].pc
        BY <1>0, <2>3, GoesTo
      <3>2. Raised'
        BY <2>1, <3>1 DEF Raised, At, Await
      <3>3. CASE socket = "connecting"
        <4>1. Attempt' /\ Owed'
          BY <2>1, <3>1, <3>3 DEF Await, Attempt, Owed, At, Ended
        <4>2. Unfinished'
          BY <2>1, <3>1, UnfinishedStays DEF Await, At, Reporting
        <4>3. QED
          BY <3>2, <4>1, <4>2 DEF Await
      <3>4. CASE socket # "connecting"
        BY <1>0, <2>1, <2>3, <3>2, <3>4, AwaitGoesToClose DEF Reporting, At
      <3>5. QED
        BY <3>3, <3>4
    <2>4. QED
      BY <1>2, <2>2, <2>3 DEF Send
  <1>3. CASE Close(t)
    <2>1. /\ UNCHANGED << closed, alive, act, verdict, reports >>
          /\ socket' = IF socket = "open" THEN "closed"
                       ELSE IF socket = "connecting" THEN "refused" ELSE socket
      BY <1>3 DEF Close
    <2>2. Attempt' /\ Raised' /\ Owed'
      BY <2>1 DEF Await, Attempt, Raised, Owed, At, Ended
    <2>3. Unfinished'
      BY <2>1, UnfinishedStays DEF Await
    <2>4. QED
      BY <2>2, <2>3 DEF Await
  <1>4. CASE Destroy(t)
    <2>1. alive' = FALSE /\ UNCHANGED << closed, socket, act, verdict, reports >>
      BY <1>4 DEF Destroy
    <2>2. Attempt' /\ Raised' /\ Owed'
      BY <2>1 DEF Await, Attempt, Raised, Owed, At
    <2>3. Unfinished'
      BY <2>1, UnfinishedStays DEF Await
    <2>4. QED
      BY <2>2, <2>3 DEF Await
  <1>5. QED
    BY <1>1, <1>2, <1>3, <1>4

\* The first at CloseOnce goes on to the callbacks; who comes later leaves no
\* end behind that is not judged.
LEMMA AwaitCloseOnce ==
    ASSUME Inv, Await, NEW a \in Activities, Proceeds(a)
    PROVE  Await'
  <1> USE ActivitiesAre
  <1>0. TypeOK /\ socket' = socket /\ alive' = alive
    BY DEF Inv, Proceeds, Judge, OnError, OnClose
  <1>1. /\ closed'
        /\ \A b \in Activities : b # a => act'[b].pc = act[b].pc
        /\ a = "closedEvent" => act'[a].pc # "idle"
    <2>1. CASE Goes(a, IF act[a].code = 1000 THEN "onClose" ELSE "onError", act[a].code)
      BY <1>0, <2>1, GoesTo
      DEF Proceeds, Judge, OnError, OnClose, At, Inv, Reporter, Reporting
    <2>2. CASE Goes(a, "onClose", act[a].code)
      BY <1>0, <2>2, GoesTo
      DEF Proceeds, Judge, OnError, OnClose, At, Inv, Reporter, Reporting
    <2>3. CASE Return(a)
      BY <1>0, <2>3, ReturnsFrom
      DEF Proceeds, Judge, OnError, OnClose, At, Inv, Reporter, Reporting
    <2>4. QED
      BY <2>1, <2>2, <2>3 DEF Proceeds, Judge, OnError, OnClose
  <1>2. act[a].pc \in {"close", "onError", "onClose"}
    BY DEF Proceeds, Judge, OnError, OnClose, At
  <1>3. Attempt'
    BY <1>0, <1>1, <1>2 DEF Await, Attempt, At
  <1>4. Raised'
    BY <1>0, <1>1, <1>2 DEF Await, Raised, At
  <1>5. Owed'
    BY <1>1 DEF Owed
  <1>6. Unfinished'
    <2>1. CASE Judge(a)
      <3>1. CASE closed
        BY <1>0, <1>1, <2>1, <3>1, UnfinishedStays DEF Judge, At, Await, Reporting
      <3>2. CASE ~closed
        <4>1. act'[a].pc \in Reporting
          BY <1>0, <2>1, <3>2, GoesTo DEF Judge, Reporting
        <4>2. QED
          BY <4>1 DEF Unfinished
      <3>3. QED
        BY <3>1, <3>2
    <2>2. CASE OnError(a)
      <3>1. act'[a].pc \in Reporting
        BY <1>0, <2>2, GoesTo DEF OnError, Reporting
      <3>2. QED
        BY <3>1 DEF Unfinished
    <2>3. CASE OnClose(a)
      <3>1. /\ verdict' = verdict /\ reports'[1] = Append(reports[1], "close")
            /\ reports[1] = IF verdict[1] = 1000 THEN <<>> ELSE <<"error">>
        BY <2>3 DEF OnClose, At, Inv, Reporter, Reported, Reporting
      <3>2. CASE verdict[1] = 1000
        <4>1. Len(reports'[1]) = 1
          BY <3>1, <3>2
        <4>2. QED
          BY <3>1, <3>2, <4>1 DEF Unfinished, Contract!Expected, Contract!Normal
      <3>3. CASE verdict[1] # 1000
        <4>1. Len(reports'[1]) = 2
          BY <3>1, <3>3
        <4>2. QED
          BY <3>1, <3>3, <4>1 DEF Unfinished, Contract!Expected, Contract!Normal
      <3>4. QED
        BY <3>2, <3>3
    <2>4. QED
      BY <2>1, <2>2, <2>3 DEF Proceeds
  <1>7. QED
    BY <1>3, <1>4, <1>5, <1>6 DEF Await

\* The operations complete, and the continuations run.
LEMMA AwaitContinuation ==
    ASSUME Inv, Await,
           \/ Connected \/ Stored \/ Welcome \/ OnOpen
           \/ \E a \in Continuations : FaultIsTested(a)
    PROVE  Await'
  <1> USE ActivitiesAre
  <1>0. TypeOK
    BY DEF Inv
  <1>1. CASE Connected
    <2>1. /\ At("connect", "pending")
          /\ UNCHANGED << closed, alive, verdict, reports >>
      BY <1>1 DEF Connected
    <2>2. PICK pc \in {"succeeded", "faulted"} :
              /\ Goes("connect", pc, 0)
              /\ IF pc = "succeeded" THEN socket = "connecting" /\ socket' = "open"
                 ELSE socket \in {"connecting", "refused"} /\ socket' = "refused"
      BY <1>1 DEF Connected
    <2>3. \A b \in Activities : act'[b].pc = IF b = "connect" THEN pc ELSE act[b].pc
      BY <1>0, <2>2, GoesTo
    <2>4. Attempt' /\ Raised' /\ Owed'
      BY <2>1, <2>2, <2>3 DEF Await, Attempt, Raised, Owed, At, Ended
    <2>5. Unfinished'
      BY <2>1, <2>3, UnfinishedStays DEF Await, At, Reporting
    <2>6. QED
      BY <2>4, <2>5 DEF Await
  <1>2. CASE Stored
    <2>1. /\ At("store", "pending")
          /\ UNCHANGED << closed, alive, socket, verdict, reports >>
      BY <1>2 DEF Stored
    <2>2. \A b \in Activities : b # "store" => act'[b].pc = act[b].pc
      BY <1>0, <1>2, GoesTo, ReturnsFrom DEF Stored
    <2>3. QED
      BY <2>1, <2>2, AwaitAside DEF At
  <1>3. CASE Welcome
    <2>1. /\ At("connect", "succeeded")
          /\ UNCHANGED << closed, alive, socket, verdict, reports >>
      BY <1>3 DEF Welcome
    <2>2. \A b \in Activities : b # "connect" => act'[b].pc = act[b].pc
      BY <1>0, <1>3, GoesTo, ReturnsFrom DEF Welcome
    <2>3. QED
      BY <2>1, <2>2, AwaitAside DEF At
  <1>4. CASE OnOpen
    <2>1. /\ At("connect", "onOpen")
          /\ UNCHANGED << closed, alive, socket, verdict, reports >>
      BY <1>4 DEF OnOpen
    <2>2. \A b \in Activities : b # "connect" => act'[b].pc = act[b].pc
      BY <1>0, <1>4, GoesTo, ReturnsFrom DEF OnOpen
    <2>3. QED
      BY <2>1, <2>2, AwaitAside DEF At
  <1>5. CASE \E a \in Continuations : FaultIsTested(a)
    <2>1. PICK a \in Continuations : FaultIsTested(a)
      BY <1>5
    <2>2. /\ At(a, "faulted") /\ a # "closedEvent"
          /\ UNCHANGED << closed, alive, socket, verdict, reports >>
      BY <2>1 DEF FaultIsTested
    <2>3. CASE alive /\ Goes(a, "close", 1006)
      <3>1. \A b \in Activities : act'[b].pc = IF b = a THEN "close" ELSE act[b].pc
        BY <1>0, <2>3, GoesTo
      <3>2. Raised'
        BY <2>2, <3>1 DEF Await, Raised, At
      <3>3. Attempt' /\ Owed'
        BY <2>2, <3>1 DEF Await, Attempt, Owed, At
      <3>4. Unfinished'
        BY <2>2, <3>1, UnfinishedStays DEF Await, At, Reporting
      <3>5. QED
        BY <3>2, <3>3, <3>4 DEF Await
    <2>4. CASE ~alive /\ Return(a)
      <3>1. \A b \in Activities : b # a => act'[b].pc = act[b].pc
        BY <1>0, <2>4, ReturnsFrom
      <3>2. QED
        BY <2>2, <2>4, <3>1, AwaitAside DEF At
    <2>5. QED
      BY <2>1, <2>3, <2>4 DEF FaultIsTested
  <1>6. QED
    BY <1>1, <1>2, <1>3, <1>4, <1>5


\* The events of the MessageWebSocket, and the end of the connection itself.
LEMMA AwaitEvent ==
    ASSUME Inv, Await,
           OnWebSocketClosed \/ OnMessageReceived \/ OnMessage \/ ConnectionEnds
    PROVE  Await'
  <1> USE ActivitiesAre
  <1>0. TypeOK
    BY DEF Inv
  <1>1. CASE OnWebSocketClosed
    <2>1. /\ At("closedEvent", "idle") /\ socket \in {"closed", "goneAway", "lost"}
          /\ UNCHANGED << closed, alive, socket, verdict, reports >>
      BY <1>1 DEF OnWebSocketClosed
    <2>2. PICK code \in Codes : Goes("closedEvent", "close", code)
      BY <1>1 DEF OnWebSocketClosed, Codes
    <2>3. Raised'
      BY <2>1 DEF Raised, Ended
    <2>4. QED
      BY <1>0, <2>1, <2>2, <2>3, AwaitGoesToClose DEF At, Reporting
  <1>2. CASE OnMessageReceived
    <2>1. /\ At("messageEvent", "idle") /\ socket \in {"open", "lost"}
          /\ UNCHANGED << closed, alive, socket, verdict, reports >>
      BY <1>2 DEF OnMessageReceived
    <2>2. CASE Goes("messageEvent", "onMessage", 0)
      <3>1. \A b \in Activities : b # "messageEvent" => act'[b].pc = act[b].pc
        BY <1>0, <2>2, GoesTo
      <3>2. QED
        BY <2>1, <3>1, AwaitAside DEF At
    <2>3. CASE Goes("messageEvent", "close", 1006)
      <3>1. \A b \in Activities : b # "messageEvent" => act'[b].pc = act[b].pc
        BY <1>0, <2>3, GoesTo
      <3>2. Raised'
        BY <2>1, <3>1 DEF Await, Raised, At
      <3>3. QED
        BY <1>0, <2>1, <2>3, <3>2, AwaitGoesToClose DEF At, Reporting
    <2>4. QED
      BY <1>2, <2>2, <2>3 DEF OnMessageReceived
  <1>3. CASE OnMessage
    <2>1. /\ At("messageEvent", "onMessage")
          /\ UNCHANGED << closed, alive, socket, verdict, reports >>
      BY <1>3 DEF OnMessage
    <2>2. \A b \in Activities : b # "messageEvent" => act'[b].pc = act[b].pc
      BY <1>0, <1>3, ReturnsFrom DEF OnMessage
    <2>3. QED
      BY <2>1, <2>2, AwaitAside DEF At
  <1>4. CASE ConnectionEnds
    <2>1. /\ socket = "open" /\ socket' \in Ended \ {"refused"}
          /\ UNCHANGED << closed, alive, act, verdict, reports >>
      BY <1>4 DEF ConnectionEnds
    <2>2. Attempt' /\ Raised' /\ Owed'
      BY <2>1 DEF Await, Attempt, Raised, Owed, At, Ended
    <2>3. Unfinished'
      BY <2>1, UnfinishedStays DEF Await
    <2>4. QED
      BY <2>2, <2>3 DEF Await
  <1>5. QED
    BY <1>1, <1>2, <1>3, <1>4

LEMMA AwaitStep ==
    ASSUME Inv, Await, [Next]_vars
    PROVE  Await'
  <1>1. CASE \E t \in Clients : Open(t) \/ Send(t) \/ Close(t) \/ Destroy(t)
    BY <1>1, AwaitClient
  <1>2. CASE \E a \in Activities : Proceeds(a)
    BY <1>2, AwaitCloseOnce
  <1>3. CASE \/ Connected \/ Stored \/ Welcome \/ OnOpen
             \/ \E a \in Continuations : FaultIsTested(a)
    BY <1>3, AwaitContinuation
  <1>4. CASE OnWebSocketClosed \/ OnMessageReceived \/ OnMessage \/ ConnectionEnds
    BY <1>4, AwaitEvent
  <1>5. CASE UNCHANGED vars
    BY <1>5 DEF vars, Await, Attempt, Raised, Owed, Unfinished, At
  <1>6. QED
    BY <1>1, <1>2, <1>3, <1>4, <1>5 DEF Next, Continues

\* As long as the object is there, an end that nobody has judged is about to be
\* by an activity, an event or a continuation that is still to come, and one that
\* is judged but not told is in the hands of who judged it: the flag, the
\* continuations that find their operation failed and the Closed event leave no
\* gap between them, however they interleave.
THEOREM NoEndIsLost == Spec => []NoEndGoesUnnoticed
  <1>1. Init => Await
    <2> SUFFICES ASSUME Init PROVE Await
      OBVIOUS
    <2>1. Attempt /\ Owed /\ Unfinished
      BY DEF Init, Attempt, Owed, Unfinished, Ended
    <2>2. Raised
      BY ActivitiesAre DEF Init, Raised, At, Resting
    <2>3. QED
      BY <2>1, <2>2 DEF Await
  <1>2. Inv /\ Await /\ [Next]_vars => Await'
    BY AwaitStep
  <1>3. Inv /\ Await => NoEndGoesUnnoticed
    <2> SUFFICES ASSUME Inv, Await PROVE NoEndGoesUnnoticed
      OBVIOUS
    <2>1. verdict[1] = 0 => ~closed
      BY DEF Inv, Judged
    <2>2. QED
      BY <2>1 DEF Await, Owed, Unfinished, NoEndGoesUnnoticed, Reporting
  <1>4. QED
    BY <1>1, <1>2, <1>3, Invariance, PTL DEF Spec

-----------------------------------------------------------------------------
(* The object implements SocketContract.                                   *)

LEMMA ContractStep ==
    ASSUME Inv, [Next]_vars
    PROVE  [Contract!Next]_Contract!socketVars
  <1>a. ASSUME UNCHANGED << opened, verdict, reports >>
        PROVE  UNCHANGED Contract!socketVars
    BY <1>a DEF Contract!socketVars
  <1>1. CASE \E t \in Clients : Open(t)
    <2>1. Contract!Open
      BY <1>1 DEF Open, Contract!Open
    <2>2. QED
      BY <2>1 DEF Contract!Next
  <1>2. CASE \E a \in Activities : Judge(a)
    <2>1. PICK a \in Activities : Judge(a)
      BY <1>2
    <2>2. CASE closed
      BY <2>1, <2>2, <1>a DEF Judge
    <2>3. CASE ~closed
      <3>1. opened = 1 /\ verdict[1] = 0 /\ act[a].code \in Codes
        BY <2>1, <2>3, Begun DEF Judge, At, Inv, Judged, Brings
      <3>2. /\ verdict' = [verdict EXCEPT ![1] = act[a].code]
            /\ UNCHANGED << opened, reports >>
        BY <2>1, <2>3 DEF Judge
      <3>3. Contract!Judge(1)
        <4>1. \E code \in Codes : verdict' = [verdict EXCEPT ![1] = code]
          BY <3>1, <3>2, Zenon
        <4>2. 1 <= opened
          BY <3>1
        <4>3. QED
          BY <3>1, <3>2, <4>1, <4>2 DEF Contract!Judge
      <3>4. QED
        BY <3>3 DEF Contract!Next
    <2>4. QED
      BY <2>2, <2>3
  <1>3. CASE \E a \in Activities : OnError(a)
    <2>1. PICK a \in Activities : OnError(a)
      BY <1>3
    <2>2. /\ closed /\ verdict[1] # 0 /\ verdict[1] # 1000 /\ reports[1] = <<>>
      BY <2>1 DEF OnError, At, Inv, Judged, Reporter, Reporting, Reported
    <2>3. /\ Len(reports[1]) < Len(Contract!Expected(verdict[1]))
          /\ Contract!Expected(verdict[1])[Len(reports[1]) + 1] = "error"
      BY <2>2 DEF Contract!Expected, Contract!Normal
    <2>4. /\ reports' = [reports EXCEPT ![1] = Append(@, "error")]
          /\ UNCHANGED << opened, verdict >>
      BY <2>1 DEF OnError
    <2>5. Contract!Report(1)
      BY <2>2, <2>3, <2>4 DEF Contract!Report
    <2>6. QED
      BY <2>5 DEF Contract!Next
  <1>4. CASE \E a \in Activities : OnClose(a)
    <2>1. PICK a \in Activities : OnClose(a)
      BY <1>4
    <2>2. /\ closed /\ verdict[1] # 0
          /\ reports[1] = IF verdict[1] = 1000 THEN <<>> ELSE <<"error">>
      BY <2>1 DEF OnClose, At, Inv, Judged, Reporter, Reporting, Reported
    <2>3. /\ Len(reports[1]) < Len(Contract!Expected(verdict[1]))
          /\ Contract!Expected(verdict[1])[Len(reports[1]) + 1] = "close"
      BY <2>2 DEF Contract!Expected, Contract!Normal
    <2>4. /\ reports' = [reports EXCEPT ![1] = Append(@, "close")]
          /\ UNCHANGED << opened, verdict >>
      BY <2>1 DEF OnClose
    <2>5. Contract!Report(1)
      BY <2>2, <2>3, <2>4 DEF Contract!Report
    <2>6. QED
      BY <2>5 DEF Contract!Next
  <1>5. CASE \E t \in Clients : Send(t)
    BY <1>5, <1>a DEF Send
  <1>6. CASE \E t \in Clients : Close(t)
    BY <1>6, <1>a DEF Close
  <1>7. CASE \E t \in Clients : Destroy(t)
    BY <1>7, <1>a DEF Destroy
  <1>8. CASE Connected
    BY <1>8, <1>a DEF Connected
  <1>9. CASE Stored
    BY <1>9, <1>a DEF Stored
  <1>10. CASE Welcome
    BY <1>10, <1>a DEF Welcome
  <1>11. CASE OnOpen
    BY <1>11, <1>a DEF OnOpen
  <1>12. CASE \E a \in Continuations : FaultIsTested(a)
    BY <1>12, <1>a DEF FaultIsTested
  <1>13. CASE OnWebSocketClosed
    BY <1>13, <1>a DEF OnWebSocketClosed
  <1>14. CASE OnMessageReceived
    BY <1>14, <1>a DEF OnMessageReceived
  <1>15. CASE OnMessage
    BY <1>15, <1>a DEF OnMessage
  <1>16. CASE ConnectionEnds
    BY <1>16, <1>a DEF ConnectionEnds
  <1>17. CASE UNCHANGED vars
    BY <1>17, <1>a DEF vars
  <1>18. QED
    BY NextCases, <1>1, <1>2, <1>3, <1>4, <1>5, <1>6, <1>7, <1>8, <1>9,
       <1>10, <1>11, <1>12, <1>13, <1>14, <1>15, <1>16, <1>17

\* One exchange of m_closed decides, so whichever of the threads, continuations
\* and events get to CloseOnce, the end is judged once and reported once.
THEOREM Implements == Spec => ImplementsContract
  <1>1. Init => Contract!Init
    BY DEF Init, Contract!Init
  <1>2. Inv /\ [Next]_vars => [Contract!Next]_Contract!socketVars
    BY ContractStep
  <1>3. QED
    BY <1>1, <1>2, Invariance, PTL DEF Spec, ImplementsContract, Contract!Spec
=============================================================================
