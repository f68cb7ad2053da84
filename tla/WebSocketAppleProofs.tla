------------------------ MODULE WebSocketAppleProofs ------------------------
(***************************************************************************)
(* Proofs about WebSocketApple, for any number of application threads, of  *)
(* connections and of messages, opened on top of each other or not.        *)
(***************************************************************************)
EXTENDS WebSocketApple, TLAPS

\* Every step of the specification, one disjunct per action.
LEMMA NextCases ==
    ASSUME [Next]_vars
    PROVE  \/ \E a \in Activities : Invalidate(a)
           \/ \E a \in Activities : OnError(a)
           \/ \E a \in Activities : OnClose(a)
           \/ \E t \in Clients : Resume(t)
           \/ \E c \in Connections : Deliver(c)
           \/ \E c \in Connections : ReceiveMessage(c)
           \/ \E c \in Connections : DidClose(c)
           \/ \E c \in Connections : DidComplete(c)
           \/ \E a \in Handlers : TaskFails(a)
           \/ \E t \in Clients : Open(t)
           \/ \E t \in Clients : Close(t)
           \/ \E t \in Clients : Send(t)
           \/ \E c \in Connections : DidOpen(c)
           \/ \E c \in Connections : MessageArrives(c)
           \/ \E c \in Connections : MessageSent(c)
           \/ \E c \in Connections : ConnectionEnds(c)
           \/ UNCHANGED vars
  BY DEF Next, Due, Free, Proceeds

-----------------------------------------------------------------------------
(* The inductive invariant.                                                *)

Types ==
    /\ TypeOK
    /\ reports \in [Connections -> Seq({"error", "close"})]

\* The session there is has not been judged; one that was judged was opened, and
\* one that was not has reported nothing.
Sessions ==
    /\ session # 0 => session <= opened /\ verdict[session] = 0
    /\ \A c \in Connections :
          /\ verdict[c] # 0 => c <= opened
          /\ verdict[c] = 0 => reports[c] = <<>>

\* Who took the session away, and nobody else, reports the end of the
\* connection, with the code that is its verdict.
Reporter ==
    /\ \A a \in Activities : act[a].pc \in Closing =>
          /\ act[a].on \in Connections
          /\ act[a].code = verdict[act[a].on] /\ act[a].code # 0
    /\ \A a, b \in Activities :
          act[a].pc \in Closing /\ act[b].pc \in Closing /\ act[a].on = act[b].on => a = b

\* How much has been reported by then.
Reported ==
    \A a \in Activities :
        /\ At(a, "invalidate") => reports[act[a].on] = <<>>
        /\ At(a, "onError") => act[a].code # 1000 /\ reports[act[a].on] = <<>>
        /\ At(a, "onClose") =>
              reports[act[a].on] = IF act[a].code = 1000 THEN <<>> ELSE <<"error">>

\* The session is invalidated before anything is reported, and a receive that
\* is outstanding is one of a connection.
Over ==
    /\ \A c \in Connections : reports[c] # <<>> => conn[c] \in Ended
    /\ \A a \in Activities :
          /\ act[a].pc \in {"onError", "onClose"} => conn[act[a].on] \in Ended
          /\ At(a, "waiting") => act[a].on \in Connections

Protocol == Sessions /\ Reporter /\ Reported /\ Over

Inv == Types /\ Protocol

-----------------------------------------------------------------------------
(* Types.                                                                  *)

\* The places of a connection's handlers.
LEMMA HandlerPlaces ==
    /\ Clients \subseteq Activities /\ Handlers \subseteq Activities
    /\ \A c \in Connections :
          /\ <<"loop", c>> \in Handlers /\ <<"didClose", c>> \in Handlers
          /\ <<"didComplete", c>> \in Handlers /\ <<"sent", c>> \in Handlers
    /\ \A a \in Handlers : a \in Activities /\ a \notin Clients
    /\ MaxOpens \in Nat /\ MaxMessages \in Nat
    /\ \A c \in Connections : c \in Nat /\ c # 0
  BY SocketAssumption DEF SocketAssumption, Activities, Handlers, Connections

\* TypeOK in two parts.
Places == Closing \cup {"idle", "resume", "deliver", "called", "waiting", "done"}

ActType ==
    /\ act \in [Activities -> [pc : Places, on : Connections \cup {0}, code : Codes \cup {0}]]
    /\ \A t \in Clients : act[t].pc \in Closing \cup {"idle", "resume"}

States == {"none", "created", "connecting", "open"} \cup Ended

RestType ==
    /\ session \in Connections \cup {0}
    /\ conn \in [Connections -> States]
    /\ messages \in 0 .. MaxMessages
    /\ opened \in 0 .. MaxOpens
    /\ verdict \in [Connections -> Codes \cup {0}]
    /\ reports \in [Connections -> Seq({"error", "close"})]

LEMMA TypesAre == (Types <=> ActType /\ RestType) /\ (Types' <=> ActType' /\ RestType')
  BY DEF Types, TypeOK, ActType, RestType, Places, States

\* Where an activity may go, or stop.
LEMMA GoesType ==
    ASSUME ActType, NEW a \in Activities, NEW pc \in Places,
           NEW on \in Connections \cup {0}, NEW code \in Codes \cup {0},
           Goes(a, pc, on, code),
           a \in Clients => pc \in Closing \cup {"idle", "resume"}
    PROVE  ActType'
  BY HandlerPlaces DEF ActType, Goes

LEMMA HandlerGoes ==
    ASSUME ActType, NEW a \in Handlers, NEW pc \in {"idle", "deliver", "called", "waiting"},
           NEW on \in Connections \cup {0}, Goes(a, pc, on, 0)
    PROVE  ActType'
  <1>1. a \in Activities /\ a \notin Clients /\ pc \in Places /\ 0 \in Codes \cup {0}
    BY HandlerPlaces DEF Places
  <1>2. QED
    BY <1>1, GoesType

LEMMA ReturnType ==
    ASSUME ActType, NEW a \in Activities, Return(a)
    PROVE  ActType'
  <1> DEFINE next == IF a \in Clients THEN Resting ELSE [Resting EXCEPT !.pc = "done"]
  <1>1. /\ next \in [pc : Places, on : Connections \cup {0}, code : Codes \cup {0}]
        /\ a \in Clients => next.pc = "idle"
    BY DEF Resting, Places
  <1>2. act' = [act EXCEPT ![a] = next]
    BY DEF Return
  <1> HIDE DEF next
  <1>3. QED
    BY <1>1, <1>2, HandlerPlaces DEF ActType

\* The critical section keeps the types, whoever enters it.
LEMMA JudgeType ==
    ASSUME Types, NEW a \in Activities, NEW code \in Codes, Judge(a, code),
           UNCHANGED << conn, messages, opened, reports >>
    PROVE  Types'
  <1>0. ActType /\ RestType
    BY TypesAre
  <1>1. CASE session = 0
    <2>1. ActType'
      BY <1>0, <1>1, ReturnType DEF Judge
    <2>2. RestType'
      BY <1>0, <1>1 DEF Judge, RestType
    <2>3. QED
      BY <2>1, <2>2, TypesAre
  <1>2. CASE session # 0
    <2>1. Goes(a, "invalidate", session, code) /\ session \in Connections \cup {0}
      BY <1>0, <1>2 DEF Judge, RestType
    <2>2. "invalidate" \in Places /\ "invalidate" \in Closing /\ code \in Codes \cup {0}
      BY DEF Places, Closing
    <2>3. ActType'
      BY <1>0, <2>1, <2>2, GoesType
    <2>4. session' = 0 /\ verdict' = [verdict EXCEPT ![session] = code]
      BY <1>2 DEF Judge
    <2>5. RestType'
      BY <1>0, <2>2, <2>4 DEF RestType
    <2>6. QED
      BY <2>3, <2>5, TypesAre
  <1>3. QED
    BY <1>1, <1>2

LEMMA TypeStep ==
    ASSUME Types, [Next]_vars
    PROVE  Types'
  <1>a. /\ {"onError", "onClose"} \subseteq Places \cap Closing
        /\ "resume" \in Places /\ 0 \in Codes \cup {0} /\ 0 \in Connections \cup {0}
        /\ 1000 \in Codes /\ 1001 \in Codes /\ 1006 \in Codes
        /\ {"created", "connecting", "open", "cancelled", "failed"} \subseteq States
        /\ ByPeer \subseteq States
    BY DEF Places, Closing, Codes, ByPeer, Ended, States
  <1>b. ActType /\ RestType
    BY TypesAre
  <1>c. \A a \in Activities : act[a].on \in Connections \cup {0} /\ act[a].code \in Codes \cup {0}
    BY <1>b DEF ActType
  <1>d. \A a \in Handlers : a \in Activities
    BY HandlerPlaces
  <1>1. CASE \E a \in Activities : Invalidate(a)
    <2>1. PICK a \in Activities : Invalidate(a)
      BY <1>1
    <2>2. PICK pc \in {"onError", "onClose"} : Goes(a, pc, act[a].on, act[a].code)
      BY <2>1 DEF Invalidate
    <2>3. ActType'
      BY <1>a, <1>b, <1>c, <2>2, GoesType
    <2>4. conn' \in [Connections -> States]
      <3>1. conn' = [conn EXCEPT ![act[a].on] = IF @ \in Ended THEN @ ELSE "cancelled"]
        BY <2>1 DEF Invalidate
      <3>2. QED
        BY <1>a, <1>b, <3>1 DEF RestType
    <2>5. QED
      BY <1>b, <2>1, <2>3, <2>4, TypesAre DEF Invalidate, RestType
  <1>2. CASE \E a \in Activities : OnError(a)
    <2>1. PICK a \in Activities : OnError(a)
      BY <1>2
    <2>2. ActType'
      <3>1. Goes(a, "onClose", act[a].on, act[a].code)
        BY <2>1 DEF OnError
      <3>2. "onClose" \in Places /\ "onClose" \in Closing
        BY <1>a
      <3>3. QED
        BY <1>b, <1>c, <3>1, <3>2, GoesType
    <2>3. reports' \in [Connections -> Seq({"error", "close"})]
      <3>1. reports' = [reports EXCEPT ![act[a].on] = Append(@, "error")]
        BY <2>1 DEF OnError
      <3>2. \A c \in Connections : Append(reports[c], "error") \in Seq({"error", "close"})
        BY <1>b DEF RestType
      <3>3. QED
        BY <1>b, <3>1, <3>2 DEF RestType
    <2>4. QED
      BY <1>b, <2>1, <2>2, <2>3, TypesAre DEF OnError, RestType
  <1>3. CASE \E a \in Activities : OnClose(a)
    <2>1. PICK a \in Activities : OnClose(a)
      BY <1>3
    <2>2. ActType'
      BY <1>b, <2>1, ReturnType DEF OnClose
    <2>3. reports' \in [Connections -> Seq({"error", "close"})]
      <3>1. reports' = [reports EXCEPT ![act[a].on] = Append(@, "close")]
        BY <2>1 DEF OnClose
      <3>2. \A c \in Connections : Append(reports[c], "close") \in Seq({"error", "close"})
        BY <1>b DEF RestType
      <3>3. QED
        BY <1>b, <3>1, <3>2 DEF RestType
    <2>4. QED
      BY <1>b, <2>1, <2>2, <2>3, TypesAre DEF OnClose, RestType
  <1>4. CASE \E t \in Clients : Resume(t)
    <2>1. PICK t \in Clients : Resume(t)
      BY <1>4
    <2>2. ActType'
      BY <1>b, <2>1, ReturnType, HandlerPlaces DEF Resume
    <2>3. conn' \in [Connections -> States]
      BY <1>a, <1>b, <2>1 DEF Resume, RestType
    <2>4. QED
      BY <1>b, <2>1, <2>2, <2>3, TypesAre DEF Resume, RestType
  <1>5. CASE \E c \in Connections : Deliver(c)
    <2>1. PICK c \in Connections : Deliver(c)
      BY <1>5
    <2>2. ActType'
      BY <1>a, <1>b, <2>1, HandlerGoes, HandlerPlaces DEF Deliver
    <2>3. QED
      BY <1>b, <2>1, <2>2, TypesAre DEF Deliver, RestType
  <1>6. CASE \E c \in Connections : ReceiveMessage(c)
    <2>1. PICK c \in Connections : ReceiveMessage(c)
      BY <1>6
    <2>2. <<"loop", c>> \in Handlers /\ <<"loop", c>> \in Activities
      BY HandlerPlaces
    <2>3. session \in Connections \cup {0}
      BY <1>b DEF RestType
    <2>4. ActType'
      BY <1>b, <2>1, <2>2, <2>3, ReturnType, HandlerGoes DEF ReceiveMessage
    <2>5. QED
      BY <1>b, <2>1, <2>4, TypesAre DEF ReceiveMessage, RestType
  <1>7. CASE \E c \in Connections : DidClose(c)
    <2>1. PICK c \in Connections : DidClose(c)
      BY <1>7
    <2>2. /\ UNCHANGED << conn, messages, opened, reports >>
          /\ <<"didClose", c>> \in Activities
      BY <2>1, HandlerPlaces DEF DidClose
    <2>3. CASE conn[c] = "closed"
      BY <1>a, <2>1, <2>2, <2>3, JudgeType DEF DidClose
    <2>4. CASE conn[c] # "closed"
      BY <1>a, <2>1, <2>2, <2>4, JudgeType DEF DidClose
    <2>5. QED
      BY <2>3, <2>4
  <1>8. CASE \E c \in Connections : DidComplete(c)
    <2>1. PICK c \in Connections : DidComplete(c)
      BY <1>8
    <2>2. /\ UNCHANGED << conn, messages, opened, reports >>
          /\ <<"didComplete", c>> \in Activities
      BY <2>1, HandlerPlaces DEF DidComplete
    <2>3. CASE Judge(<<"didComplete", c>>, 1006)
      BY <1>a, <2>2, <2>3, JudgeType
    <2>4. CASE Return(<<"didComplete", c>>) /\ UNCHANGED << session, verdict >>
      <3>1. ActType'
        BY <1>b, <2>2, <2>4, ReturnType
      <3>2. QED
        BY <1>b, <2>2, <2>4, <3>1, TypesAre DEF RestType
    <2>5. QED
      BY <2>1, <2>3, <2>4 DEF DidComplete
  <1>9. CASE \E a \in Handlers : TaskFails(a)
    BY <1>9, <1>a, <1>d, JudgeType DEF TaskFails
  <1>10. CASE \E t \in Clients : Open(t)
    <2>1. PICK t \in Clients : Open(t)
      BY <1>10
    <2>2. opened + 1 \in Connections /\ opened + 1 \in 0 .. MaxOpens
      BY <1>b, <2>1, HandlerPlaces DEF Open, RestType, Connections
    <2>3. ActType'
      <3>1. t \in Activities /\ Goes(t, "resume", opened + 1, 0)
        BY <2>1, HandlerPlaces DEF Open
      <3>2. QED
        BY <1>a, <1>b, <2>2, <3>1, GoesType
    <2>4. conn' \in [Connections -> States]
      BY <1>a, <1>b, <2>1 DEF Open, RestType
    <2>5. QED
      BY <1>b, <2>1, <2>2, <2>3, <2>4, TypesAre DEF Open, RestType
  <1>11. CASE \E t \in Clients : Close(t)
    BY <1>11, <1>a, HandlerPlaces, JudgeType DEF Close
  <1>12. CASE \E t \in Clients : Send(t)
    <2>1. PICK t \in Clients : Send(t)
      BY <1>12
    <2>2. session \in Connections /\ <<"sent", session>> \in Handlers
      BY <1>b, <2>1, HandlerPlaces DEF Send, RestType
    <2>3. ActType'
      BY <1>b, <2>1, <2>2, HandlerGoes DEF Send
    <2>4. messages + 1 \in 0 .. MaxMessages
      BY <1>b, <2>1, HandlerPlaces DEF Send, RestType
    <2>5. QED
      BY <1>b, <2>1, <2>3, <2>4, TypesAre DEF Send, RestType
  <1>13. CASE \E c \in Connections : DidOpen(c)
    <2>1. PICK c \in Connections : DidOpen(c)
      BY <1>13
    <2>2. ActType'
      BY <1>a, <1>b, <2>1, HandlerGoes, HandlerPlaces DEF DidOpen
    <2>3. conn' \in [Connections -> States]
      BY <1>a, <1>b, <2>1 DEF DidOpen, RestType
    <2>4. QED
      BY <1>b, <2>1, <2>2, <2>3, TypesAre DEF DidOpen, RestType
  <1>14. CASE \E c \in Connections : MessageArrives(c)
    <2>1. PICK c \in Connections : MessageArrives(c)
      BY <1>14
    <2>2. ActType'
      BY <1>a, <1>b, <2>1, HandlerGoes, HandlerPlaces DEF MessageArrives
    <2>3. messages + 1 \in 0 .. MaxMessages
      BY <1>b, <2>1, HandlerPlaces DEF MessageArrives, RestType
    <2>4. QED
      BY <1>b, <2>1, <2>2, <2>3, TypesAre DEF MessageArrives, RestType
  <1>15. CASE \E c \in Connections : MessageSent(c)
    <2>1. PICK c \in Connections : MessageSent(c)
      BY <1>15
    <2>2. ActType'
      BY <1>a, <1>b, <2>1, HandlerGoes, HandlerPlaces DEF MessageSent
    <2>3. QED
      BY <1>b, <2>1, <2>2, TypesAre DEF MessageSent, RestType
  <1>16. CASE \E c \in Connections : ConnectionEnds(c)
    <2>1. PICK c \in Connections : ConnectionEnds(c)
      BY <1>16
    <2>2. PICK how \in States : conn' = [conn EXCEPT ![c] = how]
      BY <1>a, <2>1 DEF ConnectionEnds
    <2>3. conn' \in [Connections -> States]
      BY <1>b, <2>2 DEF RestType
    <2>4. UNCHANGED << session, act, messages, opened, verdict, reports >>
      BY <2>1 DEF ConnectionEnds
    <2>5. ActType' /\ RestType'
      BY <1>b, <2>3, <2>4 DEF RestType, ActType
    <2>6. QED
      BY <2>5, TypesAre
  <1>17. CASE UNCHANGED vars
    BY <1>b, <1>17, TypesAre DEF vars, ActType, RestType
  <1>18. QED
    BY NextCases, <1>1, <1>2, <1>3, <1>4, <1>5, <1>6, <1>7, <1>8, <1>9, <1>10,
       <1>11, <1>12, <1>13, <1>14, <1>15, <1>16, <1>17

-----------------------------------------------------------------------------
(* The protocol, first for the steps that neither judge nor report.        *)

\* What the rest of the state may do meanwhile.
Undisturbed ==
    /\ UNCHANGED << verdict, reports >>
    /\ opened' \in Nat /\ opened <= opened'
    /\ session' # 0 => session' <= opened' /\ verdict[session'] = 0
    /\ \A c \in Connections : c <= opened /\ conn[c] \in Ended => conn'[c] \in Ended

\* What has been reported on has been opened.
LEMMA Opened ==
    ASSUME Inv
    PROVE  /\ opened \in Nat
           /\ \A c \in Connections : reports[c] # <<>> => c <= opened
           /\ \A a \in Activities : act[a].pc \in Closing =>
                 act[a].on \in Connections /\ act[a].on <= opened
  BY HandlerPlaces DEF Inv, Types, TypeOK, Protocol, Sessions, Reporter

LEMMA QuietStep ==
    ASSUME Inv, NEW a \in Activities, NEW next,
           act' = [act EXCEPT ![a] = next], next.pc \notin Closing,
           next.pc = "waiting" => next.on \in Connections,
           Undisturbed
    PROVE  Protocol'
  <1>1. \A b \in Activities : act'[b] = IF b = a THEN next ELSE act[b]
    BY DEF Inv, Types, TypeOK
  <1>2. Sessions'
    BY HandlerPlaces, Opened DEF Inv, Protocol, Sessions, Undisturbed
  <1>3. Reporter'
    BY <1>1 DEF Inv, Protocol, Reporter, Undisturbed
  <1>4. Reported'
    BY <1>1 DEF Inv, Protocol, Reported, At, Closing, Undisturbed
  <1>5. Over'
    <2>1. \A c \in Connections : reports'[c] # <<>> => conn'[c] \in Ended
      BY Opened DEF Inv, Protocol, Over, Undisturbed
    <2>2. ASSUME NEW b \in Activities
          PROVE  /\ act'[b].pc \in {"onError", "onClose"} => conn'[act'[b].on] \in Ended
                 /\ act'[b].pc = "waiting" => act'[b].on \in Connections
      <3>1. CASE b = a
        BY <1>1, <3>1 DEF Closing
      <3>2. CASE b # a
        BY <1>1, <3>2, Opened DEF Inv, Protocol, Over, At, Closing, Undisturbed
      <3>3. QED
        BY <3>1, <3>2
    <2>3. QED
      BY <2>1, <2>2 DEF Over, At
  <1>6. QED
    BY <1>2, <1>3, <1>4, <1>5 DEF Protocol

LEMMA GoesQuietly ==
    ASSUME Inv, NEW a \in Activities, NEW pc, NEW on, NEW code, Goes(a, pc, on, code),
           pc \notin Closing, pc = "waiting" => on \in Connections, Undisturbed
    PROVE  Protocol'
  <1> DEFINE next == [pc |-> pc, on |-> on, code |-> code]
  <1>1. /\ act' = [act EXCEPT ![a] = next]
        /\ next.pc \notin Closing /\ (next.pc = "waiting" => next.on \in Connections)
    BY DEF Goes
  <1> HIDE DEF next
  <1>2. QED
    BY <1>1, QuietStep

\* An activity that is over reports nothing any more.
LEMMA Returns ==
    ASSUME NEW a \in Activities, Return(a)
    PROVE  \E next : /\ act' = [act EXCEPT ![a] = next]
                     /\ next.pc \in {"idle", "done"}
  <1> DEFINE next == IF a \in Clients THEN Resting ELSE [Resting EXCEPT !.pc = "done"]
  <1>1. act' = [act EXCEPT ![a] = next]
    BY DEF Return
  <1>2. next.pc \in {"idle", "done"}
    BY DEF Resting
  <1>3. QED
    BY <1>1, <1>2

LEMMA ReturnsQuietly ==
    ASSUME Inv, NEW a \in Activities, Return(a), Undisturbed
    PROVE  Protocol'
  BY Returns, QuietStep DEF Closing

\* No activity moves at all.
LEMMA StillStep ==
    ASSUME Inv, act' = act, Undisturbed
    PROVE  Protocol'
  <1>1. Sessions'
    BY HandlerPlaces, Opened DEF Inv, Protocol, Sessions, Undisturbed
  <1>2. Reporter' /\ Reported'
    BY DEF Inv, Protocol, Reporter, Reported, At, Undisturbed
  <1>3. Over'
    <2>1. \A c \in Connections : reports'[c] # <<>> => conn'[c] \in Ended
      BY Opened DEF Inv, Protocol, Over, Undisturbed
    <2>2. ASSUME NEW b \in Activities
          PROVE  /\ act'[b].pc \in {"onError", "onClose"} => conn'[act'[b].on] \in Ended
                 /\ act'[b].pc = "waiting" => act'[b].on \in Connections
      BY Opened DEF Inv, Protocol, Over, At, Closing, Undisturbed
    <2>3. QED
      BY <2>1, <2>2 DEF Over, At
  <1>4. QED
    BY <1>1, <1>2, <1>3 DEF Protocol

-----------------------------------------------------------------------------
(* The critical section of the first to come.                              *)

LEMMA JudgeStep ==
    ASSUME Inv, NEW a \in Activities, NEW code \in Codes, Judge(a, code),
           UNCHANGED << conn, messages, opened, reports >>
    PROVE  Protocol'
  <1>0. opened \in Nat /\ session \in Connections \cup {0}
    BY Opened DEF Inv, Types, TypeOK
  <1>1. CASE session = 0
    <2>1. Return(a) /\ Undisturbed
      BY <1>0, <1>1 DEF Judge, Undisturbed
    <2>2. QED
      BY <2>1, ReturnsQuietly
  <1>2. CASE session # 0
    <2> DEFINE next == [pc |-> "invalidate", on |-> session, code |-> code]
    <2>1. /\ session' = 0 /\ session \in Connections /\ code # 0
          /\ verdict' = [verdict EXCEPT ![session] = code]
          /\ act' = [act EXCEPT ![a] = next]
          /\ UNCHANGED << conn, opened, reports >>
      BY <1>0, <1>2 DEF Judge, Goes, Codes
    <2>2. /\ session <= opened /\ verdict[session] = 0 /\ reports[session] = <<>>
          /\ \A b \in Activities : act[b].pc \in Closing => act[b].on # session
      BY <1>2, <2>1 DEF Inv, Protocol, Sessions, Reporter
    <2>3. \A b \in Activities : act'[b] = IF b = a THEN next ELSE act[b]
      BY <2>1 DEF Inv, Types, TypeOK
    <2>4. \A c \in Connections : verdict'[c] = IF c = session THEN code ELSE verdict[c]
      BY <2>1 DEF Inv, Types, TypeOK
    <2>5. /\ next.pc = "invalidate" /\ next.on = session /\ next.code = code
      OBVIOUS
    <2> HIDE DEF next
    <2>6. Sessions'
      BY <2>1, <2>2, <2>4 DEF Inv, Protocol, Sessions
    <2>7. Reporter'
      BY <2>1, <2>2, <2>3, <2>4, <2>5 DEF Inv, Protocol, Reporter
    <2>8. Reported'
      BY <2>1, <2>2, <2>3, <2>5 DEF Inv, Protocol, Reported, At
    <2>9. Over'
      BY <2>1, <2>3, <2>5 DEF Inv, Protocol, Over, At
    <2>10. QED
      BY <2>6, <2>7, <2>8, <2>9 DEF Protocol
  <1>3. QED
    BY <1>1, <1>2

-----------------------------------------------------------------------------
(* The reports, which only the one who judged makes.                       *)

LEMMA InvalidateStep ==
    ASSUME Inv, NEW a \in Activities, Invalidate(a)
    PROVE  Protocol'
  <1> DEFINE c == act[a].on
             next == [pc |-> IF act[a].code = 1000 THEN "onClose" ELSE "onError",
                      on |-> act[a].on, code |-> act[a].code]
  <1>1. /\ c \in Connections /\ reports[c] = <<>> /\ act[a].pc \in Closing
        /\ \A b \in Activities : act[b].pc \in Closing /\ act[b].on = c => b = a
        /\ act[a].code = verdict[c] /\ act[a].code # 0
    BY DEF Invalidate, At, Inv, Protocol, Reporter, Reported, Closing
  <1>2. /\ act' = [act EXCEPT ![a] = next]
        /\ conn' = [conn EXCEPT ![c] = IF @ \in Ended THEN @ ELSE "cancelled"]
        /\ UNCHANGED << session, opened, verdict, reports >>
    BY DEF Invalidate, Goes
  <1>3. \A b \in Activities : act'[b] = IF b = a THEN next ELSE act[b]
    BY <1>2 DEF Inv, Types, TypeOK
  <1>4. /\ conn'[c] \in Ended
        /\ \A d \in Connections : conn[d] \in Ended => conn'[d] \in Ended
    BY <1>1, <1>2 DEF Inv, Types, TypeOK, Ended
  <1>5. /\ next.pc \in {"onError", "onClose"} /\ next.on = c /\ next.code = act[a].code
        /\ next.pc = "onClose" <=> act[a].code = 1000
        /\ next.pc \in Closing /\ next.pc \notin {"invalidate", "waiting"}
    BY DEF Closing
  <1> HIDE DEF next
  <1>6. Sessions'
    BY <1>2 DEF Inv, Protocol, Sessions
  <1>7. Reporter'
    <2>1. \A b \in Activities : act'[b].pc \in Closing => act[b].pc \in Closing /\ act'[b].on = act[b].on
                                                       /\ act'[b].code = act[b].code
      BY <1>1, <1>3, <1>5
    <2>2. QED
      BY <1>2, <2>1 DEF Inv, Protocol, Reporter
  <1>8. Reported'
    BY <1>1, <1>2, <1>3, <1>5 DEF Inv, Protocol, Reported, At
  <1>9. Over'
    BY <1>1, <1>2, <1>3, <1>4, <1>5, Opened DEF Inv, Protocol, Over, At, Closing
  <1>10. QED
    BY <1>6, <1>7, <1>8, <1>9 DEF Protocol

LEMMA OnErrorStep ==
    ASSUME Inv, NEW a \in Activities, OnError(a)
    PROVE  Protocol'
  <1> DEFINE c == act[a].on
             next == [pc |-> "onClose", on |-> act[a].on, code |-> act[a].code]
  <1>1. /\ c \in Connections /\ reports[c] = <<>> /\ act[a].pc \in Closing
        /\ \A b \in Activities : act[b].pc \in Closing /\ act[b].on = c => b = a
        /\ act[a].code = verdict[c] /\ act[a].code # 0 /\ act[a].code # 1000
        /\ conn[c] \in Ended
    BY DEF OnError, At, Inv, Protocol, Reporter, Reported, Over, Closing
  <1>2. /\ act' = [act EXCEPT ![a] = next]
        /\ reports' = [reports EXCEPT ![c] = Append(@, "error")]
        /\ UNCHANGED << session, conn, opened, verdict >>
    BY DEF OnError, Goes
  <1>3. \A b \in Activities : act'[b] = IF b = a THEN next ELSE act[b]
    BY <1>2 DEF Inv, Types, TypeOK
  <1>4. \A d \in Connections : reports'[d] = IF d = c THEN <<"error">> ELSE reports[d]
    <2>1. Append(<<>>, "error") = <<"error">>
      OBVIOUS
    <2>2. QED
      BY <1>1, <1>2, <2>1 DEF Inv, Types
  <1>5. /\ next.pc = "onClose" /\ next.on = c /\ next.code = act[a].code
        /\ next.pc \in Closing
    BY DEF Closing
  <1> HIDE DEF next
  <1>6. Sessions'
    BY <1>1, <1>2, <1>4 DEF Inv, Protocol, Sessions
  <1>7. \A b \in Activities : act'[b].pc \in Closing =>
           act[b].pc \in Closing /\ act'[b].on = act[b].on /\ act'[b].code = act[b].code
    BY <1>1, <1>3, <1>5
  <1>8. Reporter'
    BY <1>2, <1>7 DEF Inv, Protocol, Reporter
  <1>9. Reported'
    <2>1. SUFFICES ASSUME NEW b \in Activities, act'[b].pc \in Closing
                   PROVE  /\ act'[b].pc = "invalidate" => reports'[act'[b].on] = <<>>
                          /\ act'[b].pc = "onError" =>
                                act'[b].code # 1000 /\ reports'[act'[b].on] = <<>>
                          /\ act'[b].pc = "onClose" =>
                                reports'[act'[b].on] =
                                   IF act'[b].code = 1000 THEN <<>> ELSE <<"error">>
      BY DEF Reported, At, Closing
    <2>2. CASE b = a
      BY <1>1, <1>3, <1>4, <1>5, <2>2
    <2>3. CASE b # a
      <3>1. act'[b] = act[b] /\ act[b].on \in Connections /\ act[b].on # c
        BY <1>1, <1>3, <2>1, <2>3, Opened
      <3>2. reports'[act'[b].on] = reports[act[b].on]
        BY <1>4, <3>1
      <3>3. QED
        BY <3>1, <3>2 DEF Inv, Protocol, Reported, At
    <2>4. QED
      BY <2>2, <2>3
  <1>10. Over'
    BY <1>1, <1>2, <1>3, <1>4, <1>5 DEF Inv, Protocol, Over, At
  <1>11. QED
    BY <1>6, <1>8, <1>9, <1>10 DEF Protocol

LEMMA OnCloseStep ==
    ASSUME Inv, NEW a \in Activities, OnClose(a)
    PROVE  Protocol'
  <1> DEFINE c == act[a].on
  <1>1. /\ c \in Connections /\ act[a].pc \in Closing
        /\ \A b \in Activities : act[b].pc \in Closing /\ act[b].on = c => b = a
        /\ verdict[c] # 0 /\ conn[c] \in Ended
    BY DEF OnClose, At, Inv, Protocol, Reporter, Over, Closing
  <1>2. PICK next : act' = [act EXCEPT ![a] = next] /\ next.pc \in {"idle", "done"}
    BY Returns DEF OnClose
  <1>3. /\ reports' = [reports EXCEPT ![c] = Append(@, "close")]
        /\ UNCHANGED << session, conn, opened, verdict >>
    BY DEF OnClose
  <1>4. \A b \in Activities : act'[b] = IF b = a THEN next ELSE act[b]
    BY <1>2 DEF Inv, Types, TypeOK
  <1>5. \A d \in Connections : d # c => reports'[d] = reports[d]
    BY <1>3 DEF Inv, Types
  <1>6. next.pc \notin Closing /\ next.pc # "waiting"
    BY <1>2 DEF Closing
  <1>7. Sessions'
    BY <1>1, <1>3, <1>5 DEF Inv, Protocol, Sessions
  <1>8. ASSUME NEW b \in Activities, act'[b].pc \in Closing
        PROVE  /\ act'[b] = act[b] /\ act[b].pc \in Closing /\ b # a
               /\ act[b].on \in Connections /\ reports'[act[b].on] = reports[act[b].on]
    <2>1. b # a /\ act'[b] = act[b] /\ act[b].pc \in Closing
      BY <1>4, <1>6, <1>8
    <2>2. act[b].on \in Connections /\ act[b].on # c
      BY <1>1, <2>1, Opened
    <2>3. QED
      BY <1>5, <2>1, <2>2
  <1>9. Reporter'
    BY <1>3, <1>8 DEF Inv, Protocol, Reporter
  <1>10. Reported'
    BY <1>8 DEF Inv, Protocol, Reported, At, Closing
  <1>11. Over'
    <2>1. \A d \in Connections : reports'[d] # <<>> => conn'[d] \in Ended
      BY <1>1, <1>3, <1>5 DEF Inv, Protocol, Over
    <2>2. \A b \in Activities : act'[b].pc \in {"onError", "onClose"} => conn'[act'[b].on] \in Ended
      BY <1>3, <1>8 DEF Inv, Protocol, Over, Closing
    <2>3. \A b \in Activities : act'[b].pc = "waiting" => act'[b].on \in Connections
      BY <1>4, <1>6 DEF Inv, Protocol, Over, At
    <2>4. QED
      BY <2>1, <2>2, <2>3 DEF Over, At
  <1>12. QED
    BY <1>7, <1>9, <1>10, <1>11 DEF Protocol

-----------------------------------------------------------------------------
(* Every step.                                                             *)

LEMMA Settled ==
    ASSUME Inv, UNCHANGED << session, conn, opened, verdict, reports >>
    PROVE  Undisturbed
  BY Opened DEF Undisturbed, Inv, Protocol, Sessions

\* What NSURLSession makes of one connection, short of undoing its end.
LEMMA ConnectionStep ==
    ASSUME Inv, UNCHANGED << session, opened, verdict, reports >>,
           NEW c, NEW how, conn' = [conn EXCEPT ![c] = how],
           c \in Connections /\ conn[c] \in Ended => how \in Ended
    PROVE  Undisturbed
  <1>1. \A d \in Connections : conn[d] \in Ended => conn'[d] \in Ended
    BY DEF Inv, Types, TypeOK
  <1>2. QED
    BY <1>1, Opened DEF Undisturbed, Inv, Protocol, Sessions

LEMMA ProtocolStep ==
    ASSUME Inv, [Next]_vars
    PROVE  Protocol'
  <1>a. \A c \in Connections :
           /\ <<"loop", c>> \in Activities /\ <<"didClose", c>> \in Activities
           /\ <<"didComplete", c>> \in Activities /\ <<"sent", c>> \in Activities
    BY HandlerPlaces
  <1>b. /\ 1000 \in Codes /\ 1001 \in Codes /\ 1006 \in Codes
        /\ {"idle", "resume", "deliver", "called", "waiting"} \cap Closing = {}
        /\ {"created", "connecting", "open"} \cap Ended = {}
        /\ ByPeer \subseteq Ended /\ "failed" \in Ended
    BY DEF Codes, Closing, Ended, ByPeer
  <1>c. /\ Clients \subseteq Activities /\ Handlers \subseteq Activities
        /\ session \in Connections \cup {0} /\ opened \in 0 .. MaxOpens /\ MaxOpens \in Nat
    BY HandlerPlaces DEF Inv, Types, TypeOK
  <1>1. CASE \E a \in Activities : Invalidate(a)
    BY <1>1, InvalidateStep
  <1>2. CASE \E a \in Activities : OnError(a)
    BY <1>2, OnErrorStep
  <1>3. CASE \E a \in Activities : OnClose(a)
    BY <1>3, OnCloseStep
  <1>4. CASE \E t \in Clients : Resume(t)
    <2>1. PICK t \in Clients : Resume(t)
      BY <1>4
    <2>2. PICK how : /\ conn' = [conn EXCEPT ![act[t].on] = how]
                     /\ conn[act[t].on] \in Ended => how = conn[act[t].on]
      BY <1>b, <2>1 DEF Resume
    <2>3. Undisturbed
      BY <2>1, <2>2, ConnectionStep DEF Resume
    <2>4. QED
      BY <1>c, <2>1, <2>3, ReturnsQuietly DEF Resume
  <1>5. CASE \E c \in Connections : Deliver(c)
    BY <1>5, <1>a, <1>b, Settled, GoesQuietly DEF Deliver
  <1>6. CASE \E c \in Connections : ReceiveMessage(c)
    <2>1. PICK c \in Connections : ReceiveMessage(c)
      BY <1>6
    <2>2. Undisturbed
      BY <2>1, Settled DEF ReceiveMessage
    <2>3. CASE session = 0
      BY <1>a, <2>1, <2>2, <2>3, ReturnsQuietly DEF ReceiveMessage
    <2>4. CASE session # 0
      BY <1>a, <1>b, <1>c, <2>1, <2>2, <2>4, GoesQuietly DEF ReceiveMessage
    <2>5. QED
      BY <2>3, <2>4
  <1>7. CASE \E c \in Connections : DidClose(c)
    <2>1. PICK c \in Connections : DidClose(c)
      BY <1>7
    <2>a. /\ UNCHANGED << conn, messages, opened, reports >>
          /\ <<"didClose", c>> \in Activities
      BY <2>1, HandlerPlaces DEF DidClose
    <2>2. CASE conn[c] = "closed"
      <3>1. Judge(<<"didClose", c>>, 1000)
        BY <2>1, <2>2 DEF DidClose
      <3>2. QED
        BY <3>1, <2>a, <1>b, JudgeStep
    <2>3. CASE conn[c] # "closed"
      <3>1. Judge(<<"didClose", c>>, 1001)
        BY <2>1, <2>3 DEF DidClose
      <3>2. QED
        BY <3>1, <2>a, <1>b, JudgeStep
    <2>4. QED
      BY <2>2, <2>3
  <1>8. CASE \E c \in Connections : DidComplete(c)
    <2>1. PICK c \in Connections : DidComplete(c)
      BY <1>8
    <2>a. /\ UNCHANGED << conn, messages, opened, reports >>
          /\ <<"didComplete", c>> \in Activities
      BY <2>1, HandlerPlaces DEF DidComplete
    <2>2. CASE Judge(<<"didComplete", c>>, 1006)
      BY <2>2, <2>a, <1>b, JudgeStep
    <2>3. CASE Return(<<"didComplete", c>>) /\ UNCHANGED << session, verdict >>
      BY <1>a, <2>1, <2>3, Settled, ReturnsQuietly DEF DidComplete
    <2>4. QED
      BY <2>1, <2>2, <2>3 DEF DidComplete
  <1>9. CASE \E a \in Handlers : TaskFails(a)
    BY <1>9, <1>b, <1>c, JudgeStep DEF TaskFails
  <1>10. CASE \E t \in Clients : Open(t)
    <2>1. PICK t \in Clients : Open(t)
      BY <1>10
    <2>2. /\ opened + 1 \in Connections /\ opened \in Nat
          /\ verdict[opened + 1] = 0
      BY <1>c, <2>1 DEF Open, Connections, Inv, Protocol, Sessions
    <2>3. /\ session' = opened + 1 /\ opened' = opened + 1
          /\ conn' = [conn EXCEPT ![opened + 1] = "created"]
          /\ UNCHANGED << verdict, reports >> /\ Goes(t, "resume", opened + 1, 0)
      BY <2>1 DEF Open
    <2>4. \A c \in Connections : c <= opened => conn'[c] = conn[c]
      BY <2>2, <2>3 DEF Inv, Types, TypeOK
    <2>5. Undisturbed
      BY <2>2, <2>3, <2>4 DEF Undisturbed
    <2>6. QED
      BY <1>b, <1>c, <2>3, <2>5, GoesQuietly
  <1>11. CASE \E t \in Clients : Close(t)
    BY <1>11, <1>b, <1>c, JudgeStep DEF Close
  <1>12. CASE \E t \in Clients : Send(t)
    <2>1. PICK t \in Clients : Send(t)
      BY <1>12
    <2>2. session \in Connections /\ Undisturbed
      BY <1>c, <2>1, Settled DEF Send
    <2>3. QED
      BY <1>a, <1>b, <2>1, <2>2, GoesQuietly DEF Send
  <1>13. CASE \E c \in Connections : DidOpen(c)
    <2>1. PICK c \in Connections : DidOpen(c)
      BY <1>13
    <2>2. Undisturbed
      BY <1>b, <2>1, ConnectionStep DEF DidOpen
    <2>3. QED
      BY <1>a, <1>b, <2>1, <2>2, GoesQuietly DEF DidOpen
  <1>14. CASE \E c \in Connections : MessageArrives(c)
    <2>1. PICK c \in Connections : MessageArrives(c)
      BY <1>14
    <2>2. PICK pc \in {"deliver", "called"} : Goes(<<"loop", c>>, pc, 0, 0)
      BY <2>1 DEF MessageArrives
    <2>3. Undisturbed
      BY <2>1, Settled DEF MessageArrives
    <2>4. QED
      BY <1>a, <1>b, <2>2, <2>3, GoesQuietly
  <1>15. CASE \E c \in Connections : MessageSent(c)
    BY <1>15, <1>a, <1>b, Settled, GoesQuietly DEF MessageSent
  <1>16. CASE \E c \in Connections : ConnectionEnds(c)
    <2>1. PICK c \in Connections : ConnectionEnds(c)
      BY <1>16
    <2>2. PICK how \in Ended : conn' = [conn EXCEPT ![c] = how]
      BY <1>b, <2>1 DEF ConnectionEnds
    <2>3. Undisturbed
      BY <2>1, <2>2, ConnectionStep DEF ConnectionEnds
    <2>4. QED
      BY <2>1, <2>3, StillStep DEF ConnectionEnds
  <1>17. CASE UNCHANGED vars
    BY <1>17, Settled, StillStep DEF vars
  <1>18. QED
    BY NextCases, <1>1, <1>2, <1>3, <1>4, <1>5, <1>6, <1>7, <1>8, <1>9, <1>10,
       <1>11, <1>12, <1>13, <1>14, <1>15, <1>16, <1>17

-----------------------------------------------------------------------------
(* The results.                                                            *)

LEMMA InvInit == Init => Inv
  <1> SUFFICES ASSUME Init PROVE Inv
    OBVIOUS
  <1>1. ActType
    BY HandlerPlaces DEF Init, ActType, Resting, Places
  <1>2. RestType
    <2>1. 0 \in 0 .. MaxMessages /\ 0 \in 0 .. MaxOpens
      BY HandlerPlaces
    <2>2. \A c \in Connections : <<>> \in Seq({"error", "close"})
      OBVIOUS
    <2>3. QED
      BY <2>1, <2>2 DEF Init, RestType, States
  <1>3. Protocol
    BY DEF Init, Protocol, Sessions, Reporter, Reported, Over, At, Resting, Closing
  <1>4. QED
    BY <1>1, <1>2, <1>3, TypesAre DEF Inv

LEMMA InvStep == Inv /\ [Next]_vars => Inv'
  BY TypeStep, ProtocolStep DEF Inv

LEMMA Invariance == Spec => []Inv
  BY InvInit, InvStep, PTL DEF Spec

\* The types of the object, of its connections and of what goes on in it.
THEOREM TypeCorrect == Spec => []TypeOK
  <1>1. Inv => TypeOK
    BY DEF Inv, Types
  <1>2. QED
    BY <1>1, Invariance, PTL

\* invalidateAndCancel comes before the callbacks, so what a receive brings
\* after the end has been reported can only be an error.
THEOREM NothingAfterClose == Spec => NothingArrivesAfterClose
  <1>1. Inv /\ [Next]_vars =>
          [ \A c \in Connections :
              MessageArrives(c) => Len(reports[act[<<"loop", c>>].on]) = 0 ]_vars
    <2>1. ASSUME Inv, NEW c \in Connections, MessageArrives(c)
          PROVE  Len(reports[act[<<"loop", c>>].on]) = 0
      <3>1. /\ act[<<"loop", c>>].on \in Connections
            /\ conn[act[<<"loop", c>>].on] = "open"
        BY <2>1, HandlerPlaces DEF MessageArrives, At, Inv, Protocol, Over
      <3>2. reports[act[<<"loop", c>>].on] = <<>>
        BY <2>1, <3>1 DEF Inv, Protocol, Over, Ended, ByPeer
      <3>3. QED
        BY <3>2
    <2>2. QED
      BY <2>1
  <1>2. QED
    BY <1>1, Invariance, PTL DEF Spec, NothingArrivesAfterClose

-----------------------------------------------------------------------------
(* The object implements SocketContract.                                   *)

LEMMA ContractJudges ==
    ASSUME Inv, NEW a \in Activities, NEW code \in Codes, Judge(a, code),
           UNCHANGED << opened, reports >>
    PROVE  [Contract!Next]_Contract!socketVars
  <1>1. CASE session = 0
    BY <1>1 DEF Judge, Contract!socketVars
  <1>2. CASE session # 0
    <2>1. /\ session \in Connections /\ session <= opened /\ verdict[session] = 0
          /\ verdict' = [verdict EXCEPT ![session] = code]
      BY <1>2 DEF Judge, Inv, Types, TypeOK, Protocol, Sessions
    <2>2. \E k \in Codes : verdict' = [verdict EXCEPT ![session] = k]
      BY <2>1, Zenon
    <2>3. Contract!Judge(session)
      BY <2>1, <2>2 DEF Contract!Judge
    <2>4. QED
      BY <2>1, <2>3 DEF Contract!Next
  <1>3. QED
    BY <1>1, <1>2

LEMMA ContractStep ==
    ASSUME Inv, [Next]_vars
    PROVE  [Contract!Next]_Contract!socketVars
  <1>a. ASSUME UNCHANGED << opened, verdict, reports >>
        PROVE  UNCHANGED Contract!socketVars
    BY <1>a DEF Contract!socketVars
  <1>b. 1000 \in Codes /\ 1001 \in Codes /\ 1006 \in Codes
    BY DEF Codes
  <1>c. /\ Clients \subseteq Activities /\ Handlers \subseteq Activities
        /\ \A c \in Connections : /\ <<"didClose", c>> \in Activities
                                  /\ <<"didComplete", c>> \in Activities
    BY HandlerPlaces
  <1>1. CASE \E a \in Activities : Invalidate(a)
    BY <1>1, <1>a DEF Invalidate
  <1>2. CASE \E a \in Activities : OnError(a)
    <2>1. PICK a \in Activities : OnError(a)
      BY <1>2
    <2> DEFINE c == act[a].on
    <2>2. /\ c \in Connections /\ verdict[c] # 0 /\ verdict[c] # 1000
          /\ reports[c] = <<>>
      BY <2>1 DEF OnError, At, Inv, Protocol, Reporter, Reported, Closing
    <2>3. /\ Len(reports[c]) < Len(Contract!Expected(verdict[c]))
          /\ Contract!Expected(verdict[c])[Len(reports[c]) + 1] = "error"
      BY <2>2 DEF Contract!Expected, Contract!Normal
    <2>4. /\ reports' = [reports EXCEPT ![c] = Append(@, "error")]
          /\ UNCHANGED << opened, verdict >>
      BY <2>1 DEF OnError
    <2>5. Contract!Report(c)
      BY <2>2, <2>3, <2>4 DEF Contract!Report
    <2>6. QED
      BY <2>2, <2>5 DEF Contract!Next
  <1>3. CASE \E a \in Activities : OnClose(a)
    <2>1. PICK a \in Activities : OnClose(a)
      BY <1>3
    <2> DEFINE c == act[a].on
    <2>2. /\ c \in Connections /\ verdict[c] # 0
          /\ reports[c] = IF verdict[c] = 1000 THEN <<>> ELSE <<"error">>
      BY <2>1 DEF OnClose, At, Inv, Protocol, Reporter, Reported, Closing
    <2>3. /\ Len(reports[c]) < Len(Contract!Expected(verdict[c]))
          /\ Contract!Expected(verdict[c])[Len(reports[c]) + 1] = "close"
      BY <2>2 DEF Contract!Expected, Contract!Normal
    <2>4. /\ reports' = [reports EXCEPT ![c] = Append(@, "close")]
          /\ UNCHANGED << opened, verdict >>
      BY <2>1 DEF OnClose
    <2>5. Contract!Report(c)
      BY <2>2, <2>3, <2>4 DEF Contract!Report
    <2>6. QED
      BY <2>2, <2>5 DEF Contract!Next
  <1>4. CASE \E t \in Clients : Resume(t)
    BY <1>4, <1>a DEF Resume
  <1>5. CASE \E c \in Connections : Deliver(c)
    BY <1>5, <1>a DEF Deliver
  <1>6. CASE \E c \in Connections : ReceiveMessage(c)
    BY <1>6, <1>a DEF ReceiveMessage
  <1>7. CASE \E c \in Connections : DidClose(c)
    <2>1. PICK c \in Connections : DidClose(c)
      BY <1>7
    <2>a. /\ UNCHANGED << conn, messages, opened, reports >>
          /\ <<"didClose", c>> \in Activities
      BY <2>1, HandlerPlaces DEF DidClose
    <2>2. CASE conn[c] = "closed"
      <3>1. Judge(<<"didClose", c>>, 1000)
        BY <2>1, <2>2 DEF DidClose
      <3>2. QED
        BY <3>1, <2>a, <1>b, ContractJudges
    <2>3. CASE conn[c] # "closed"
      <3>1. Judge(<<"didClose", c>>, 1001)
        BY <2>1, <2>3 DEF DidClose
      <3>2. QED
        BY <3>1, <2>a, <1>b, ContractJudges
    <2>4. QED
      BY <2>2, <2>3
  <1>8. CASE \E c \in Connections : DidComplete(c)
    <2>1. PICK c \in Connections : DidComplete(c)
      BY <1>8
    <2>a. /\ UNCHANGED << conn, messages, opened, reports >>
          /\ <<"didComplete", c>> \in Activities
      BY <2>1, HandlerPlaces DEF DidComplete
    <2>2. CASE Judge(<<"didComplete", c>>, 1006)
      BY <2>2, <2>a, <1>b, ContractJudges
    <2>3. CASE UNCHANGED << session, verdict >>
      BY <1>a, <2>1, <2>3 DEF DidComplete
    <2>4. QED
      BY <2>1, <2>2, <2>3 DEF DidComplete
  <1>9. CASE \E a \in Handlers : TaskFails(a)
    BY <1>9, <1>b, <1>c, ContractJudges DEF TaskFails
  <1>10. CASE \E t \in Clients : Open(t)
    <2>1. PICK t \in Clients : Open(t)
      BY <1>10
    <2>2. opened + 1 \in Connections
      BY <2>1, HandlerPlaces DEF Open, Connections, Inv, Types, TypeOK
    <2>3. Contract!Open
      BY <2>1, <2>2 DEF Open, Contract!Open
    <2>4. QED
      BY <2>3 DEF Contract!Next
  <1>11. CASE \E t \in Clients : Close(t)
    BY <1>11, <1>b, <1>c, ContractJudges DEF Close
  <1>12. CASE \E t \in Clients : Send(t)
    BY <1>12, <1>a DEF Send
  <1>13. CASE \E c \in Connections : DidOpen(c)
    BY <1>13, <1>a DEF DidOpen
  <1>14. CASE \E c \in Connections : MessageArrives(c)
    BY <1>14, <1>a DEF MessageArrives
  <1>15. CASE \E c \in Connections : MessageSent(c)
    BY <1>15, <1>a DEF MessageSent
  <1>16. CASE \E c \in Connections : ConnectionEnds(c)
    BY <1>16, <1>a DEF ConnectionEnds
  <1>17. CASE UNCHANGED vars
    BY <1>17, <1>a DEF vars
  <1>18. QED
    BY NextCases, <1>1, <1>2, <1>3, <1>4, <1>5, <1>6, <1>7, <1>8, <1>9, <1>10,
       <1>11, <1>12, <1>13, <1>14, <1>15, <1>16, <1>17

\* The lock, and taking the session away under it, is all it takes: of however
\* many connections, each is judged once and its end reported once, in order.
THEOREM Implements == Spec => ImplementsContract
  <1>1. Init => Contract!Init
    BY DEF Init, Contract!Init
  <1>2. Inv /\ [Next]_vars => [Contract!Next]_Contract!socketVars
    BY ContractStep
  <1>3. QED
    BY <1>1, <1>2, Invariance, PTL DEF Spec, ImplementsContract, Contract!Spec

-----------------------------------------------------------------------------
(* No end is lost, whatever interleaving it comes in.                      *)

Ends == {"didClose", "didComplete"} \X Connections

\* Nothing has been heard of a connection that is yet to be opened.
Beyond ==
    \A c \in Connections : c > opened =>
        /\ conn[c] = "none"
        /\ At(<<"didClose", c>>, "idle") /\ At(<<"didComplete", c>>, "idle")

\* Whoever hears of the end of the connection that is open takes its session, so
\* as long as it is there they are all to come, but for a completion without an
\* error.
Pending ==
    session # 0 =>
        /\ At(<<"didClose", session>>, "idle")
        /\ At(<<"didComplete", session>>, "idle") \/ conn[session] \in ByPeer

\* A client that waits for onClose has no other connection without a verdict.
Latest ==
    ~MayOverlap =>
        \A c \in Connections : c <= opened /\ verdict[c] = 0 => session = c

\* What has been judged has been reported, or is being reported.
Unfinished ==
    \A c \in Connections :
        verdict[c] # 0 /\ Len(reports[c]) # Len(Contract!Expected(verdict[c])) =>
            \E a \in Activities : act[a].pc \in Closing /\ act[a].on = c

\* A receive loop is started by the opening of its connection.
Early == {"none", "created", "connecting"}
LoopsStart == \A c \in Connections : conn[c] \in Early => At(<<"loop", c>>, "idle")

Await == Beyond /\ Pending /\ Latest /\ Unfinished /\ LoopsStart

\* A connection goes on without undoing its end, and none begins by itself.
ConnGoesOn ==
    \A c \in Connections :
        /\ conn[c] \in ByPeer => conn'[c] \in ByPeer
        /\ c > opened /\ conn[c] = "none" => conn'[c] = "none"
        /\ conn'[c] \in Early => conn[c] \in Early

LEMMA EndsAre ==
    /\ Ends \subseteq Activities
    /\ \A c \in Connections : <<"didClose", c>> \in Ends /\ <<"didComplete", c>> \in Ends
    /\ \A c \in Connections : <<"loop", c>> \notin Ends /\ <<"sent", c>> \notin Ends
    /\ \A t \in Clients : t \notin Ends /\ \A c \in Connections : t # <<"loop", c>>
    /\ \A c, d \in Connections :
          /\ <<"didClose", c>> # <<"didComplete", d>>
          /\ <<"loop", c>> \notin {<<"didClose", d>>, <<"didComplete", d>>, <<"sent", d>>}
          /\ <<"loop", c>> = <<"loop", d>> => c = d
          /\ <<"didClose", c>> = <<"didClose", d>> => c = d
          /\ <<"didComplete", c>> = <<"didComplete", d>> => c = d
  BY SocketAssumption DEF SocketAssumption, Ends, Activities, Handlers

\* A step that neither judges nor reports, and is not the first of an event.
LEMMA AwaitStays ==
    ASSUME Inv, Await, UNCHANGED << session, opened, verdict, reports >>, ConnGoesOn,
           \A x \in Ends : At(x, "idle") => act'[x].pc = "idle",
           \A c \in Connections : conn'[c] \in Early /\ At(<<"loop", c>>, "idle") =>
              act'[<<"loop", c>>].pc = "idle",
           \A b \in Activities : act[b].pc \in Closing =>
              act'[b].pc \in Closing /\ act'[b].on = act[b].on
    PROVE  Await'
  <1>1. session \in Connections \cup {0}
    BY DEF Inv, Types, TypeOK
  <1>2. Beyond' /\ Pending'
    BY <1>1, EndsAre DEF Await, Beyond, Pending, At, ConnGoesOn
  <1>3. Latest' /\ Unfinished'
    BY DEF Await, Latest, Unfinished
  <1>4. LoopsStart'
    BY DEF Await, LoopsStart, ConnGoesOn, At
  <1>5. QED
    BY <1>2, <1>3, <1>4 DEF Await

\* The same, when one activity moves.
LEMMA AwaitMoves ==
    ASSUME Inv, Await, UNCHANGED << session, opened, verdict, reports >>, ConnGoesOn,
           NEW a \in Activities, NEW next, act' = [act EXCEPT ![a] = next],
           a \notin Ends \/ ~At(a, "idle"),
           \A c \in Connections : a = <<"loop", c>> /\ At(a, "idle") => conn'[c] \notin Early,
           act[a].pc \in Closing => next.pc \in Closing /\ next.on = act[a].on
    PROVE  Await'
  <1>1. \A b \in Activities : act'[b] = IF b = a THEN next ELSE act[b]
    BY DEF Inv, Types, TypeOK
  <1>2. \A x \in Ends : At(x, "idle") => act'[x].pc = "idle"
    BY <1>1, EndsAre DEF At
  <1>3. \A c \in Connections : conn'[c] \in Early /\ At(<<"loop", c>>, "idle") =>
           act'[<<"loop", c>>].pc = "idle"
    BY <1>1, HandlerPlaces DEF At
  <1>4. QED
    BY <1>1, <1>2, <1>3, AwaitStays

\* Who judges was not reporting, and is called for a connection that was opened.
LEMMA AwaitJudge ==
    ASSUME Inv, Await, NEW a \in Activities, NEW code \in Codes, Judge(a, code),
           UNCHANGED << conn, opened, reports >>, act[a].pc \notin Closing,
           \A c \in Connections :
              /\ a \in {<<"didClose", c>>, <<"didComplete", c>>} /\ At(a, "idle") =>
                    conn[c] # "none"
              /\ a = <<"loop", c>> => ~At(a, "idle")
    PROVE  Await'
  <1>1. /\ session' = 0 /\ session \in Connections \cup {0}
        /\ opened \in Nat
    BY Opened DEF Judge, Inv, Types, TypeOK
  <1>2. PICK next : act' = [act EXCEPT ![a] = next]
    BY Returns DEF Judge, Goes
  <1>3. \A b \in Activities : act'[b] = IF b = a THEN next ELSE act[b]
    BY <1>2 DEF Inv, Types, TypeOK
  <1>4. Beyond'
    BY <1>3, EndsAre DEF Await, Beyond, At
  <1>5. Pending'
    BY <1>1 DEF Pending
  <1>6. \A c \in Connections :
           verdict'[c] = IF c = session THEN code ELSE verdict[c]
    <2>1. CASE session = 0
      BY <2>1, HandlerPlaces DEF Judge
    <2>2. CASE session # 0
      BY <1>1, <2>2 DEF Judge, Inv, Types, TypeOK
    <2>3. QED
      BY <2>1, <2>2
  <1>7. code # 0
    BY DEF Codes
  <1>8. Latest'
    BY <1>1, <1>6, <1>7 DEF Await, Latest
  <1>9. Unfinished'
    <2>1. SUFFICES ASSUME NEW c \in Connections, verdict'[c] # 0,
                          Len(reports'[c]) # Len(Contract!Expected(verdict'[c]))
                   PROVE  \E b \in Activities : act'[b].pc \in Closing /\ act'[b].on = c
      BY DEF Unfinished
    <2>2. CASE c = session
      <3>1. Goes(a, "invalidate", session, code)
        BY <2>2, HandlerPlaces DEF Judge
      <3>2. act'[a].pc = "invalidate" /\ act'[a].on = c
        BY <2>2, <3>1 DEF Goes, Inv, Types, TypeOK
      <3>3. QED
        BY <3>2 DEF Closing
    <2>3. CASE c # session
      <3>1. PICK b \in Activities : act[b].pc \in Closing /\ act[b].on = c
        BY <1>6, <2>1, <2>3 DEF Await, Unfinished
      <3>2. act'[b] = act[b]
        BY <1>3, <3>1
      <3>3. QED
        BY <3>1, <3>2
    <2>4. QED
      BY <2>2, <2>3
  <1>10. LoopsStart'
    BY <1>3, HandlerPlaces DEF Await, LoopsStart, At
  <1>11. QED
    BY <1>4, <1>5, <1>8, <1>9, <1>10 DEF Await

\* onError leaves onClose to be called.
LEMMA AwaitOnError ==
    ASSUME Inv, Await, NEW a \in Activities, OnError(a)
    PROVE  Await'
  <1> DEFINE next == [pc |-> "onClose", on |-> act[a].on, code |-> act[a].code]
  <1>1. /\ act' = [act EXCEPT ![a] = next] /\ act[a].pc = "onError"
        /\ reports' = [reports EXCEPT ![act[a].on] = Append(@, "error")]
        /\ UNCHANGED << session, conn, opened, verdict >>
    BY DEF OnError, Goes, At
  <1>2. \A b \in Activities : act'[b] = IF b = a THEN next ELSE act[b]
    BY <1>1 DEF Inv, Types, TypeOK
  <1>3. next.pc = "onClose" /\ next.on = act[a].on
    OBVIOUS
  <1> HIDE DEF next
  <1>4. Beyond' /\ Pending'
    <2>1. session \in Connections \cup {0}
      BY DEF Inv, Types, TypeOK
    <2>2. \A x \in Ends : At(x, "idle") => act'[x] = act[x]
      BY <1>1, <1>2, EndsAre DEF At
    <2>3. QED
      BY <1>1, <2>1, <2>2, EndsAre DEF Await, Beyond, Pending, At
  <1>5. Latest'
    BY <1>1 DEF Await, Latest
  <1>6. Unfinished'
    <2>1. SUFFICES ASSUME NEW c \in Connections, verdict'[c] # 0,
                          Len(reports'[c]) # Len(Contract!Expected(verdict'[c]))
                   PROVE  \E b \in Activities : act'[b].pc \in Closing /\ act'[b].on = c
      BY DEF Unfinished
    <2>2. CASE c = act[a].on
      BY <1>2, <1>3, <2>2 DEF Closing
    <2>3. CASE c # act[a].on
      <3>1. reports'[c] = reports[c] /\ verdict'[c] = verdict[c]
        BY <1>1, <2>3 DEF Inv, Types
      <3>2. PICK b \in Activities : act[b].pc \in Closing /\ act[b].on = c
        BY <2>1, <3>1 DEF Await, Unfinished
      <3>3. act'[b] = act[b]
        BY <1>2, <2>3, <3>2
      <3>4. QED
        BY <3>2, <3>3
    <2>4. QED
      BY <2>2, <2>3
  <1>7. LoopsStart'
    BY <1>1, <1>2, HandlerPlaces DEF Await, LoopsStart, At
  <1>8. QED
    BY <1>4, <1>5, <1>6, <1>7 DEF Await

\* onClose is the last there is to say.
LEMMA AwaitOnClose ==
    ASSUME Inv, Await, NEW a \in Activities, OnClose(a)
    PROVE  Await'
  <1>1. PICK next : act' = [act EXCEPT ![a] = next] /\ next.pc \in {"idle", "done"}
    BY Returns DEF OnClose
  <1>2. /\ act[a].pc = "onClose"
        /\ reports' = [reports EXCEPT ![act[a].on] = Append(@, "close")]
        /\ UNCHANGED << session, conn, opened, verdict >>
    BY DEF OnClose, At
  <1>3. \A b \in Activities : act'[b] = IF b = a THEN next ELSE act[b]
    BY <1>1 DEF Inv, Types, TypeOK
  <1>4. Beyond' /\ Pending'
    <2>1. session \in Connections \cup {0}
      BY DEF Inv, Types, TypeOK
    <2>2. \A x \in Ends : At(x, "idle") => act'[x] = act[x]
      BY <1>2, <1>3, EndsAre DEF At
    <2>3. QED
      BY <1>2, <2>1, <2>2, EndsAre DEF Await, Beyond, Pending, At
  <1>5. Latest'
    BY <1>2 DEF Await, Latest
  <1>6. Unfinished'
    <2>1. SUFFICES ASSUME NEW c \in Connections, verdict'[c] # 0,
                          Len(reports'[c]) # Len(Contract!Expected(verdict'[c]))
                   PROVE  \E b \in Activities : act'[b].pc \in Closing /\ act'[b].on = c
      BY DEF Unfinished
    <2>2. CASE c = act[a].on
      <3>1. /\ verdict[c] = act[a].code
            /\ reports[c] = IF act[a].code = 1000 THEN <<>> ELSE <<"error">>
        BY <1>2, <2>2 DEF Inv, Protocol, Reporter, Reported, At, Closing
      <3>2. reports'[c] = Append(reports[c], "close")
        BY <1>2, <2>2 DEF Inv, Types
      <3>3. Len(reports'[c]) = Len(Contract!Expected(verdict'[c]))
        <4>1. CASE act[a].code = 1000
          <5>1. reports[c] = <<>> /\ Len(reports'[c]) = 1
            BY <3>1, <3>2, <4>1
          <5>2. QED
            BY <1>2, <3>1, <4>1, <5>1 DEF Contract!Expected, Contract!Normal
        <4>2. CASE act[a].code # 1000
          <5>1. reports[c] = <<"error">> /\ Len(reports'[c]) = 2
            BY <3>1, <3>2, <4>2
          <5>2. QED
            BY <1>2, <3>1, <4>2, <5>1 DEF Contract!Expected, Contract!Normal
        <4>3. QED
          BY <4>1, <4>2
      <3>4. QED
        BY <2>1, <3>3
    <2>3. CASE c # act[a].on
      <3>1. reports'[c] = reports[c] /\ verdict'[c] = verdict[c]
        BY <1>2, <2>3 DEF Inv, Types
      <3>2. PICK b \in Activities : act[b].pc \in Closing /\ act[b].on = c
        BY <2>1, <3>1 DEF Await, Unfinished
      <3>3. act'[b] = act[b]
        BY <1>3, <2>3, <3>2
      <3>4. QED
        BY <3>2, <3>3
    <2>4. QED
      BY <2>2, <2>3
  <1>7. LoopsStart'
    BY <1>2, <1>3, HandlerPlaces DEF Await, LoopsStart, At
  <1>8. QED
    BY <1>4, <1>5, <1>6, <1>7 DEF Await

\* A new connection, the first that is without a verdict unless the client may
\* open one on top of another.
LEMMA AwaitOpen ==
    ASSUME Inv, Await, NEW t \in Clients, Open(t)
    PROVE  Await'
  <1>1. /\ opened \in Nat /\ opened + 1 \in Connections /\ t \in Activities
        /\ \A c \in Connections : c \in Nat
    BY HandlerPlaces, Opened DEF Open, Connections, Inv, Types, TypeOK
  <1>2. /\ session' = opened + 1 /\ opened' = opened + 1
        /\ conn' = [conn EXCEPT ![opened + 1] = "created"]
        /\ UNCHANGED << verdict, reports >> /\ At(t, "idle")
        /\ act' = [act EXCEPT ![t] = [pc |-> "resume", on |-> opened + 1, code |-> 0]]
    BY DEF Open, Goes
  <1>3. \A b \in Activities : b # t => act'[b] = act[b]
    BY <1>2 DEF Inv, Types, TypeOK
  <1>4. \A x \in Ends : act'[x] = act[x]
    BY <1>3, EndsAre
  <1>5. Beyond'
    BY <1>1, <1>2, <1>4, EndsAre DEF Await, Beyond, At, Inv, Types, TypeOK
  <1>6. Pending'
    <2>1. opened + 1 > opened
      BY <1>1
    <2>2. QED
      BY <1>1, <1>2, <1>4, <2>1, EndsAre DEF Await, Beyond, Pending, At
  <1>7. Latest'
    <2>1. SUFFICES ASSUME ~MayOverlap, NEW c \in Connections, c <= opened + 1, verdict[c] = 0
                   PROVE  c = opened + 1
      BY <1>2 DEF Latest
    <2>2. CASE c <= opened
      <3>1. c \in 1 .. opened /\ reports[c] = <<>>
        BY <1>1, <2>1, <2>2, HandlerPlaces DEF Inv, Protocol, Sessions
      <3>2. "close" \in {reports[c][i] : i \in DOMAIN reports[c]}
        BY <2>1, <3>1 DEF Open
      <3>3. QED
        BY <3>1, <3>2
    <2>3. QED
      BY <1>1, <2>1, <2>2
  <1>8. Unfinished'
    <2>1. \A b \in Activities : act[b].pc \in Closing => act'[b] = act[b]
      BY <1>2, <1>3 DEF At, Closing
    <2>2. QED
      BY <1>2, <2>1 DEF Await, Unfinished
  <1>9. LoopsStart'
    <2>1. SUFFICES ASSUME NEW c \in Connections, conn'[c] \in Early
                   PROVE  At(<<"loop", c>>, "idle")'
      BY DEF LoopsStart
    <2>2. conn[c] \in Early
      <3>1. c = opened + 1 => c > opened
        BY <1>1
      <3>2. CASE c = opened + 1
        BY <3>1, <3>2 DEF Await, Beyond, Early
      <3>3. CASE c # opened + 1
        BY <1>1, <1>2, <2>1, <3>3 DEF Inv, Types, TypeOK
      <3>4. QED
        BY <3>2, <3>3
    <2>3. act'[<<"loop", c>>] = act[<<"loop", c>>]
      BY <1>3, HandlerPlaces, EndsAre
    <2>4. QED
      BY <2>2, <2>3 DEF Await, LoopsStart, At
  <1>10. QED
    BY <1>5, <1>6, <1>7, <1>8, <1>9 DEF Await

\* Where an activity goes.
LEMMA GoesTo ==
    ASSUME NEW a, NEW pc, NEW on, NEW code, Goes(a, pc, on, code)
    PROVE  \E next : act' = [act EXCEPT ![a] = next] /\ next.pc = pc /\ next.on = on
  <1> DEFINE next == [pc |-> pc, on |-> on, code |-> code]
  <1>1. act' = [act EXCEPT ![a] = next] /\ next.pc = pc /\ next.on = on
    BY DEF Goes
  <1> HIDE DEF next
  <1>2. QED
    BY <1>1

LEMMA AwaitStep ==
    ASSUME Inv, Await, [Next]_vars
    PROVE  Await'
  <1>a. \A c \in Connections :
           /\ <<"loop", c>> \in Activities /\ <<"didClose", c>> \in Activities
           /\ <<"didComplete", c>> \in Activities /\ <<"sent", c>> \in Activities
    BY HandlerPlaces
  <1>b. /\ 1000 \in Codes /\ 1001 \in Codes /\ 1006 \in Codes
        /\ {"idle", "resume", "deliver", "called", "waiting"} \cap Closing = {}
        /\ {"none", "created", "connecting", "open"} \cap Ended = {}
        /\ ByPeer \subseteq Ended
        /\ Clients \subseteq Activities /\ Handlers \subseteq Activities
    BY HandlerPlaces DEF Codes, Closing, Ended, ByPeer
  <1>c. ASSUME UNCHANGED conn
        PROVE  ConnGoesOn
    BY <1>c DEF ConnGoesOn
  <1>1. CASE \E a \in Activities : Invalidate(a)
    <2>1. PICK a \in Activities : Invalidate(a)
      BY <1>1
    <2>2. /\ act[a].pc = "invalidate" /\ act[a].on \in Connections /\ act[a].on <= opened
          /\ conn' = [conn EXCEPT ![act[a].on] = IF @ \in Ended THEN @ ELSE "cancelled"]
          /\ UNCHANGED << session, opened, verdict, reports >>
      BY <2>1, Opened DEF Invalidate, At, Closing
    <2>3. ConnGoesOn
      BY <1>b, <2>2, HandlerPlaces, Opened DEF ConnGoesOn, Early, Inv, Types, TypeOK
    <2>4. PICK next : /\ act' = [act EXCEPT ![a] = next]
                      /\ next.pc \in {"onClose", "onError"} /\ next.on = act[a].on
      BY <2>1, GoesTo DEF Invalidate
    <2>5. QED
      BY <2>2, <2>3, <2>4, AwaitMoves DEF At, Closing
  <1>2. CASE \E a \in Activities : OnError(a)
    BY <1>2, AwaitOnError
  <1>3. CASE \E a \in Activities : OnClose(a)
    BY <1>3, AwaitOnClose
  <1>4. CASE \E t \in Clients : Resume(t)
    <2>1. PICK t \in Clients : Resume(t)
      BY <1>4
    <2>2. ConnGoesOn
      BY <2>1 DEF Resume, ConnGoesOn, Early, ByPeer, Inv, Types, TypeOK
    <2>3. PICK next : act' = [act EXCEPT ![t] = next]
      BY <1>b, <2>1, Returns DEF Resume
    <2>4. act[t].pc \notin Closing
      BY <1>b, <2>1 DEF Resume, At
    <2>5. QED
      BY <1>b, <2>1, <2>2, <2>3, <2>4, EndsAre, AwaitMoves DEF Resume
  <1>5. CASE \E c \in Connections : Deliver(c)
    <2>1. PICK c \in Connections : Deliver(c)
      BY <1>5
    <2>2. PICK next : act' = [act EXCEPT ![<<"loop", c>>] = next]
      BY <1>a, <2>1, GoesTo DEF Deliver
    <2>3. act[<<"loop", c>>].pc \notin Closing /\ act[<<"loop", c>>].pc # "idle"
      BY <1>b, <2>1 DEF Deliver, At
    <2>4. QED
      BY <1>a, <1>c, <2>1, <2>2, <2>3, EndsAre, AwaitMoves DEF Deliver, At
  <1>6. CASE \E c \in Connections : ReceiveMessage(c)
    <2>1. PICK c \in Connections : ReceiveMessage(c)
      BY <1>6
    <2>2. PICK next : act' = [act EXCEPT ![<<"loop", c>>] = next]
      BY <1>a, <2>1, GoesTo, Returns DEF ReceiveMessage
    <2>3. act[<<"loop", c>>].pc \notin Closing /\ act[<<"loop", c>>].pc # "idle"
      BY <1>b, <2>1 DEF ReceiveMessage, At
    <2>4. QED
      BY <1>a, <1>c, <2>1, <2>2, <2>3, EndsAre, AwaitMoves DEF ReceiveMessage, At
  <1>7. CASE \E c \in Connections : DidClose(c)
    <2>1. PICK c \in Connections : DidClose(c)
      BY <1>7
    <2>2. PICK code \in Codes : Judge(<<"didClose", c>>, code)
      BY <1>b, <2>1 DEF DidClose
    <2>3. /\ UNCHANGED << conn, opened, reports >>
          /\ act[<<"didClose", c>>].pc \notin Closing /\ conn[c] # "none"
      BY <1>b, <2>1 DEF DidClose, At
    <2>4. \A d \in Connections :
             /\ <<"didClose", c>> \in {<<"didClose", d>>, <<"didComplete", d>>} => conn[d] # "none"
             /\ <<"didClose", c>> # <<"loop", d>>
      BY <2>3, EndsAre
    <2> DEFINE a == <<"didClose", c>>
    <2>5. /\ a \in Activities /\ Judge(a, code) /\ act[a].pc \notin Closing
          /\ \A d \in Connections :
                /\ a \in {<<"didClose", d>>, <<"didComplete", d>>} => conn[d] # "none"
                /\ a # <<"loop", d>>
      BY <1>a, <2>2, <2>3, <2>4
    <2> HIDE DEF a
    <2>6. QED
      BY <2>3, <2>5, AwaitJudge
  <1>8. CASE \E c \in Connections : DidComplete(c)
    <2>1. PICK c \in Connections : DidComplete(c)
      BY <1>8
    <2>2. /\ UNCHANGED << conn, opened, reports >>
          /\ act[<<"didComplete", c>>].pc \notin Closing /\ conn[c] # "none"
      BY <1>b, <2>1 DEF DidComplete, At
    <2>3. CASE Judge(<<"didComplete", c>>, 1006)
      <3> DEFINE a == <<"didComplete", c>>
      <3>1. /\ a \in Activities /\ Judge(a, 1006) /\ act[a].pc \notin Closing
            /\ \A d \in Connections :
                  /\ a \in {<<"didClose", d>>, <<"didComplete", d>>} => conn[d] # "none"
                  /\ a # <<"loop", d>>
        BY <1>a, <2>2, <2>3, EndsAre
      <3> HIDE DEF a
      <3>2. QED
        BY <1>b, <2>2, <3>1, AwaitJudge
    <2>4. CASE conn[c] \in ByPeer /\ Return(<<"didComplete", c>>) /\ UNCHANGED << session, verdict >>
      <3>1. PICK next : act' = [act EXCEPT ![<<"didComplete", c>>] = next]
        BY <1>a, <2>4, Returns
      <3>2. \A b \in Activities : b # <<"didComplete", c>> => act'[b] = act[b]
        BY <3>1 DEF Inv, Types, TypeOK
      <3>3. \A d \in Connections :
               /\ act'[<<"didClose", d>>] = act[<<"didClose", d>>]
               /\ d # c => act'[<<"didComplete", d>>] = act[<<"didComplete", d>>]
               /\ act'[<<"loop", d>>] = act[<<"loop", d>>]
        BY <1>a, <3>2, EndsAre
      <3>4. Beyond'
        BY <2>2, <3>3 DEF Await, Beyond, At
      <3>5. Pending'
        <4>1. session \in Connections \cup {0}
          BY DEF Inv, Types, TypeOK
        <4>2. QED
          BY <2>2, <2>4, <3>3, <4>1 DEF Await, Pending, At
      <3>6. Latest'
        BY <2>2, <2>4 DEF Await, Latest
      <3>7. Unfinished'
        <4>1. \A b \in Activities : act[b].pc \in Closing => act'[b] = act[b]
          BY <2>2, <3>2
        <4>2. QED
          BY <2>2, <2>4, <4>1 DEF Await, Unfinished
      <3>8. LoopsStart'
        BY <2>2, <3>3 DEF Await, LoopsStart, At
      <3>9. QED
        BY <3>4, <3>5, <3>6, <3>7, <3>8 DEF Await
    <2>5. QED
      BY <2>1, <2>3, <2>4 DEF DidComplete
  <1>9. CASE \E a \in Handlers : TaskFails(a)
    <2>1. PICK a \in Handlers : TaskFails(a)
      BY <1>9
    <2>2. /\ Judge(a, 1006) /\ UNCHANGED << conn, opened, reports >> /\ a \in Activities
          /\ act[a].pc = "waiting" /\ act[a].pc \notin Closing
      BY <1>b, <2>1 DEF TaskFails, At
    <2>3. QED
      BY <1>b, <2>2, AwaitJudge DEF At
  <1>10. CASE \E t \in Clients : Open(t)
    BY <1>10, AwaitOpen
  <1>11. CASE \E t \in Clients : Close(t)
    <2>1. PICK t \in Clients : Close(t)
      BY <1>11
    <2>2. /\ Judge(t, 1000) /\ UNCHANGED << conn, opened, reports >> /\ t \in Activities
          /\ act[t].pc \notin Closing
      BY <1>b, <2>1 DEF Close, At
    <2>3. \A c \in Connections : t \notin {<<"didClose", c>>, <<"didComplete", c>>, <<"loop", c>>}
      BY EndsAre
    <2>4. QED
      BY <1>b, <2>2, <2>3, AwaitJudge
  <1>12. CASE \E t \in Clients : Send(t)
    <2>1. PICK t \in Clients : Send(t)
      BY <1>12
    <2>2. session \in Connections /\ act[<<"sent", session>>].pc \notin Closing
      BY <1>b, <2>1 DEF Send, At, Inv, Types, TypeOK
    <2>3. PICK next : act' = [act EXCEPT ![<<"sent", session>>] = next]
      BY <1>a, <2>1, <2>2, GoesTo DEF Send
    <2>4. QED
      BY <1>a, <1>c, <2>1, <2>2, <2>3, EndsAre, AwaitMoves DEF Send
  <1>13. CASE \E c \in Connections : DidOpen(c)
    <2>1. PICK c \in Connections : DidOpen(c)
      BY <1>13
    <2>2. PICK next : /\ act' = [act EXCEPT ![<<"loop", c>>] = next]
                      /\ next.pc = "deliver"
      BY <1>a, <2>1, GoesTo DEF DidOpen
    <2>3. ConnGoesOn
      BY <2>1 DEF DidOpen, ConnGoesOn, Early, ByPeer, Inv, Types, TypeOK
    <2>4. conn'[c] = "open" /\ act[<<"loop", c>>].pc \notin Closing
      BY <1>b, <2>1 DEF DidOpen, Await, LoopsStart, Early, At, Inv, Types, TypeOK
    <2>5. \A d \in Connections : <<"loop", c>> = <<"loop", d>> => conn'[d] \notin Early
      BY <2>4 DEF Early
    <2>6. QED
      BY <1>a, <2>1, <2>2, <2>3, <2>4, <2>5, EndsAre, AwaitMoves DEF DidOpen
  <1>14. CASE \E c \in Connections : MessageArrives(c)
    <2>1. PICK c \in Connections : MessageArrives(c)
      BY <1>14
    <2>2. PICK next : act' = [act EXCEPT ![<<"loop", c>>] = next]
      BY <1>a, <2>1, GoesTo DEF MessageArrives
    <2>3. act[<<"loop", c>>].pc \notin Closing /\ act[<<"loop", c>>].pc # "idle"
      BY <1>b, <2>1 DEF MessageArrives, At
    <2>4. QED
      BY <1>a, <1>c, <2>1, <2>2, <2>3, EndsAre, AwaitMoves DEF MessageArrives, At
  <1>15. CASE \E c \in Connections : MessageSent(c)
    <2>1. PICK c \in Connections : MessageSent(c)
      BY <1>15
    <2>2. PICK next : act' = [act EXCEPT ![<<"sent", c>>] = next]
      BY <1>a, <2>1, GoesTo DEF MessageSent
    <2>3. act[<<"sent", c>>].pc \notin Closing
      BY <1>b, <2>1 DEF MessageSent, At
    <2>4. QED
      BY <1>a, <1>c, <2>1, <2>2, <2>3, EndsAre, AwaitMoves DEF MessageSent
  <1>16. CASE \E c \in Connections : ConnectionEnds(c)
    <2>1. PICK c \in Connections : ConnectionEnds(c)
      BY <1>16
    <2>2. ConnGoesOn
      BY <2>1 DEF ConnectionEnds, ConnGoesOn, Early, ByPeer, Ended, Inv, Types, TypeOK
    <2>3. QED
      BY <2>1, <2>2, EndsAre, AwaitStays DEF ConnectionEnds, At
  <1>17. CASE UNCHANGED vars
    BY <1>17, <1>c, EndsAre, AwaitStays DEF vars, At
  <1>18. QED
    BY NextCases, <1>1, <1>2, <1>3, <1>4, <1>5, <1>6, <1>7, <1>8, <1>9, <1>10,
       <1>11, <1>12, <1>13, <1>14, <1>15, <1>16, <1>17

\* Between the end of a connection and the last word about it there is always a
\* callback to come, or a thread at work, that takes it further, in every
\* interleaving and for every number of threads and connections.
THEOREM NoEndIsLost == Spec => []NoEndGoesUnnoticed
  <1>1. Init => Await
    <2>1. ASSUME Init
          PROVE  Await
      <3>1. Beyond /\ LoopsStart
        BY <2>1, EndsAre, HandlerPlaces DEF Init, Beyond, LoopsStart, At, Resting
      <3>2. Pending /\ Unfinished
        BY <2>1 DEF Init, Pending, Unfinished
      <3>3. Latest
        BY <2>1, HandlerPlaces DEF Init, Latest, Connections
      <3>4. QED
        BY <3>1, <3>2, <3>3 DEF Await
    <2>2. QED
      BY <2>1
  <1>2. Inv /\ Await /\ [Next]_vars => Await'
    BY AwaitStep
  <1>3. Inv /\ Await => NoEndGoesUnnoticed
    <2>1. ASSUME Inv, Await, NEW c \in Connections, conn[c] \in Ended, verdict[c] = 0
          PROVE  IF session # c THEN MayOverlap
                 ELSE \/ At(<<"didComplete", c>>, "idle")
                      \/ conn[c] \in ByPeer /\ At(<<"didClose", c>>, "idle")
      <3>1. ~(c > opened)
        BY <2>1 DEF Await, Beyond, Ended, ByPeer
      <3>2. c <= opened
        BY <2>1, <3>1, HandlerPlaces, Opened
      <3>3. session # c => MayOverlap
        BY <2>1, <3>2 DEF Await, Latest
      <3>4. session = c => session # 0
        BY <2>1, HandlerPlaces
      <3>5. QED
        BY <2>1, <3>3, <3>4 DEF Await, Pending
    <2>2. QED
      BY <2>1 DEF NoEndGoesUnnoticed, Await, Unfinished
  <1>4. QED
    BY <1>1, <1>2, <1>3, Invariance, PTL DEF Spec
=============================================================================
