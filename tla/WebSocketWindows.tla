-------------------------- MODULE WebSocketWindows --------------------------
(***************************************************************************)
(* A WebSocket on Windows: WebSocket::Impl around a WinRT MessageWebSocket.*)
(*                                                                         *)
(* There is no lock.  The threads of the application, the continuations of *)
(* ConnectAsync and StoreAsync and the Closed and MessageReceived events   *)
(* run at once; m_closed, exchanged atomically, decides who reports the    *)
(* end, and the cancellation source, which outlives the object, tells a    *)
(* continuation that the object is gone.  The object may be destroyed at   *)
(* any time; what an activity does that is inside it by then is undefined, *)
(* and the model lets it go on as if nothing had happened.                 *)
(*                                                                         *)
(* A MessageWebSocket connects once, and so does the client here; it sends *)
(* and closes after Open() only.  Events are not raised once the object,   *)
(* and with it its MessageWebSocket, is gone, and what a failed operation  *)
(* hands to the last continuation is taken to be a std::exception, the     *)
(* only kind it catches.                                                   *)
(***************************************************************************)
EXTENDS Integers, Sequences

CONSTANTS
    Clients,      \* threads of the application
    MaxMessages   \* bound on the messages that arrive

Continuations == {"connect", "store"}
Events == {"closedEvent", "messageEvent"}
Activities == Clients \cup Continuations \cup Events

WindowsAssumption ==
    /\ Clients \cap (Continuations \cup Events) = {}
    /\ MaxMessages \in Nat

ASSUME WindowsAssumption

VARIABLES
    closed,     \* m_closed
    alive,      \* the Impl exists; its destructor cancels m_cancellationSource
    socket,     \* what the MessageWebSocket is doing
    act,        \* activity -> where it is, and the close code it brings
    messages,   \* number of messages that arrived
    opened,     \* history: number of Open() calls
    verdict,    \* history: connection -> the close code it got, 0 for none
    reports     \* history: connection -> the callbacks that reported its end

vars == << closed, alive, socket, act, messages, opened, verdict, reports >>

\* How a connection, or the attempt at one, came to its end.
Ended == {"closed", "goneAway", "lost", "refused"}
Codes == {1000, 1001, 1006}

Resting == [pc |-> "idle", code |-> 0]

\* Where an activity is inside the Impl, its `this` in use.
Using == {"onOpen", "onMessage", "close", "onError", "onClose"}

At(a, pc) == act[a].pc = pc

Goes(a, pc, code) == act' = [act EXCEPT ![a] = [pc |-> pc, code |-> code]]

\* A call that never comes back to its caller.
Retire(a) == act' = [act EXCEPT ![a] = [Resting EXCEPT !.pc = "done"]]

\* ConnectAsync completes once, and the Closed event is raised once.
Return(a) == act' = [act EXCEPT ![a] =
    IF a \in {"connect", "closedEvent"} THEN [Resting EXCEPT !.pc = "done"] ELSE Resting]

Free(t) == t \in Clients /\ alive /\ At(t, "idle")

-----------------------------------------------------------------------------
(* Calls of the application.                                               *)

\* Open: ConnectAsync is under way, or threw, on a URL it cannot make sense of.
Open(t) ==
    /\ Free(t)
    /\ opened = 0
    /\ opened' = 1
    /\ \/ /\ socket' = "connecting"
          /\ Goes("connect", "pending", 0)
       \/ /\ socket' = "refused"
          /\ Goes(t, "close", 1006)
    /\ UNCHANGED << closed, alive, messages, verdict, reports >>

\* Send: StoreAsync is under way (one at a time is modelled), or the output
\* stream of a socket that is not open throws.
Send(t) ==
    /\ Free(t)
    /\ opened = 1
    /\ IF socket = "open" THEN At("store", "idle") /\ Goes("store", "pending", 0)
                          ELSE Goes(t, "close", 1006)
    /\ UNCHANGED << closed, alive, socket, messages, opened, verdict, reports >>

\* Close: what becomes of it is told by the Closed event, or by ConnectAsync.
Close(t) ==
    /\ Free(t)
    /\ opened = 1
    /\ socket' = IF socket = "open" THEN "closed"
                 ELSE IF socket = "connecting" THEN "refused" ELSE socket
    /\ UNCHANGED << closed, alive, act, messages, opened, verdict, reports >>

\* ~Impl, with m_cancellationSource->cancel().
Destroy(t) ==
    /\ Free(t)
    /\ alive' = FALSE
    /\ UNCHANGED << closed, socket, act, messages, opened, verdict, reports >>

-----------------------------------------------------------------------------
(* CloseOnce.                                                              *)

\* CloseOnce that reads the flag and does not set it.
JudgeUnset(a) ==
    /\ At(a, "close")
    /\ IF closed
       THEN Return(a) /\ UNCHANGED verdict
       ELSE /\ verdict' = [verdict EXCEPT ![1] = act[a].code]
            /\ Goes(a, IF act[a].code = 1000 THEN "onClose" ELSE "onError", act[a].code)
    /\ UNCHANGED << closed, alive, socket, messages, opened, reports >>

\* m_closed.exchange(true): the first to come goes on to the callbacks.
Judge(a) ==
    /\ At(a, "close")
    /\ closed' = TRUE
    /\ IF closed
       THEN Return(a) /\ UNCHANGED verdict
       ELSE /\ verdict' = [verdict EXCEPT ![1] = act[a].code]
            /\ Goes(a, IF act[a].code = 1000 THEN "onClose" ELSE "onError", act[a].code)
    /\ UNCHANGED << alive, socket, messages, opened, reports >>

\* CloseOnce that reports an abnormal end by onError alone.
OnErrorOnly(a) ==
    /\ At(a, "onError")
    /\ reports' = [reports EXCEPT ![1] = Append(@, "error")]
    /\ Return(a)
    /\ UNCHANGED << closed, alive, socket, messages, opened, verdict >>

\* An abnormal end is told by onError first.
OnError(a) ==
    /\ At(a, "onError")
    /\ reports' = [reports EXCEPT ![1] = Append(@, "error")]
    /\ Goes(a, "onClose", act[a].code)
    /\ UNCHANGED << closed, alive, socket, messages, opened, verdict >>

OnClose(a) ==
    /\ At(a, "onClose")
    /\ reports' = [reports EXCEPT ![1] = Append(@, "close")]
    /\ Return(a)
    /\ UNCHANGED << closed, alive, socket, messages, opened, verdict >>

-----------------------------------------------------------------------------
(* Continuations, which run on the thread that completes the operation.    *)

\* ConnectAsync completes.
Connected ==
    /\ At("connect", "pending")
    /\ \/ /\ socket = "connecting"
          /\ socket' = "open"
          /\ Goes("connect", "succeeded", 0)
       \/ /\ socket \in {"connecting", "refused"}
          /\ socket' = "refused"
          /\ Goes("connect", "faulted", 0)
    /\ UNCHANGED << closed, alive, messages, opened, verdict, reports >>

\* StoreAsync completes; with a socket that has ended, it fails.
Stored ==
    /\ At("store", "pending")
    /\ \/ socket = "open" /\ Return("store")
       \/ socket \in Ended /\ Goes("store", "faulted", 0)
    /\ UNCHANGED << closed, alive, socket, messages, opened, verdict, reports >>

\* The continuation of ConnectAsync is skipped once the object is gone.
Welcome ==
    /\ At("connect", "succeeded")
    /\ IF alive THEN Goes("connect", "onOpen", 0) ELSE Return("connect")
    /\ UNCHANGED << closed, alive, socket, messages, opened, verdict, reports >>

\* onOpen returns, or throws, which faults the task like a failed connection.
OnOpen ==
    /\ At("connect", "onOpen")
    /\ Return("connect") \/ Goes("connect", "faulted", 0)
    /\ UNCHANGED << closed, alive, socket, messages, opened, verdict, reports >>

\* The last continuation without the test.
FaultIsReported(a) ==
    /\ At(a, "faulted")
    /\ Goes(a, "close", 1006)
    /\ UNCHANGED << closed, alive, socket, messages, opened, verdict, reports >>

\* The last continuation tests the cancellation source before it uses `this`.
FaultIsTested(a) ==
    /\ At(a, "faulted")
    /\ IF alive THEN Goes(a, "close", 1006) ELSE Return(a)
    /\ UNCHANGED << closed, alive, socket, messages, opened, verdict, reports >>

-----------------------------------------------------------------------------
(* Events of the MessageWebSocket.                                         *)

\* The peer closes the connection, or it is lost.
ConnectionEnds ==
    /\ socket = "open"
    /\ socket' \in Ended \ {"refused"}
    /\ UNCHANGED << closed, alive, act, messages, opened, verdict, reports >>

\* OnWebSocketClosed: the end of a connection that was open.
OnWebSocketClosed ==
    /\ alive
    /\ At("closedEvent", "idle")
    /\ \/ socket = "closed" /\ Goes("closedEvent", "close", 1000)
       \/ socket = "goneAway" /\ Goes("closedEvent", "close", 1001)
       \/ socket = "lost" /\ Goes("closedEvent", "close", 1006)
    /\ UNCHANGED << closed, alive, socket, messages, opened, verdict, reports >>

\* OnMessageReceived: a message, or an exception from its reader when the
\* connection has been lost.
OnMessageReceived ==
    /\ alive
    /\ At("messageEvent", "idle")
    /\ messages < MaxMessages
    /\ messages' = messages + 1
    /\ \/ socket = "open" /\ Goes("messageEvent", "onMessage", 0)
       \/ socket = "lost" /\ Goes("messageEvent", "close", 1006)
    /\ UNCHANGED << closed, alive, socket, opened, verdict, reports >>

OnMessage ==
    /\ At("messageEvent", "onMessage")
    /\ Return("messageEvent")
    /\ UNCHANGED << closed, alive, socket, messages, opened, verdict, reports >>

-----------------------------------------------------------------------------
Init ==
    /\ closed = FALSE
    /\ alive = TRUE
    /\ socket = "new"
    /\ act = [a \in Activities |-> Resting]
    /\ messages = 0
    /\ opened = 0
    /\ verdict = <<0>>
    /\ reports = << <<>> >>

\* The steps of a call, or of a continuation, that has begun.
Proceeds(a) == Judge(a) \/ OnError(a) \/ OnClose(a)
Continues ==
    (\E a \in Continuations : FaultIsTested(a)) \/ Welcome \/ OnOpen \/ OnMessage

Next ==
    \/ \E a \in Activities : Proceeds(a)
    \/ Continues
    \/ Connected \/ Stored \/ OnWebSocketClosed \/ OnMessageReceived \/ ConnectionEnds
    \/ \E t \in Clients : Open(t) \/ Send(t) \/ Close(t) \/ Destroy(t)

Spec == Init /\ [][Next]_vars

\* Threads go on; a connection attempt that was given up completes; the end of
\* an open connection raises the Closed event.
FairSpec ==
    /\ Spec
    /\ \A a \in Activities : WF_vars(Proceeds(a))
    /\ WF_vars(Continues)
    /\ WF_vars(socket = "refused" /\ Connected)
    /\ WF_vars(OnWebSocketClosed)

-----------------------------------------------------------------------------
(* Properties.                                                             *)

TypeOK ==
    /\ closed \in BOOLEAN /\ alive \in BOOLEAN
    /\ socket \in {"new", "connecting", "open"} \cup Ended
    /\ act \in [Activities -> [pc : Using \cup {"idle", "pending", "succeeded", "faulted", "done"},
                               code : Codes \cup {0}]]
    /\ \A t \in Clients : act[t].pc \in {"idle", "close", "onError", "onClose"}
    /\ messages \in 0 .. MaxMessages
    /\ opened \in 0 .. 1
    /\ verdict \in [{1} -> Codes \cup {0}]

\* A continuation that comes to run after the destructor does not enter the
\* object: whatever it has to report, it looks at the cancellation source first.
\* (One that is past the test when the destructor runs is not protected.)
NoContinuationEntersTheDead ==
    [][ \A a \in Continuations :
          (~alive /\ act[a].pc \notin Using) => act'[a].pc \notin Using ]_vars

Contract == INSTANCE SocketContract WITH Connections <- {1}

\* However far its report has come, an end is on its way to the application: until
\* it is judged somebody is about to, or there is an event or a continuation to
\* come that will; from then on somebody is reporting it, until all is said.
NoEndGoesUnnoticed ==
    /\ alive /\ socket \in Ended /\ verdict[1] = 0 =>
          \/ \E a \in Activities : At(a, "close")
          \/ socket = "refused" /\ act["connect"].pc \in {"pending", "faulted"}
          \/ socket # "refused" /\ At("closedEvent", "idle")
    /\ verdict[1] # 0 /\ Len(reports[1]) # Len(Contract!Expected(verdict[1])) =>
          \E a \in Activities : act[a].pc \in {"onError", "onClose"}

\* The end of the connection, or of the attempt at one, is reported, unless the
\* object is destroyed before.
EveryEndIsReported ==
    (socket \in Ended) ~>
        (~alive \/ (verdict[1] # 0 /\ Len(reports[1]) = Len(Contract!Expected(verdict[1]))))

\* Whoever gets to CloseOnce, and in whatever order: judged once, reported once.
ImplementsContract == Contract!Spec
=============================================================================
