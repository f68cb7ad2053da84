--------------------------- MODULE WebSocketApple ---------------------------
(***************************************************************************)
(* A WebSocket on Apple platforms: WebSocket_ObjC, the object behind       *)
(* WebSocket::Impl, and the NSURLSession machinery that calls it back.     *)
(*                                                                         *)
(* Several threads are inside the object at once: the threads of the       *)
(* application (Open, Close and Send may be called from any, and from a    *)
(* callback too) and the operations of the delegate queues, one queue per  *)
(* connection, which the code creates without making it serial.  Each is   *)
(* an activity with a place of its own; what they share is guarded by      *)
(* @synchronized(self), and a critical section, which never calls out, is  *)
(* one step.                                                               *)
(*                                                                         *)
(* Not here: the text of messages and reasons; the destruction of the      *)
(* object while callbacks are outstanding.                                 *)
(***************************************************************************)
EXTENDS Integers, Sequences

CONSTANTS
    Clients,      \* threads of the application
    MaxOpens,     \* bound on the number of connections
    MaxMessages,  \* bound on the messages sent and received
    MayOverlap    \* may Open() be called before the last onClose?

Connections == 1 .. MaxOpens

\* The receive loop a connection starts when it opens, the delegate callbacks
\* of its end, and the completion of a message it sends.
Handlers == {"loop", "didClose", "didComplete", "sent"} \X Connections
Activities == Clients \cup Handlers

SocketAssumption ==
    /\ Clients \cap Handlers = {}
    /\ MaxOpens \in Nat
    /\ MaxMessages \in Nat
    /\ MayOverlap \in BOOLEAN

ASSUME SocketAssumption

VARIABLES
    session,   \* session and webSocketTask, set and cleared together: the
               \* number of the connection, 0 for nil
    conn,      \* connection -> what NSURLSession makes of it
    act,       \* activity -> where it is, the task or session it holds, the code
    messages,  \* number of messages sent and received
    opened,    \* history: number of Open() calls
    verdict,   \* history: connection -> the close code it got, 0 for none
    reports    \* history: connection -> the callbacks that reported its end

vars == << session, conn, act, messages, opened, verdict, reports >>

\* 1001 stands for any code of the peer's but 1000, 1006 is the library's.
Codes == {1000, 1001, 1006}
ByPeer == {"closed", "goneAway"}
Ended == ByPeer \cup {"failed", "cancelled"}
Closing == {"invalidate", "onError", "onClose"}
Resting == [pc |-> "idle", on |-> 0, code |-> 0]

At(a, pc) == act[a].pc = pc

\* Activity a goes on at pc with a task, or a session, and a close code.
Goes(a, pc, on, code) ==
    act' = [act EXCEPT ![a] = [pc |-> pc, on |-> on, code |-> code]]

\* A client is free for another call; a handler has run for good.
Return(a) == act' = [act EXCEPT ![a] = IF a \in Clients THEN Resting
                                       ELSE [Resting EXCEPT !.pc = "done"]]

-----------------------------------------------------------------------------
(* Closing once.                                                           *)

\* invalidateAndCancelWithCloseCode that leaves the session in place.
JudgeAgain(a, code) ==
    /\ UNCHANGED session
    /\ IF session = 0
       THEN Return(a) /\ UNCHANGED verdict
       ELSE /\ verdict' = [verdict EXCEPT ![session] = code]
            /\ Goes(a, "invalidate", session, code)

\* The critical section of invalidateAndCancelWithCloseCode: the first to come
\* takes the session away, the others return.
Judge(a, code) ==
    /\ session' = 0
    /\ IF session = 0
       THEN Return(a) /\ UNCHANGED verdict
       ELSE /\ verdict' = [verdict EXCEPT ![session] = code]
            /\ Goes(a, "invalidate", session, code)

\* The session is forgotten without [sessionToInvalidate invalidateAndCancel].
Abandon(a) ==
    /\ At(a, "invalidate")
    /\ Goes(a, IF act[a].code = 1000 THEN "onClose" ELSE "onError", act[a].on, act[a].code)
    /\ UNCHANGED << session, conn, messages, opened, verdict, reports >>

\* [sessionToInvalidate invalidateAndCancel], and on to the callbacks.
Invalidate(a) ==
    /\ At(a, "invalidate")
    /\ conn' = [conn EXCEPT ![act[a].on] = IF @ \in Ended THEN @ ELSE "cancelled"]
    /\ Goes(a, IF act[a].code = 1000 THEN "onClose" ELSE "onError", act[a].on, act[a].code)
    /\ UNCHANGED << session, messages, opened, verdict, reports >>

OnError(a) ==
    /\ At(a, "onError")
    /\ reports' = [reports EXCEPT ![act[a].on] = Append(@, "error")]
    /\ Goes(a, "onClose", act[a].on, act[a].code)
    /\ UNCHANGED << session, conn, messages, opened, verdict >>

OnClose(a) ==
    /\ At(a, "onClose")
    /\ reports' = [reports EXCEPT ![act[a].on] = Append(@, "close")]
    /\ Return(a)
    /\ UNCHANGED << session, conn, messages, opened, verdict >>

-----------------------------------------------------------------------------
(* Calls of the application.                                               *)

\* open: the session and the task are created under the lock ...
Open(t) ==
    /\ At(t, "idle")
    /\ opened < MaxOpens
    /\ MayOverlap \/ \A c \in 1 .. opened : "close" \in {reports[c][i] : i \in DOMAIN reports[c]}
    /\ opened' = opened + 1
    /\ session' = opened + 1
    /\ conn' = [conn EXCEPT ![opened + 1] = "created"]
    /\ Goes(t, "resume", opened + 1, 0)
    /\ UNCHANGED << messages, verdict, reports >>

\* ... and the task is started outside it, unless it was cancelled meanwhile.
Resume(t) ==
    /\ At(t, "resume")
    /\ conn' = [conn EXCEPT ![act[t].on] = IF @ = "created" THEN "connecting" ELSE @]
    /\ Return(t)
    /\ UNCHANGED << session, messages, opened, verdict, reports >>

Close(t) ==
    /\ At(t, "idle")
    /\ Judge(t, 1000)
    /\ UNCHANGED << conn, messages, opened, reports >>

\* sendMessage, which does nothing without a task.  (One completion handler at
\* a time is modelled per connection.)
Send(t) ==
    /\ At(t, "idle")
    /\ session # 0
    /\ At(<<"sent", session>>, "idle")
    /\ messages < MaxMessages
    /\ messages' = messages + 1
    /\ Goes(<<"sent", session>>, "waiting", session, 0)
    /\ UNCHANGED << session, conn, opened, verdict, reports >>

-----------------------------------------------------------------------------
(* What NSURLSession calls.                                                *)

\* didOpenWithProtocol reads openCallback under the lock.
DidOpen(c) ==
    /\ conn[c] = "connecting"
    /\ conn' = [conn EXCEPT ![c] = "open"]
    /\ Goes(<<"loop", c>>, "deliver", 0, 0)
    /\ UNCHANGED << session, messages, opened, verdict, reports >>

\* The callback, onOpen or onMessage, is called outside the lock, whatever has
\* become of the object since.
Deliver(c) ==
    LET loop == <<"loop", c>> IN
    /\ At(loop, "deliver")
    /\ Goes(loop, "called", 0, 0)
    /\ UNCHANGED << session, conn, messages, opened, verdict, reports >>

\* receiveMessage, once the callback has returned: the task is read afresh, and
\* without one the loop is over.
ReceiveMessage(c) ==
    LET loop == <<"loop", c>> IN
    /\ At(loop, "called")
    /\ IF session = 0 THEN Return(loop) ELSE Goes(loop, "waiting", session, 0)
    /\ UNCHANGED << session, conn, messages, opened, verdict, reports >>

\* The completion handler with a message, which is for onMessage if a string.
MessageArrives(c) ==
    LET loop == <<"loop", c>> IN
    /\ At(loop, "waiting")
    /\ conn[act[loop].on] = "open"
    /\ messages < MaxMessages
    /\ messages' = messages + 1
    /\ \E pc \in {"deliver", "called"} : Goes(loop, pc, 0, 0)
    /\ UNCHANGED << session, conn, opened, verdict, reports >>

\* The completion handler, of receiveMessage or of sendMessage, with an error.
TaskFails(a) ==
    /\ At(a, "waiting")
    /\ conn[act[a].on] \in Ended
    /\ Judge(a, 1006)
    /\ UNCHANGED << conn, messages, opened, reports >>

\* The completion handler of sendMessage without an error.
MessageSent(c) ==
    /\ At(<<"sent", c>>, "waiting")
    /\ conn[c] = "open"
    /\ Goes(<<"sent", c>>, "idle", 0, 0)
    /\ UNCHANGED << session, conn, messages, opened, verdict, reports >>

\* didCloseWithCloseCode, after a close by the peer.
DidClose(c) ==
    /\ conn[c] \in ByPeer
    /\ At(<<"didClose", c>>, "idle")
    /\ Judge(<<"didClose", c>>, IF conn[c] = "closed" THEN 1000 ELSE 1001)
    /\ UNCHANGED << conn, messages, opened, reports >>

\* didCompleteWithError that takes no notice of the error.
CompleteSilently(c) ==
    /\ conn[c] \in Ended
    /\ At(<<"didComplete", c>>, "idle")
    /\ Return(<<"didComplete", c>>)
    /\ UNCHANGED << session, conn, messages, opened, verdict, reports >>

\* didCompleteWithError, which comes once for every task that ends, cancelled
\* ones included; after a close by the peer there need not be an error.
DidComplete(c) ==
    /\ conn[c] \in Ended
    /\ At(<<"didComplete", c>>, "idle")
    /\ \/ Judge(<<"didComplete", c>>, 1006)
       \/ /\ conn[c] \in ByPeer
          /\ Return(<<"didComplete", c>>)
          /\ UNCHANGED << session, verdict >>
    /\ UNCHANGED << conn, messages, opened, reports >>

\* The peer closes an open connection, or a connection is refused or lost.
ConnectionEnds(c) ==
    /\ \/ conn[c] = "open" /\ \E how \in ByPeer : conn' = [conn EXCEPT ![c] = how]
       \/ conn[c] \in {"connecting", "open"} /\ conn' = [conn EXCEPT ![c] = "failed"]
    /\ UNCHANGED << session, act, messages, opened, verdict, reports >>

-----------------------------------------------------------------------------
Init ==
    /\ session = 0
    /\ conn = [c \in Connections |-> "none"]
    /\ act = [a \in Activities |-> Resting]
    /\ messages = 0
    /\ opened = 0
    /\ verdict = [c \in Connections |-> 0]
    /\ reports = [c \in Connections |-> <<>>]

\* The steps of a call that has begun.
Proceeds(a) == Invalidate(a) \/ OnError(a) \/ OnClose(a)

\* The steps that are the library's or the platform's to take.
Due ==
    \/ \E a \in Activities : Proceeds(a)
    \/ \E t \in Clients : Resume(t)
    \/ \E c \in Connections : Deliver(c) \/ ReceiveMessage(c) \/ DidClose(c) \/ DidComplete(c)
    \/ \E a \in Handlers : TaskFails(a)

\* The steps nobody can count on: the application's and the peer's.
Free ==
    \/ \E t \in Clients : Open(t) \/ Close(t) \/ Send(t)
    \/ \E c \in Connections :
          DidOpen(c) \/ MessageArrives(c) \/ MessageSent(c) \/ ConnectionEnds(c)

Next == Due \/ Free

Spec == Init /\ [][Next]_vars

\* Every thread that is inside the object goes on, and NSURLSession completes
\* every task that has ended, with didClose first if the peer closed it.
FairSpec ==
    /\ Spec
    /\ \A a \in Activities : WF_vars(Proceeds(a))
    /\ \A c \in Connections : WF_vars(DidClose(c)) /\ WF_vars(DidComplete(c))

-----------------------------------------------------------------------------
(* Properties.                                                             *)

TypeOK ==
    /\ session \in Connections \cup {0}
    /\ conn \in [Connections -> {"none", "created", "connecting", "open"} \cup Ended]
    /\ act \in [Activities -> [pc : Closing \cup {"idle", "resume", "deliver", "called",
                                                "waiting", "done"},
                               on : Connections \cup {0}, code : Codes \cup {0}]]
    /\ \A t \in Clients : act[t].pc \in Closing \cup {"idle", "resume"}
    /\ messages \in 0 .. MaxMessages
    /\ opened \in 0 .. MaxOpens
    /\ verdict \in [Connections -> Codes \cup {0}]
    /\ DOMAIN reports = Connections

Contract == INSTANCE SocketContract

\* Once the end of a connection has begun to be reported, no further message of
\* it comes in: a receive that is still outstanding can only fail
\* (invalidateAndCancel comes before the callbacks).  A message whose handler
\* had begun by then is still delivered.
NothingArrivesAfterClose ==
    [][ \A c \in Connections :
          MessageArrives(c) => Len(reports[act[<<"loop", c>>].on]) = 0 ]_vars

\* However far its report has come, an end is on its way to the application: until
\* it is judged the session is still there for a callback that must come, unless
\* Open() has put another in its place; from then on somebody is reporting it,
\* until all is said.
NoEndGoesUnnoticed ==
    \A c \in Connections :
        /\ conn[c] \in Ended /\ verdict[c] = 0 =>
              IF session # c THEN MayOverlap
              ELSE \/ At(<<"didComplete", c>>, "idle")
                   \/ conn[c] \in ByPeer /\ At(<<"didClose", c>>, "idle")
        /\ verdict[c] # 0 /\ Len(reports[c]) # Len(Contract!Expected(verdict[c])) =>
              \E a \in Activities : act[a].pc \in Closing /\ act[a].on = c

\* The end of the connection, whoever caused it and whichever of the events
\* comes first or not at all, is reported to the application in the end.
EveryEndIsReported ==
    \A c \in Connections :
        conn[c] \in Ended ~> (verdict[c] # 0 /\ Len(reports[c]) = Len(Contract!Expected(verdict[c])))

\* However many connections are opened, one after the other or on top of each
\* other, and however their events interleave: judged once, reported once.
ImplementsContract == Contract!Spec
=============================================================================
