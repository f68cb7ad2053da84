--------------------------- MODULE DetachedRequest --------------------------
(***************************************************************************)
(* What the backends that join nothing have in common: one UrlRequest of   *)
(* which Open() neither waits for a transfer nor stops it, so that several *)
(* transfers of one object may be on their way at once.  The backends,     *)
(* UrlRequestApple, UrlRequestWindows and UrlRequestAndroid, add the       *)
(* actions of their platform; UrlRequestDetached puts them together.       *)
(*                                                                         *)
(* The client holds a copy of the request until every task is done, and    *)
(* sends once per Open(), so a transfer has the number of its request.     *)
(* (On Apple, ~Impl releases the ticket before ~ImplBase aborts, and the   *)
(* handler keeps a raw `this`: nothing protects a client that does not.)   *)
(***************************************************************************)
EXTENDS ImplBase

CONSTANTS
    Platforms,  \* the backends to look at
    MaxOpens,   \* bound on the number of requests one UrlRequest carries
    ClientMay   \* the misuses the client is allowed, see DetachedAssumption

DetachedAssumption ==
    /\ Platforms \subseteq {"apple", "win32", "uwp", "android"}
    /\ MaxOpens \in Nat
    /\ ClientMay \subseteq
          { "OpenInFlight",      \* Open() before the task is done
            "SendAfterThrow" }   \* SendAsync() although Open() threw

ASSUME DetachedAssumption

VARIABLES
    platform,        \* the backend of this build
    base,            \* the ImplBase record
    responseType,    \* m_responseType
    responseBuffer,  \* m_responseBuffer, m_fileResponseBuffer
    requestHeader,   \* the entry of m_requestHeaders under one key, by request
    url,             \* m_url, m_uri, m_appPathOrUrl: [kind, of]
    cancelled,       \* m_cancellationSource
    ticket,          \* m_cancellationTicket: the transfer it would cancel
    transfer,        \* the transfers, by the request they were sent for
    client,          \* "sending" between two steps of SendAsync()
    gen,             \* history: the number of the current request
    phase            \* history: how far the current request has come

response == << base, responseBuffer >>
sendState == << requestHeader, url, cancelled, ticket >>
vars == << platform, base, responseType, responseBuffer, requestHeader, url,
           cancelled, ticket, transfer, client, gen, phase >>

Requests == 1 .. MaxOpens
Sinks == {"String", "Buffer"}
Phases == {"new", "opened", "threw", "sent", "settled"}

\* "bad" is a URL that Open() throws on.
UrlKinds == {"http", "file", "app", "bad"}
NoUrl == [kind |-> "nil", of |-> NoOne]
Urls == [kind : UrlKinds \cup {"nil"}, of : Nat]

\* pending: the system or the peer has it; queued: its callable is due;
\* started: the callable runs; stage: is the head or the body of the answer
\* next; url, header: what was sent; doomed: it was sent after an Abort;
\* stopped: the system was told to cancel it; lost: it failed on the way;
\* faulted: its task ended with an exception.
NoTransfer == [pc |-> "none", stage |-> "head", url |-> NoUrl,
               header |-> NoOne, sink |-> "String", doomed |-> FALSE,
               stopped |-> FALSE, lost |-> FALSE, faulted |-> FALSE]
Transfers ==
    [ pc : {"none", "pending", "queued", "started", "error", "complete",
            "fault", "done"},
      stage : {"head", "body"}, url : Urls, header : Nat, sink : Sinks,
      doomed : BOOLEAN, stopped : BOOLEAN, lost : BOOLEAN, faulted : BOOLEAN ]

Windows == {"win32", "uwp"}

\* UrlRequest::ResponseBuffer() reads the resolver's body when diverted.
VisibleBuffer ==
    IF ~base.usingSchemeResolver THEN responseBuffer
    ELSE IF base.resolvedBuffer = NoOne THEN {}
    ELSE {<<base.resolvedBuffer, 1>>}

-----------------------------------------------------------------------------
(* Helpers.                                                                *)

\* An Open() that forgets the body buffer of the platform.
KeptBuffer == responseBuffer

\* The body buffer of the platform after Open(), which resets it beside the
\* members of ImplBase.
ClearedBuffer == {}

\* insert() keeps the first header of a name.
InsertHeader(b, req) == [b EXCEPT !.header = IF @ = NoOne THEN req ELSE @]

OkFrom(b, req) == [b EXCEPT !.status = [code |-> 200, of |-> req]]

\* A whole body goes to one of the two sinks.
BodyGoesTo(sink, b, req) ==
    \/ /\ sink = "String"
       /\ base' = [b EXCEPT !.responseString = {<<req, 1>>}]
       /\ UNCHANGED responseBuffer
    \/ /\ sink = "Buffer"
       /\ base' = b
       /\ responseBuffer' = {<<req, 1>>}

\* A transfer goes on, and leaves the client and what is to be sent alone.
Goes(g, t) ==
    /\ transfer' = [transfer EXCEPT ![g] = t]
    /\ UNCHANGED << platform, responseType, sendState, client, gen, phase >>

At(g, pc, stage) == transfer[g].pc = pc /\ transfer[g].stage = stage

CanOpen ==
    /\ client = "idle"
    /\ gen < MaxOpens
    /\ phase # "sent" \/ "OpenInFlight" \in ClientMay

\* The rest of an Open() of the backend, which may throw once it has reset.
Opens(b, address, outcome) ==
    /\ base' = b
    /\ responseBuffer' = ClearedBuffer
    /\ url' = address
    /\ gen' = gen + 1
    /\ phase' = outcome
    /\ UNCHANGED << platform, responseType, requestHeader, cancelled, ticket,
                    transfer, client >>

\* The dispatcher passes SendAsync() on to the backend.
CanSend ==
    /\ client = "idle"
    /\ ~base.usingSchemeResolver
    /\ phase = "opened" \/ (phase = "threw" /\ "SendAfterThrow" \in ClientMay)

\* SendAsync() starts transfer t.
Sends(t) ==
    /\ transfer' = [transfer EXCEPT ![gen] = t]
    /\ phase' = "sent"
    /\ UNCHANGED << platform, response, responseType, url, cancelled, ticket, gen >>

\* SendAsync() returns a task that is complete.
SettlesAtOnce ==
    /\ phase' = "settled"
    /\ UNCHANGED << platform, responseType, responseBuffer, url, cancelled,
                    ticket, transfer, client, gen >>

-----------------------------------------------------------------------------
(* The client, on every platform.                                          *)

\* Open() diverted by BeginSchemeResolution does not reach the backend.
OpenDiverted ==
    /\ CanOpen
    /\ gen' = gen + 1
    /\ phase' = "opened"
    /\ base' = BeginSchemeResolution(base, 1)
    /\ UNCHANGED << platform, responseType, responseBuffer, sendState, transfer,
                    client >>

\* SendAsync() of a diverted request, which settles before it returns.
SendResolved ==
    /\ client = "idle"
    /\ base.usingSchemeResolver
    /\ phase = "opened"
    /\ \E result \in ResolverResults :
         base' = AcceptResult(TakeResolver(base, gen), result, responseType, gen)
    /\ phase' = "settled"
    /\ UNCHANGED << platform, responseType, responseBuffer, sendState, transfer,
                    client, gen >>

SetResponseType(type) ==
    /\ client = "idle"
    /\ responseType' = type
    /\ UNCHANGED << platform, response, sendState, transfer, client, gen, phase >>

\* Clients set headers between Open() and SendAsync().
SetRequestHeader ==
    /\ client = "idle"
    /\ phase = "opened"
    /\ requestHeader' = gen
    /\ UNCHANGED << platform, response, responseType, url, cancelled, ticket,
                    transfer, client, gen, phase >>

\* Any holder of a copy may abort, also while another one is in SendAsync().
\* Only Apple listens: the task in the ticket is cancelled, unless it is over.
Abort ==
    /\ cancelled' = TRUE
    /\ transfer' = [g \in Requests |->
         [transfer[g] EXCEPT !.stopped = @ \/ (g = ticket /\ transfer[g].pc = "pending")]]
    /\ UNCHANGED << platform, response, responseType, requestHeader, url,
                    ticket, client, gen, phase >>

-----------------------------------------------------------------------------
(* The tasks of arcana, on Windows and Android.                            *)

\* A chain of continuations of which only the first is given the source.
StartTestsTheHeadOnly(g) ==
    /\ transfer[g].pc = "queued"
    /\ Goes(g, [transfer[g] EXCEPT !.pc =
         IF cancelled /\ transfer[g].stage = "head" THEN "fault" ELSE "started"])
    /\ UNCHANGED response

\* A chain or a task that is not given the cancellation source.
StartAnyway(g) ==
    /\ transfer[g].pc = "queued"
    /\ Goes(g, [transfer[g] EXCEPT !.pc = "started"])
    /\ UNCHANGED response

\* A task or continuation made with the cancellation source looks at it before
\* it runs, and not while it does.
Start(g) ==
    /\ transfer[g].pc = "queued"
    /\ Goes(g, [transfer[g] EXCEPT !.pc = IF cancelled THEN "fault" ELSE "started"])
    /\ UNCHANGED response

\* The task that SendAsync() returned ends, with or without an exception, and
\* the client may look at the response.
Complete(g) ==
    /\ transfer[g].pc \in {"complete", "fault"}
    /\ transfer' = [transfer EXCEPT ![g].pc = "done",
                                    ![g].faulted = transfer[g].pc = "fault"]
    /\ phase' = IF g = gen THEN "settled" ELSE phase
    /\ UNCHANGED << platform, response, responseType, sendState, client, gen >>
=============================================================================
