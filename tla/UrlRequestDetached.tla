-------------------------- MODULE UrlRequestDetached ------------------------
(***************************************************************************)
(* The backends that join nothing, put together: a behaviour is that of    *)
(* one UrlRequest on one of the Platforms.                                 *)
(***************************************************************************)
EXTENDS UrlRequestApple, UrlRequestWindows, UrlRequestAndroid

Init ==
    /\ platform \in Platforms
    /\ base = FreshResponse
    /\ responseType = "String"
    /\ responseBuffer = {}
    /\ requestHeader = NoOne
    /\ url = NoUrl
    /\ cancelled = FALSE
    /\ ticket = NoOne
    /\ transfer = [g \in Requests |-> NoTransfer]
    /\ client = "idle"
    /\ gen = 0
    /\ phase = "new"

ClientNext ==
    \/ OpenDiverted
    \/ SendResolved
    \/ \E type \in Sinks : SetResponseType(type)
    \/ SetRequestHeader
    \/ Abort
    \/ AppleClient
    \/ WinClient
    \/ AndroidClient

\* What waits for the peer, the file system or the operating system.
PeerNext(g) ==
    \/ AppleAnswer(g)
    \/ WinOperationEnds(g)
    \/ AndroidStatus(g)
    \/ AndroidThrowable(g)

\* What only waits for a thread.
HandlerNext(g) ==
    \/ AppleHandler(g)
    \/ Start(g)
    \/ WinChain(g)
    \/ AndroidTask(g)
    \/ Complete(g)

Next ==
    \/ ClientNext
    \/ AppleListen
    \/ \E g \in Requests : PeerNext(g) \/ HandlerNext(g)

Spec == Init /\ [][Next]_vars

\* Threads go on, and NSURLSession completes a task that was cancelled.  Nothing
\* else is assumed of the peer, and nothing of the client.
Fairness ==
    /\ WF_vars(AppleListen)
    /\ \A g \in Requests :
         /\ WF_vars(HandlerNext(g))
         /\ WF_vars(transfer[g].stopped /\ AppleAnswer(g))

FairSpec == Spec /\ Fairness

-----------------------------------------------------------------------------
(* Properties.                                                             *)

TypeOK ==
    /\ platform \in Platforms
    /\ base \in ImplBaseType
    /\ responseType \in Sinks
    /\ responseBuffer \subseteq Nat \X Nat
    /\ requestHeader \in Nat
    /\ url \in Urls
    /\ platform = "apple" => url.kind # "app"
    /\ cancelled \in BOOLEAN
    /\ ticket \in Requests \cup {NoOne}
    /\ transfer \in [Requests -> Transfers]
    /\ client \in {"idle", "sending"}
    /\ gen \in 0 .. MaxOpens
    /\ phase \in Phases

\* A request object can be reused once its task is done: nothing an accessor
\* returns was written by an earlier transfer or resolver (ResetForOpen and the
\* body buffers that each Open() resets beside it).
NoLeakAcrossOpen ==
    /\ OnlyFrom(base, gen)
    /\ PiecesOf(VisibleBuffer, gen)

\* An error never comes with a status: the handlers that record one, and the
\* Open() that finds no bundled resource, leave the status at 0.
ErrorMeansZeroStatus == Failed(base) => base.status = NoStatus

\* A transfer whose task did not fail and that settles on Ok has its whole body,
\* in one of the two places it can be read from, even if the response type was
\* changed on the way (the switches over m_responseType, and when they are made),
\* or the body was lost after the status was there.  Only Android's task swallows
\* a loss (the Throwable; see FailureMeansZeroStatus).
OkHasItsBody ==
    ( /\ phase = "settled"
      /\ ~base.usingSchemeResolver
      /\ base.status.code = 200
      /\ ~transfer[gen].faulted
      /\ platform = "android" => ~transfer[gen].lost )
    => { base.responseString, responseBuffer } = { {}, {<<gen, 1>>} }

\* Where an HTTP send clears m_requestHeaders, one object sends a header at most
\* once: what went out with one request does not go out with a later one.  (A
\* header set for a file or for a diverted request, which have no use for it, does
\* go out with the next HTTP request.)
HeadersAreNotResent ==
    platform # "apple" =>
        \A g, h \in Requests :
            (g # h /\ transfer[g].header # NoOne) => transfer[g].header # transfer[h].header

\* Once the task is done, the response stays as it is until the next Open():
\* no handler or continuation comes after the completion.
SettledResponseIsStable ==
    [][ phase = "settled" /\ phase' = "settled" /\ gen' = gen =>
          UNCHANGED response ]_vars

\* Whatever the client does, on Apple nothing is fetched for a request but the
\* URL that its own Open() was given, even if that Open() threw.
AppleSendsNoStaleUrl ==
    platform = "apple" => \A g \in Requests : transfer[g].url.of \in {NoOne, g}

\* Whatever the client does, once an aborted Apple request is out of SendAsync()
\* its last transfer is over or was told to stop, wherever the Abort() fell
\* (the ticket, and the listener that is called at once).
AbortStopsTheLast ==
    ( /\ platform = "apple" /\ cancelled /\ client = "idle"
      /\ phase = "sent" /\ transfer[gen].pc = "pending" ) => transfer[gen].stopped

\* What Abort() finds on its way to a continuation or in the queue of the thread
\* pool, however often the object is opened again, never has its answer.
BeforeItsLastTest(g) ==
    transfer[g].pc = "queued" \/ (platform \in Windows /\ transfer[g].pc = "pending")
AbortKeepsOut ==
    \A g \in Requests :
        [](cancelled /\ BeforeItsLastTest(g) => [](transfer[g].pc # "complete"))

-----------------------------------------------------------------------------
(* What the accessors show, and how the contract of UrlRequest maps to it.  *)

Writers ==
    ({base.status.of, base.statusText, base.responseUrl, base.header,
      base.error.of, base.resolvedBuffer}
       \cup {piece[1] : piece \in base.responseString \cup VisibleBuffer})
    \ {NoOne}

\* To whoever awaits a task that ended with an exception, that is the answer.
EndedInException ==
    ~base.usingSchemeResolver /\ gen > 0 /\ transfer[gen].faulted

Answer ==
    IF EndedInException
    THEN [code |-> 0, failed |-> TRUE, by |-> {}]
    ELSE [code |-> base.status.code, failed |-> Failed(base), by |-> Writers]

ContractPhase ==
    CASE phase = "threw" -> "opened"
      [] phase = "sent" /\ transfer[gen].doomed -> "doomed"
      [] OTHER -> phase

\* Nothing is promised of what the accessors show before the task completes.
ContractAnswer ==
    IF phase = "settled" THEN Answer ELSE [code |-> 0, failed |-> FALSE, by |-> {}]

\* On Apple the task is resumed before anything looks at the source, so a task
\* sent after an Abort() may win, and aborting is no part of the promise.
Contract == INSTANCE RequestContract WITH
    request <- gen, phase <- ContractPhase,
    aborted <- platform # "apple" /\ cancelled, answer <- ContractAnswer

\* With a client that follows the rules each of these backends is a UrlRequest
\* as RequestContract describes it.
ImplementsContract == Contract!Spec

\* On Apple an aborted request settles even if the peer never says a word, and
\* elsewhere one that was still in a queue (the listener; the test in Start).
AbortSettles ==
    (/\ phase = "sent" /\ cancelled
     /\ platform = "apple" \/ transfer[gen].pc = "queued") ~> (phase = "settled")
=============================================================================
