--------------------------- MODULE UrlRequestApple --------------------------
(***************************************************************************)
(* The NSURLSession backend, UrlRequest_Apple.mm.  SendAsync() resumes a   *)
(* data task and then registers a listener that cancels it; the session    *)
(* runs the completion handler on a queue of its own.                      *)
(***************************************************************************)
EXTENDS DetachedRequest

\* An Open() that leaves app: URLs as they are.
AppUrlAsGiven(kind) == [kind |-> kind, of |-> gen + 1]

\* What m_url is for a URL that can be fetched: bundled resources are files.
UrlFor(kind) == [kind |-> IF kind = "app" THEN "file" ELSE kind, of |-> gen + 1]

\* An Open() that assigns m_url only when it has found it valid.
UrlBeforeThrow == {url}

\* What a throwing Open() leaves in m_url: nothing, or a URL without a scheme.
UrlsThatThrow == {NoUrl, [kind |-> "bad", of |-> gen + 1]}

\* An app: URL may name no bundled resource, which is an error without a throw.
AppleOpen(kind) ==
    /\ platform = "apple" /\ CanOpen
    /\ \/ kind # "bad" /\ Opens(ResetForOpen(base), UrlFor(kind), "opened")
       \/ /\ kind = "app"
          /\ Opens(SetError(ResetForOpen(base), "AppResourceNotFound", gen + 1),
                   NoUrl, "opened")
       \/ kind = "bad" /\ \E u \in UrlsThatThrow : Opens(ResetForOpen(base), u, "threw")

\* Without a URL the task is complete, and the response stays as Open() left it.
AppleSendNothing ==
    /\ platform = "apple" /\ CanSend
    /\ url.kind = "nil"
    /\ SettlesAtOnce
    /\ UNCHANGED << base, requestHeader >>

\* [task resume].  The request headers are not cleared.
AppleSend ==
    /\ platform = "apple" /\ CanSend
    /\ url.kind # "nil"
    /\ Sends([NoTransfer EXCEPT !.pc = "pending", !.url = url,
                                !.header = requestHeader])
    /\ client' = "sending"
    /\ UNCHANGED requestHeader

\* A ticket that is filled once and never replaced.
FirstTicket == IF ticket = NoOne THEN gen ELSE ticket

\* emplace(): the ticket of the last send replaces that of the one before.
LastTicket == gen

\* add_listener() on a source that does not call a listener that comes late.
ListenFromNowOn ==
    /\ client = "sending"
    /\ ticket' = gen
    /\ client' = "idle"
    /\ UNCHANGED << platform, response, responseType, requestHeader, url,
                    cancelled, transfer, gen, phase >>

\* The listener is registered, and called at once if the request was aborted
\* before.  It holds the task weakly, so a task that is over is left alone.
AppleListen ==
    /\ client = "sending"
    /\ ticket' = LastTicket
    /\ client' = "idle"
    /\ transfer' = [transfer EXCEPT ![gen].stopped = cancelled /\ transfer[gen].pc = "pending"]
    /\ UNCHANGED << platform, response, responseType, requestHeader, url,
                    cancelled, gen, phase >>

-----------------------------------------------------------------------------
(* The session and the completion handler.                                 *)

\* A task that was cancelled before its answer came can only fail, and so can
\* one without a scheme.
AppleAnswer(g) ==
    /\ platform = "apple" /\ At(g, "pending", "head")
    /\ \/ Goes(g, [transfer[g] EXCEPT !.pc = "error", !.lost = TRUE])
       \/ /\ ~transfer[g].stopped /\ transfer[g].url.kind # "bad"
          /\ Goes(g, [transfer[g] EXCEPT !.pc = "started"])
    /\ UNCHANGED response

\* The error branch without its return.
AppleErrorFallsThrough(g) ==
    /\ transfer[g].pc = "error"
    /\ Goes(g, [transfer[g] EXCEPT !.pc = "started"])
    /\ base' = SetError(base, "NSURLError", transfer[g].url.of)
    /\ UNCHANGED responseBuffer

\* error != nil.
AppleError(g) ==
    /\ transfer[g].pc = "error"
    /\ Goes(g, [transfer[g] EXCEPT !.pc = "complete"])
    /\ base' = SetError(base, "NSURLError", transfer[g].url.of)
    /\ UNCHANGED responseBuffer

\* Status and headers of an HTTP response; anything else is Ok.
AppleStatus(g) ==
    /\ platform = "apple" /\ At(g, "started", "head")
    /\ Goes(g, [transfer[g] EXCEPT !.stage = "body"])
    /\ LET req == transfer[g].url.of IN
       \/ /\ transfer[g].url.kind = "http"
          /\ \E code \in {200, 404} :
               base' = InsertHeader([base EXCEPT !.status = [code |-> code, of |-> req]], req)
       \/ transfer[g].url.kind = "file" /\ base' = OkFrom(base, req)
    /\ UNCHANGED responseBuffer

\* The switch over m_responseType without its breaks.
AppleBodyFallsThrough(g) ==
    /\ platform = "apple" /\ At(g, "started", "body")
    /\ Goes(g, [transfer[g] EXCEPT !.pc = "complete"])
    /\ LET body == {<<transfer[g].url.of, 1>>} IN
       /\ base' = IF responseType = "String" THEN [base EXCEPT !.responseString = body] ELSE base
       /\ responseBuffer' = body

\* The body goes where m_responseType says when it is there.
AppleBody(g) ==
    /\ platform = "apple" /\ At(g, "started", "body")
    /\ Goes(g, [transfer[g] EXCEPT !.pc = "complete"])
    /\ BodyGoesTo(responseType, base, transfer[g].url.of)

AppleClient ==
    \/ \E kind \in UrlKinds : AppleOpen(kind)
    \/ AppleSendNothing
    \/ AppleSend

AppleHandler(g) == AppleError(g) \/ AppleStatus(g) \/ AppleBody(g)
=============================================================================
