-------------------------- MODULE UrlRequestAndroid -------------------------
(***************************************************************************)
(* The Android backend, UrlRequest_Android.cpp: SendAsync() queues one     *)
(* task on the thread pool, which does all of the work with blocking Java  *)
(* calls, on the members as they are when it gets to them.                 *)
(***************************************************************************)
EXTENDS DetachedRequest

\* Open() throws for a URL without a scheme, and leaves the one before.
AndroidOpen(kind) ==
    /\ platform = "android" /\ CanOpen
    /\ \/ kind # "bad" /\ Opens(ResetForOpen(base), [kind |-> kind, of |-> gen + 1], "opened")
       \/ kind = "bad" /\ Opens(ResetForOpen(base), url, "threw")

AndroidSend ==
    /\ platform = "android" /\ CanSend
    /\ Sends([NoTransfer EXCEPT !.pc = "queued", !.doomed = cancelled])
    /\ UNCHANGED << requestHeader, client >>

\* A bundled asset is there or not.  A C++ exception ends the task, a Throwable
\* is swallowed.
AndroidAsset(g) ==
    /\ platform = "android" /\ At(g, "started", "head")
    /\ url.kind = "app"
    /\ \/ /\ Goes(g, [transfer[g] EXCEPT !.pc = "complete", !.url = url])
          /\ BodyGoesTo(responseType, OkFrom(base, url.of), url.of)
       \/ /\ Goes(g, [transfer[g] EXCEPT !.pc = "fault", !.url = url, !.lost = TRUE])
          /\ UNCHANGED response
       \/ /\ Goes(g, [transfer[g] EXCEPT !.pc = "complete", !.url = url, !.lost = TRUE])
          /\ UNCHANGED response

\* A connection that does not clear the headers it was given.
HeaderKept == requestHeader

\* m_requestHeaders after they were copied to a connection.
HeaderAfterConnect == NoOne

\* A connection is made for the URL of this moment, and given the headers; a
\* URL may be malformed for Java, before they are cleared.
AndroidConnect(g) ==
    /\ platform = "android" /\ At(g, "started", "head")
    /\ url.kind # "app"
    /\ \/ /\ url.kind # "nil"
          /\ transfer' = [transfer EXCEPT ![g].pc = "pending", ![g].url = url,
                                          ![g].header = requestHeader]
          /\ requestHeader' = HeaderAfterConnect
       \/ /\ transfer' = [transfer EXCEPT ![g].pc = "complete", ![g].lost = TRUE]
          /\ UNCHANGED requestHeader
    /\ UNCHANGED << platform, response, responseType, url, cancelled, ticket,
                    client, gen, phase >>

\* A Throwable is swallowed, and the response stays as it is.
AndroidThrowable(g) ==
    /\ platform = "android" /\ transfer[g].pc \in {"pending", "started"}
    /\ transfer[g].url # NoUrl
    /\ Goes(g, [transfer[g] EXCEPT !.pc = "complete", !.lost = TRUE])
    /\ UNCHANGED response

\* The peer's status and headers; without HTTP it is Ok.  Java has no input
\* stream for an HTTP error, which ends in a Throwable although the transport
\* did what it was asked to.
AndroidStatus(g) ==
    /\ platform = "android" /\ At(g, "pending", "head")
    /\ LET req == transfer[g].url.of
           Recorded(code) == InsertHeader([base EXCEPT !.status = [code |-> code, of |-> req]], req)
       IN \/ /\ Goes(g, [transfer[g] EXCEPT !.pc = "started", !.stage = "body"])
             /\ base' = Recorded(200)
          \/ /\ transfer[g].url.kind = "http"
             /\ Goes(g, [transfer[g] EXCEPT !.pc = "complete"])
             /\ base' = Recorded(404)
    /\ UNCHANGED responseBuffer

\* The whole stream is read, then put where m_responseType says, and the URL is
\* that of the last redirect.
AndroidContent(g) ==
    /\ platform = "android" /\ At(g, "started", "body")
    /\ Goes(g, [transfer[g] EXCEPT !.pc = "complete"])
    /\ LET req == transfer[g].url.of IN
       BodyGoesTo(responseType, [base EXCEPT !.responseUrl = req], req)

AndroidClient ==
    \/ \E kind \in UrlKinds : AndroidOpen(kind)
    \/ AndroidSend

AndroidTask(g) == AndroidAsset(g) \/ AndroidConnect(g) \/ AndroidContent(g)
=============================================================================
