-------------------------- MODULE UrlRequestWindows -------------------------
(***************************************************************************)
(* The WinRT backends: HTTP, which UrlRequest_Windows_Shared.h gives to    *)
(* both, and files, which UrlRequest_Win32.cpp reads on the thread pool    *)
(* and UrlRequest_UWP.cpp through asynchronous operations.                 *)
(*                                                                         *)
(* A chain of operations and continuations has two stages.  The head is    *)
(* the response message, or (UWP) looking the file up; the body is what it *)
(* holds.  A continuation writes through a raw `this`.                     *)
(***************************************************************************)
EXTENDS DetachedRequest

\* Uri's constructor may throw, and then m_uri is what it was.
WinOpen(kind) ==
    /\ platform \in Windows /\ CanOpen
    /\ \/ kind # "bad" /\ Opens(ResetForOpen(base), [kind |-> kind, of |-> gen + 1], "opened")
       \/ kind = "bad" /\ Opens(ResetForOpen(base), url, "threw")

\* m_requestHeaders after a send that has used it.
HeaderAfterSend == NoOne

\* LoadHttpAsync(), up to the return of SendRequestAsync().
WinSendHttp ==
    /\ platform \in Windows /\ CanSend
    /\ url.kind = "http"
    /\ Sends([NoTransfer EXCEPT !.pc = "pending", !.url = url,
                !.header = requestHeader, !.doomed = cancelled])
    /\ requestHeader' = HeaderAfterSend
    /\ UNCHANGED client

\* Win32 queues a task for the sink that is set now.  Request headers are for HTTP.
Win32SendFile ==
    /\ platform = "win32" /\ CanSend
    /\ url.kind \in {"file", "app"}
    /\ Sends([NoTransfer EXCEPT !.pc = "queued", !.stage = "body", !.url = url,
                !.sink = responseType, !.doomed = cancelled])
    /\ UNCHANGED << requestHeader, client >>

\* UWP looks the file up first, an app: URL in two operations shown as one.
UwpSendFile ==
    /\ platform = "uwp" /\ CanSend
    /\ url.kind \in {"file", "app"}
    /\ Sends([NoTransfer EXCEPT !.pc = "pending", !.url = url, !.doomed = cancelled])
    /\ UNCHANGED << requestHeader, client >>

\* A WinRT exception before anything is on its way, maybe after the headers
\* were cleared.
SendThrows(b) ==
    /\ CanSend
    /\ url.kind # "nil"
    /\ SettlesAtOnce
    /\ base' = b
    /\ requestHeader' \in IF url.kind = "http" THEN {requestHeader, HeaderAfterSend}
                                               ELSE {requestHeader}

\* Win32 says what it was; on UWP status 0 is all there is.
Win32SendThrows == platform = "win32" /\ SendThrows(SetError(base, "HRESULT", gen))
UwpSendThrows == platform = "uwp" /\ SendThrows(base)

-----------------------------------------------------------------------------
(* The chain.                                                              *)

\* An operation of the system ends; if it failed no continuation runs.
WinOperationEnds(g) ==
    /\ platform \in Windows /\ transfer[g].pc = "pending"
    /\ \/ Goes(g, [transfer[g] EXCEPT !.pc = "queued"])
       \/ Goes(g, [transfer[g] EXCEPT !.pc = "fault", !.lost = TRUE])
    /\ UNCHANGED response

\* A continuation that starts the reading and does not return its task.
SettlesEarly(g) ==
    /\ platform \in Windows /\ At(g, "started", "head") /\ transfer[g].url.kind = "http"
    /\ transfer' = [transfer EXCEPT ![g].stage = "body", ![g].pc = "pending",
                                    ![g].sink = responseType]
    /\ base' = InsertHeader(OkFrom(base, g), g)
    /\ phase' = IF g = gen THEN "settled" ELSE phase
    /\ UNCHANGED << platform, responseType, responseBuffer, sendState, client, gen >>

\* The first continuation of HTTP.  An answer that is not a success has no body
\* here; otherwise m_responseType says now how the body is to be read.
WinStatus(g) ==
    /\ platform \in Windows /\ At(g, "started", "head") /\ transfer[g].url.kind = "http"
    /\ LET req == transfer[g].url.of
           Status(code) == [base EXCEPT !.status = [code |-> code, of |-> req],
                                        !.statusText = req]
       IN \/ /\ Goes(g, [transfer[g] EXCEPT !.pc = "complete"])
             /\ base' = Status(404)
          \/ /\ Goes(g, [transfer[g] EXCEPT !.pc = "pending", !.stage = "body",
                                            !.sink = responseType])
             /\ base' = InsertHeader([Status(200) EXCEPT !.responseUrl = req], req)
    /\ UNCHANGED responseBuffer

\* The continuation with the body.  The status becomes Ok whatever the success,
\* and the reason on the wire is cleared with the status it came with.
WinBody(g) ==
    /\ platform \in Windows /\ At(g, "started", "body") /\ transfer[g].url.kind = "http"
    /\ Goes(g, [transfer[g] EXCEPT !.pc = "complete"])
    /\ LET req == transfer[g].url.of IN
       BodyGoesTo(transfer[g].sink, [OkFrom(base, req) EXCEPT !.statusText = NoOne], req)

\* UWP's continuation with the file: LoadFileAsync().
UwpFileFound(g) ==
    /\ platform = "uwp" /\ At(g, "started", "head") /\ transfer[g].url.kind # "http"
    /\ Goes(g, [transfer[g] EXCEPT !.pc = "pending", !.stage = "body", !.sink = responseType])
    /\ UNCHANGED response

\* UWP's continuation with what is in the file.
UwpFileBody(g) ==
    /\ platform = "uwp" /\ At(g, "started", "body") /\ transfer[g].url.kind # "http"
    /\ Goes(g, [transfer[g] EXCEPT !.pc = "complete"])
    /\ LET req == transfer[g].url.of IN BodyGoesTo(transfer[g].sink, OkFrom(base, req), req)

\* Win32's task reads the file; or finds none, or fails half way through a
\* buffer that it has resized already.
Win32File(g) ==
    /\ platform = "win32" /\ At(g, "started", "body") /\ transfer[g].url.kind # "http"
    /\ LET req == transfer[g].url.of IN
       \/ /\ Goes(g, [transfer[g] EXCEPT !.pc = "complete"])
          /\ BodyGoesTo(transfer[g].sink, OkFrom(base, req), req)
       \/ /\ Goes(g, [transfer[g] EXCEPT !.pc = "fault", !.lost = TRUE])
          /\ responseBuffer' \in {responseBuffer} \cup
                IF transfer[g].sink = "Buffer" THEN {{<<req, 0>>}} ELSE {}
          /\ UNCHANGED base

WinClient ==
    \/ \E kind \in UrlKinds : WinOpen(kind)
    \/ WinSendHttp
    \/ Win32SendFile
    \/ UwpSendFile
    \/ Win32SendThrows
    \/ UwpSendThrows

WinChain(g) ==
    \/ WinStatus(g)
    \/ WinBody(g)
    \/ UwpFileFound(g)
    \/ UwpFileBody(g)
    \/ Win32File(g)
=============================================================================
