---------------------- MODULE UrlRequestDetachedProofs ----------------------
(***************************************************************************)
(* Proofs about UrlRequestDetached, for any number of requests on each of  *)
(* the platforms.                                                          *)
(*                                                                         *)
(* The backends have some thirty actions.  The first part shows that each  *)
(* of them is a step of one of a few kinds, told apart by what they write; *)
(* the invariants are then proved for the kinds.                           *)
(***************************************************************************)
EXTENDS UrlRequestDetached, ImplBaseProofs

\* A transfer that is on its way, and one that is not or no more.
Running == {"pending", "queued", "started", "error"}
Over == {"none", "done"}

\* Open() of any backend: one that throws, one that does not, and the one that
\* finds no bundled resource.
Opening ==
    /\ CanOpen
    /\ \E b \in ImplBaseType, u \in Urls, outcome \in {"opened", "threw"} :
         /\ Opens(b, u, outcome)
         /\ \/ b = ResetForOpen(base)
            \/ /\ b = SetError(ResetForOpen(base), "AppResourceNotFound", gen + 1)
               /\ platform = "apple" /\ u = NoUrl
         /\ outcome = "opened" \/ platform = "apple" =>
              u.of = gen + 1 \/ (platform = "apple" /\ u = NoUrl)
         /\ platform = "apple" => u.of \in {NoOne, gen + 1} /\ u.kind # "app"

\* SendAsync() of any backend that puts a transfer on its way.
Sending ==
    /\ CanSend
    /\ \E t \in Transfers :
         /\ Sends(t)
         /\ t.pc \in {"pending", "queued"}
         /\ \/ t.url = url
            \/ platform = "android" /\ t.stage = "head" /\ t.url = NoUrl
         /\ t.doomed <=> platform # "apple" /\ cancelled
         /\ ~t.stopped /\ ~t.lost
         /\ platform = "apple" => t.stage = "head" /\ url # NoUrl /\ client' = "sending"
         /\ platform # "apple" => client' = client
         /\ platform = "android" => t.pc = "queued"
         /\ \/ t.header = NoOne /\ requestHeader' = requestHeader
            \/ t.header = requestHeader /\ requestHeader' = NoOne
            \/ t.header = requestHeader /\ requestHeader' = requestHeader /\ platform = "apple"

\* SendAsync() of any backend that returns a task that is complete.
AtOnce ==
    /\ CanSend
    /\ SettlesAtOnce
    /\ \/ base' = base
       \/ base' = SetError(base, "HRESULT", gen) /\ url # NoUrl
    /\ requestHeader' \in {requestHeader, NoOne}

\* Where transfer g may get to, and what of it stays as it is.
Way(g, n) ==
    LET t == transfer[g] IN
    /\ t.pc \in Running
    /\ n \in Transfers /\ n.pc \notin Over
    /\ n.doomed = t.doomed /\ n.stopped = t.stopped
    /\ t.stage = "body" => n.stage = "body"
    /\ n.stage = "body" => t.stage = "body" \/ platform # "android" \/ t.pc = "pending"
    /\ \/ n.url = t.url
       \/ platform = "android" /\ n.url = url /\ t.stage = "head"
    /\ t.pc = "queued" => n.pc = IF cancelled THEN "fault" ELSE "started"
    /\ t.pc = "pending" /\ platform \in Windows => n.pc \in {"queued", "fault"}
    /\ n.pc = "pending" => platform # "apple" /\ (platform = "android" => n.url = url)
    /\ n.pc = "error" => t.pc = "pending" /\ n.stage = "head" /\ n.url = t.url

\* Transfer g goes on.
Moves(g) ==
    LET n == transfer'[g] IN
    /\ Way(g, n)
    /\ transfer' = [transfer EXCEPT ![g] = n]
    /\ \/ n.header = transfer[g].header /\ requestHeader' = requestHeader
       \/ platform = "android" /\ n.header = requestHeader /\ requestHeader' = NoOne
    /\ UNCHANGED << platform, responseType, url, cancelled, ticket, client, gen, phase >>

\* ... without a word in the response: it gets nowhere, or it is not complete.
Silent(g) ==
    /\ UNCHANGED response
    /\ transfer'[g].pc = "complete" => transfer'[g].lost /\ platform = "android"

\* ... with an error.
Errs(g) ==
    /\ transfer[g].pc = "error" /\ transfer'[g].pc = "complete"
    /\ base' = SetError(base, "NSURLError", transfer[g].url.of)
    /\ transfer'[g].lost = transfer[g].lost
    /\ UNCHANGED responseBuffer

\* ... with the head of an answer.
Heads(g) ==
    LET req == transfer[g].url.of IN
    /\ transfer[g].stage = "head"
    /\ transfer[g].pc = "pending" \/ (transfer[g].pc = "started" /\ platform # "android")
    /\ \/ transfer'[g].stage = "body" /\ transfer'[g].pc \in {"pending", "started"}
       \/ transfer'[g].pc = "complete" /\ base'.status.code = 404
    /\ base' \in ImplBaseType
    /\ OnlyFrom(base, req) => OnlyFrom(base', req)
    /\ base'.error = base.error
    /\ base'.usingSchemeResolver = base.usingSchemeResolver
    /\ base'.responseString = base.responseString
    /\ UNCHANGED responseBuffer

\* ... with the body of an answer.
Fills(g) ==
    LET req == transfer'[g].url.of IN
    /\ transfer[g].pc = "started" /\ transfer'[g].pc = "complete"
    /\ transfer[g].stage = "body" \/ (platform = "android" /\ transfer'[g].url = url)
    /\ base' \in ImplBaseType
    /\ OnlyFrom(base, req) => OnlyFrom(base', req)
    /\ base'.error = base.error
    /\ base'.usingSchemeResolver = base.usingSchemeResolver
    /\ \/ /\ base'.responseString = {<<req, 1>>}
          /\ UNCHANGED responseBuffer
       \/ /\ base'.responseString = base.responseString
          /\ responseBuffer' = {<<req, 1>>}

\* ... with a buffer that was made for a body that cannot be read.
Breaks(g) ==
    /\ transfer[g].stage = "body" /\ transfer'[g].pc = "fault"
    /\ responseBuffer' \in {responseBuffer, {<<transfer[g].url.of, 0>>}}
    /\ UNCHANGED base

Proceeds(g) == Moves(g) /\ (Silent(g) \/ Errs(g) \/ Heads(g) \/ Fills(g) \/ Breaks(g))

-----------------------------------------------------------------------------
(* What the helpers write.                                                 *)

\* The types of transfers and of their URLs.
LEMMA TransferTypes ==
    ASSUME TypeOK, NEW g \in Requests
    PROVE  /\ transfer[g] \in Transfers /\ NoTransfer \in Transfers
           /\ transfer[g].url \in Urls /\ transfer[g].url.of \in Nat
           /\ url \in Urls /\ url.of \in Nat /\ NoUrl \in Urls
           /\ base \in ImplBaseType
  BY DEF TypeOK, Transfers, NoTransfer, Urls, NoUrl, NoOne, Sinks

\* A header that is inserted is written for its own request, and alone.
LEMMA InsertWrites ==
    ASSUME NEW b \in ImplBaseType, NEW req \in Nat, NEW e, e = InsertHeader(b, req)
    PROVE  /\ e \in ImplBaseType
           /\ OnlyFrom(b, req) => OnlyFrom(e, req)
           /\ e.error = b.error /\ e.status = b.status
           /\ e.usingSchemeResolver = b.usingSchemeResolver
           /\ e.responseString = b.responseString
  BY DEF ImplBaseType, InsertHeader, OnlyFrom, PiecesOf

\* So are a status text and a response URL.
LEMMA TextsWrite ==
    ASSUME NEW b \in ImplBaseType, NEW req \in Nat, NEW text \in {NoOne, req}, NEW e,
           \/ e = [b EXCEPT !.statusText = text]
           \/ e = [b EXCEPT !.responseUrl = text]
    PROVE  /\ e \in ImplBaseType
           /\ OnlyFrom(b, req) => OnlyFrom(e, req)
           /\ e.error = b.error /\ e.status = b.status
           /\ e.usingSchemeResolver = b.usingSchemeResolver
           /\ e.responseString = b.responseString
  BY DEF ImplBaseType, OnlyFrom, PiecesOf, NoOne

\* And a status.
LEMMA StatusWrites ==
    ASSUME NEW b \in ImplBaseType, NEW code \in StatusCodes, NEW req \in Nat,
           NEW e, e = [b EXCEPT !.status = [code |-> code, of |-> req]]
    PROVE  /\ e \in ImplBaseType
           /\ OnlyFrom(b, req) => OnlyFrom(e, req)
           /\ e.error = b.error /\ e.status.code = code
           /\ e.usingSchemeResolver = b.usingSchemeResolver
           /\ e.responseString = b.responseString
  BY DEF ImplBaseType, OnlyFrom, PiecesOf

LEMMA OkWrites ==
    ASSUME NEW b \in ImplBaseType, NEW req \in Nat, NEW e, e = OkFrom(b, req)
    PROVE  /\ e \in ImplBaseType
           /\ OnlyFrom(b, req) => OnlyFrom(e, req)
           /\ e.error = b.error /\ e.status.code = 200
           /\ e.usingSchemeResolver = b.usingSchemeResolver
           /\ e.responseString = b.responseString
  <1>1. 200 \in StatusCodes
    BY DEF StatusCodes
  <1>2. QED
    BY <1>1, StatusWrites DEF OkFrom

\* A body is written to one of its two places.
LEMMA BodyWrites ==
    ASSUME NEW b \in ImplBaseType, NEW req \in Nat, NEW sink, BodyGoesTo(sink, b, req)
    PROVE  /\ base' \in ImplBaseType
           /\ OnlyFrom(b, req) => OnlyFrom(base', req)
           /\ base'.error = b.error
           /\ base'.usingSchemeResolver = b.usingSchemeResolver
           /\ \/ /\ base'.responseString = {<<req, 1>>}
                 /\ UNCHANGED responseBuffer
              \/ /\ base'.responseString = b.responseString
                 /\ responseBuffer' = {<<req, 1>>}
  <1>1. CASE base' = [b EXCEPT !.responseString = {<<req, 1>>}] /\ UNCHANGED responseBuffer
    <2>1. {<<req, 1>>} \subseteq Nat \X Nat
      OBVIOUS
    <2>2. QED
      BY <1>1, <2>1 DEF ImplBaseType, OnlyFrom, PiecesOf
  <1>2. CASE base' = b /\ responseBuffer' = {<<req, 1>>}
    BY <1>2
  <1>3. QED
    BY <1>1, <1>2 DEF BodyGoesTo

-----------------------------------------------------------------------------
(* Every action is a step of one of the kinds.                             *)

LEMMA OpeningIs ==
    ASSUME TypeOK, NEW kind \in UrlKinds,
           AppleOpen(kind) \/ WinOpen(kind) \/ AndroidOpen(kind)
    PROVE  Opening
  <1>1. /\ gen \in Nat /\ base \in ImplBaseType /\ url \in Urls /\ NoUrl \in Urls
        /\ ResetForOpen(base) \in ImplBaseType
        /\ SetError(ResetForOpen(base), "AppResourceNotFound", gen + 1) \in ImplBaseType
    <2>1. gen \in Nat /\ base \in ImplBaseType /\ url \in Urls /\ NoUrl \in Urls
      BY DEF TypeOK, DetachedAssumption, Urls, NoUrl, NoOne
    <2>2. ResetForOpen(base) \in ImplBaseType
      BY FreshResponseIsEmpty DEF ResetForOpen
    <2>3. "AppResourceNotFound" \in ErrorSymbols
      BY DEF ErrorSymbols
    <2>4. gen + 1 \in Nat
      BY <2>1
    <2>5. QED
      BY <2>1, <2>2, <2>3, <2>4, SetErrorType
  <1>2. \A k \in UrlKinds : [kind |-> k, of |-> gen + 1] \in Urls
    BY <1>1 DEF Urls
  <1>3. NoUrl.of = NoOne /\ NoUrl.kind = "nil" /\ "nil" # "app"
    BY DEF NoUrl
  <1>4. CASE AppleOpen(kind)
    <2>1. CanOpen /\ platform = "apple"
      BY <1>4 DEF AppleOpen
    <2>2. CASE kind # "bad" /\ Opens(ResetForOpen(base), UrlFor(kind), "opened")
      <3>1. /\ UrlFor(kind) \in Urls /\ UrlFor(kind).of = gen + 1
            /\ UrlFor(kind).kind # "app"
        BY <1>1 DEF UrlFor, Urls, UrlKinds
      <3>2. QED
        BY <1>1, <2>1, <2>2, <3>1 DEF Opening
    <2>3. CASE Opens(SetError(ResetForOpen(base), "AppResourceNotFound", gen + 1),
                     NoUrl, "opened")
      BY <1>1, <1>3, <2>1, <2>3 DEF Opening
    <2>4. CASE \E u \in UrlsThatThrow : Opens(ResetForOpen(base), u, "threw")
      <3>1. PICK u \in UrlsThatThrow : Opens(ResetForOpen(base), u, "threw")
        BY <2>4
      <3>2. /\ u \in Urls /\ u.of \in {NoOne, gen + 1} /\ u.kind # "app"
            /\ u.of = gen + 1 \/ u = NoUrl
        BY <1>1 DEF UrlsThatThrow, Urls, UrlKinds, NoUrl
      <3>3. QED
        BY <1>1, <2>1, <3>1, <3>2 DEF Opening
    <2>5. QED
      BY <1>4, <2>2, <2>3, <2>4 DEF AppleOpen
  <1>5. CASE WinOpen(kind) \/ AndroidOpen(kind)
    <2>1. CanOpen /\ platform # "apple"
      BY <1>5 DEF WinOpen, AndroidOpen, Windows
    <2>2. CASE Opens(ResetForOpen(base), [kind |-> kind, of |-> gen + 1], "opened")
      <3>1. [kind |-> kind, of |-> gen + 1].of = gen + 1
        OBVIOUS
      <3>2. QED
        BY <1>1, <1>2, <2>1, <2>2, <3>1 DEF Opening
    <2>3. CASE Opens(ResetForOpen(base), url, "threw")
      BY <1>1, <2>1, <2>3 DEF Opening
    <2>4. QED
      BY <1>5, <2>2, <2>3 DEF WinOpen, AndroidOpen
  <1>6. QED
    BY <1>4, <1>5

LEMMA SendingIs ==
    ASSUME TypeOK, AppleSend \/ WinSendHttp \/ Win32SendFile \/ UwpSendFile \/ AndroidSend
    PROVE  Sending
  <1>1. /\ NoTransfer \in Transfers /\ url \in Urls /\ requestHeader \in Nat
        /\ cancelled \in BOOLEAN /\ responseType \in Sinks
    BY DEF TypeOK, NoTransfer, Transfers, Urls, NoUrl, NoOne, Sinks
  <1>2. /\ NoTransfer.pc = "none" /\ NoTransfer.stage = "head" /\ NoTransfer.url = NoUrl
        /\ NoTransfer.header = NoOne /\ ~NoTransfer.doomed /\ ~NoTransfer.stopped
        /\ ~NoTransfer.lost
    BY DEF NoTransfer
  <1>3. CASE AppleSend
    <2> DEFINE t == [NoTransfer EXCEPT !.pc = "pending", !.url = url,
                                       !.header = requestHeader]
    <2>1. /\ t \in Transfers /\ t.pc = "pending" /\ t.url = url /\ t.stage = "head"
          /\ t.header = requestHeader /\ ~t.doomed /\ ~t.stopped /\ ~t.lost
      BY <1>1, <1>2 DEF Transfers
    <2>2. /\ platform = "apple" /\ CanSend /\ Sends(t) /\ client' = "sending"
          /\ requestHeader' = requestHeader /\ url # NoUrl
      BY <1>3 DEF AppleSend, NoUrl
    <2> HIDE DEF t
    <2>3. QED
      BY <2>1, <2>2 DEF Sending
  <1>4. CASE WinSendHttp
    <2> DEFINE t == [NoTransfer EXCEPT !.pc = "pending", !.url = url,
                       !.header = requestHeader, !.doomed = cancelled]
    <2>1. /\ t \in Transfers /\ t.pc = "pending" /\ t.url = url /\ t.stage = "head"
          /\ t.header = requestHeader /\ (t.doomed <=> cancelled) /\ ~t.stopped /\ ~t.lost
      BY <1>1, <1>2 DEF Transfers
    <2>2. /\ platform # "apple" /\ platform # "android" /\ CanSend /\ Sends(t)
          /\ client' = client /\ requestHeader' = NoOne
      BY <1>4 DEF WinSendHttp, Windows, HeaderAfterSend
    <2> HIDE DEF t
    <2>3. QED
      BY <2>1, <2>2 DEF Sending
  <1>5. CASE Win32SendFile
    <2> DEFINE t == [NoTransfer EXCEPT !.pc = "queued", !.stage = "body", !.url = url,
                       !.sink = responseType, !.doomed = cancelled]
    <2>1. /\ t \in Transfers /\ t.pc = "queued" /\ t.url = url
          /\ t.header = NoOne /\ (t.doomed <=> cancelled) /\ ~t.stopped /\ ~t.lost
      BY <1>1, <1>2 DEF Transfers
    <2>2. /\ platform = "win32" /\ CanSend /\ Sends(t)
          /\ client' = client /\ requestHeader' = requestHeader
      BY <1>5 DEF Win32SendFile
    <2> HIDE DEF t
    <2>3. QED
      BY <2>1, <2>2 DEF Sending
  <1>6. CASE UwpSendFile
    <2> DEFINE t == [NoTransfer EXCEPT !.pc = "pending", !.url = url, !.doomed = cancelled]
    <2>1. /\ t \in Transfers /\ t.pc = "pending" /\ t.url = url /\ t.stage = "head"
          /\ t.header = NoOne /\ (t.doomed <=> cancelled) /\ ~t.stopped /\ ~t.lost
      BY <1>1, <1>2 DEF Transfers
    <2>2. /\ platform = "uwp" /\ CanSend /\ Sends(t)
          /\ client' = client /\ requestHeader' = requestHeader
      BY <1>6 DEF UwpSendFile
    <2> HIDE DEF t
    <2>3. QED
      BY <2>1, <2>2 DEF Sending
  <1>7. CASE AndroidSend
    <2> DEFINE t == [NoTransfer EXCEPT !.pc = "queued", !.doomed = cancelled]
    <2>1. /\ t \in Transfers /\ t.pc = "queued" /\ t.url = NoUrl /\ t.stage = "head"
          /\ t.header = NoOne /\ (t.doomed <=> cancelled) /\ ~t.stopped /\ ~t.lost
      BY <1>1, <1>2 DEF Transfers
    <2>2. /\ platform = "android" /\ CanSend /\ Sends(t)
          /\ client' = client /\ requestHeader' = requestHeader
      BY <1>7 DEF AndroidSend
    <2> HIDE DEF t
    <2>3. QED
      BY <2>1, <2>2 DEF Sending
  <1>8. QED
    BY <1>3, <1>4, <1>5, <1>6, <1>7

LEMMA AtOnceIs ==
    ASSUME TypeOK, AppleSendNothing \/ Win32SendThrows \/ UwpSendThrows
    PROVE  AtOnce
  <1>1. CASE AppleSendNothing
    BY <1>1 DEF AppleSendNothing, AtOnce
  <1>2. CASE Win32SendThrows \/ UwpSendThrows
    <2>1. /\ CanSend /\ SettlesAtOnce /\ url # NoUrl
          /\ requestHeader' \in {requestHeader, NoOne}
          /\ base' = base \/ base' = SetError(base, "HRESULT", gen)
      BY <1>2 DEF Win32SendThrows, UwpSendThrows, SendThrows, NoUrl, HeaderAfterSend
    <2>2. QED
      BY <2>1 DEF AtOnce
  <1>3. QED
    BY <1>1, <1>2

\* A transfer that Goes(g, n) moves, if n is on its way.
LEMMA GoesMoves ==
    ASSUME TypeOK, NEW g \in Requests, NEW n, Goes(g, n), Way(g, n),
           n.header = transfer[g].header
    PROVE  /\ Moves(g)
           /\ transfer'[g] = n
  <1>1. transfer'[g] = n /\ transfer' = [transfer EXCEPT ![g] = n]
    BY DEF Goes, TypeOK
  <1>2. UNCHANGED << platform, responseType, requestHeader, url, cancelled, ticket,
                     client, gen, phase >>
    BY DEF Goes, sendState
  <1>3. QED
    BY <1>1, <1>2 DEF Moves

LEMMA AppleProceeds ==
    ASSUME TypeOK, NEW g \in Requests, AppleAnswer(g) \/ AppleHandler(g)
    PROVE  Proceeds(g)
  <1> DEFINE t == transfer[g]
             req == transfer[g].url.of
  <1>1. t \in Transfers /\ base \in ImplBaseType /\ req \in Nat
    BY TransferTypes
  <1>2. CASE AppleAnswer(g)
    <2>1. t.pc = "pending" /\ t.stage = "head" /\ platform = "apple" /\ UNCHANGED response
      BY <1>2 DEF AppleAnswer, At
    <2>2. PICK n \in { [t EXCEPT !.pc = "error", !.lost = TRUE], [t EXCEPT !.pc = "started"] } :
            Goes(g, n)
      BY <1>2 DEF AppleAnswer
    <2>3. Way(g, n) /\ n.header = t.header /\ n.pc # "complete"
      BY <1>1, <2>1, <2>2 DEF Way, Transfers, Running, Over, Windows
    <2>4. Moves(g) /\ transfer'[g] = n
      BY <2>2, <2>3, GoesMoves
    <2>5. QED
      BY <2>1, <2>3, <2>4 DEF Proceeds, Silent
  <1>3. CASE AppleError(g)
    <2> DEFINE n == [t EXCEPT !.pc = "complete"]
    <2>1. /\ t.pc = "error" /\ Goes(g, n)
          /\ base' = SetError(base, "NSURLError", req) /\ UNCHANGED responseBuffer
      BY <1>3 DEF AppleError
    <2>2. Way(g, n) /\ n.header = t.header /\ n.pc = "complete" /\ n.lost = t.lost
      BY <1>1, <2>1 DEF Way, Transfers, Running, Over
    <2>3. Moves(g) /\ transfer'[g] = n
      BY <2>1, <2>2, GoesMoves
    <2>4. QED
      BY <2>1, <2>2, <2>3 DEF Proceeds, Errs
  <1>4. CASE AppleStatus(g)
    <2> DEFINE n == [t EXCEPT !.stage = "body"]
    <2>1. /\ t.pc = "started" /\ t.stage = "head" /\ platform = "apple"
          /\ Goes(g, n) /\ UNCHANGED responseBuffer
      BY <1>4 DEF AppleStatus, At
    <2>2. Way(g, n) /\ n.header = t.header /\ n.pc = "started" /\ n.stage = "body"
      BY <1>1, <2>1 DEF Way, Transfers, Running, Over
    <2>3. Moves(g) /\ transfer'[g] = n
      BY <2>1, <2>2, GoesMoves
    <2>4. /\ base' \in ImplBaseType
          /\ OnlyFrom(base, req) => OnlyFrom(base', req)
          /\ base'.error = base.error
          /\ base'.usingSchemeResolver = base.usingSchemeResolver
          /\ base'.responseString = base.responseString
      <3>1. CASE base' = OkFrom(base, req)
        BY <1>1, <3>1, OkWrites
      <3>2. CASE \E code \in {200, 404} :
                   base' = InsertHeader([base EXCEPT !.status = [code |-> code, of |-> req]], req)
        <4>1. PICK code \in {200, 404} :
                base' = InsertHeader([base EXCEPT !.status = [code |-> code, of |-> req]], req)
          BY <3>2
        <4>2. code \in StatusCodes
          BY DEF StatusCodes
        <4>3. QED
          BY <1>1, <4>1, <4>2, StatusWrites, InsertWrites
      <3>3. QED
        BY <1>4, <3>1, <3>2 DEF AppleStatus
    <2>5. QED
      BY <2>1, <2>2, <2>3, <2>4 DEF Proceeds, Heads
  <1>5. CASE AppleBody(g)
    <2> DEFINE n == [t EXCEPT !.pc = "complete"]
    <2>1. /\ t.pc = "started" /\ t.stage = "body" /\ platform = "apple"
          /\ Goes(g, n) /\ BodyGoesTo(responseType, base, req)
      BY <1>5 DEF AppleBody, At
    <2>2. Way(g, n) /\ n.header = t.header /\ n.pc = "complete" /\ n.url = t.url
      BY <1>1, <2>1 DEF Way, Transfers, Running, Over
    <2>3. Moves(g) /\ transfer'[g] = n
      BY <2>1, <2>2, GoesMoves
    <2>4. Fills(g)
      BY <1>1, <2>1, <2>2, <2>3, BodyWrites DEF Fills
    <2>5. QED
      BY <2>3, <2>4 DEF Proceeds
  <1>6. QED
    BY <1>2, <1>3, <1>4, <1>5 DEF AppleHandler

\* A task or a continuation of arcana that looks at the source.
LEMMA StartProceeds ==
    ASSUME TypeOK, NEW g \in Requests, Start(g)
    PROVE  Proceeds(g)
  <1> DEFINE t == transfer[g]
             n == [t EXCEPT !.pc = IF cancelled THEN "fault" ELSE "started"]
  <1>1. t \in Transfers /\ t.pc = "queued" /\ Goes(g, n) /\ UNCHANGED response
    BY TransferTypes DEF Start
  <1>2. Way(g, n) /\ n.header = t.header /\ n.pc # "complete"
    BY <1>1 DEF Way, Transfers, Running, Over
  <1>3. Moves(g) /\ transfer'[g] = n
    BY <1>1, <1>2, GoesMoves
  <1>4. QED
    BY <1>1, <1>2, <1>3 DEF Proceeds, Silent

\* The head that WinRT gives of an answer.
WinHead(b, code, req) ==
    [b EXCEPT !.status = [code |-> code, of |-> req], !.statusText = req]

LEMMA WinHeadWrites ==
    ASSUME NEW b \in ImplBaseType, NEW code \in StatusCodes, NEW req \in Nat
    PROVE  /\ WinHead(b, code, req) \in ImplBaseType
           /\ OnlyFrom(b, req) => OnlyFrom(WinHead(b, code, req), req)
           /\ WinHead(b, code, req).error = b.error
           /\ WinHead(b, code, req).status.code = code
           /\ WinHead(b, code, req).usingSchemeResolver = b.usingSchemeResolver
           /\ WinHead(b, code, req).responseString = b.responseString
  BY DEF WinHead, ImplBaseType, OnlyFrom, PiecesOf

LEMMA WinStatusProceeds ==
    ASSUME TypeOK, NEW g \in Requests, WinStatus(g)
    PROVE  Proceeds(g)
  <1> DEFINE t == transfer[g]
             req == transfer[g].url.of
             Kept == /\ base' \in ImplBaseType
                     /\ OnlyFrom(base, req) => OnlyFrom(base', req)
                     /\ base'.error = base.error
                     /\ base'.usingSchemeResolver = base.usingSchemeResolver
                     /\ base'.responseString = base.responseString
  <1>1. /\ t \in Transfers /\ base \in ImplBaseType /\ req \in Nat
        /\ responseType \in Sinks /\ 200 \in StatusCodes /\ 404 \in StatusCodes
    BY TransferTypes DEF TypeOK, StatusCodes
  <1>2. /\ platform \in Windows /\ platform # "android" /\ platform # "apple"
        /\ t.pc = "started" /\ t.stage = "head" /\ UNCHANGED responseBuffer
    BY DEF WinStatus, At, Windows
  <1>3. CASE Goes(g, [t EXCEPT !.pc = "complete"]) /\ base' = WinHead(base, 404, req)
    <2> DEFINE n == [t EXCEPT !.pc = "complete"]
    <2>1. Way(g, n) /\ n.header = t.header /\ n.pc = "complete"
      BY <1>1, <1>2 DEF Way, Transfers, Running, Over
    <2>2. Moves(g) /\ transfer'[g] = n
      BY <1>3, <2>1, GoesMoves
    <2>3. Kept /\ base'.status.code = 404
      BY <1>1, <1>3, WinHeadWrites
    <2>4. QED
      BY <1>2, <2>1, <2>2, <2>3 DEF Proceeds, Heads
  <1>4. CASE /\ Goes(g, [t EXCEPT !.pc = "pending", !.stage = "body", !.sink = responseType])
             /\ base' = InsertHeader([WinHead(base, 200, req) EXCEPT !.responseUrl = req], req)
    <2> DEFINE n == [t EXCEPT !.pc = "pending", !.stage = "body", !.sink = responseType]
    <2>1. Way(g, n) /\ n.header = t.header /\ n.pc = "pending" /\ n.stage = "body"
      BY <1>1, <1>2 DEF Way, Transfers, Running, Over
    <2>2. Moves(g) /\ transfer'[g] = n
      BY <1>4, <2>1, GoesMoves
    <2>3. Kept
      <3> DEFINE head == WinHead(base, 200, req)
      <3>1. /\ head \in ImplBaseType
            /\ OnlyFrom(base, req) => OnlyFrom(head, req)
            /\ head.error = base.error
            /\ head.usingSchemeResolver = base.usingSchemeResolver
            /\ head.responseString = base.responseString
        <4>1. base \in ImplBaseType /\ req \in Nat /\ 200 \in StatusCodes
          BY <1>1
        <4> HIDE DEF req
        <4>2. QED
          BY <4>1, WinHeadWrites
      <3> HIDE DEF head
      <3> DEFINE located == [head EXCEPT !.responseUrl = req]
      <3>2. /\ located \in ImplBaseType
            /\ OnlyFrom(head, req) => OnlyFrom(located, req)
            /\ located.error = head.error
            /\ located.usingSchemeResolver = head.usingSchemeResolver
            /\ located.responseString = head.responseString
        BY <1>1, <3>1, TextsWrite
      <3> HIDE DEF located
      <3>3. base' = InsertHeader(located, req)
        BY <1>4 DEF located, head
      <3>4. /\ base' \in ImplBaseType
            /\ OnlyFrom(located, req) => OnlyFrom(base', req)
            /\ base'.error = located.error
            /\ base'.usingSchemeResolver = located.usingSchemeResolver
            /\ base'.responseString = located.responseString
        <4>1. located \in ImplBaseType /\ req \in Nat
          BY <1>1, <3>2
        <4> HIDE DEF req
        <4>2. QED
          BY <4>1, <3>3, InsertWrites
      <3>5. QED
        BY <3>1, <3>2, <3>4
    <2>4. QED
      BY <1>2, <2>1, <2>2, <2>3 DEF Proceeds, Heads
  <1>5. QED
    BY <1>3, <1>4 DEF WinStatus, WinHead

\* The continuations that have the body, and Win32's task that reads a file.
LEMMA WinFills ==
    ASSUME TypeOK, NEW g \in Requests, transfer[g].pc = "started",
           transfer[g].stage = "body",
           Goes(g, [transfer[g] EXCEPT !.pc = "complete"]),
           NEW b \in ImplBaseType, NEW sink, BodyGoesTo(sink, b, transfer[g].url.of),
           OnlyFrom(base, transfer[g].url.of) => OnlyFrom(b, transfer[g].url.of),
           b.error = base.error, b.usingSchemeResolver = base.usingSchemeResolver,
           b.responseString = base.responseString
    PROVE  Proceeds(g)
  <1> DEFINE t == transfer[g]
             n == [t EXCEPT !.pc = "complete"]
  <1>1. t \in Transfers /\ t.url.of \in Nat
    BY TransferTypes
  <1>2. Way(g, n) /\ n.header = t.header /\ n.pc = "complete" /\ n.url = t.url
    BY <1>1 DEF Way, Transfers, Running, Over
  <1>3. Moves(g) /\ transfer'[g] = n
    BY <1>2, GoesMoves
  <1>4. Fills(g)
    BY <1>1, <1>2, <1>3, BodyWrites DEF Fills
  <1>5. QED
    BY <1>3, <1>4 DEF Proceeds

LEMMA WinProceeds ==
    ASSUME TypeOK, NEW g \in Requests, WinOperationEnds(g) \/ WinChain(g)
    PROVE  Proceeds(g)
  <1> DEFINE t == transfer[g]
             req == transfer[g].url.of
  <1>1. /\ t \in Transfers /\ base \in ImplBaseType /\ req \in Nat /\ responseType \in Sinks
    BY TransferTypes DEF TypeOK
  <1>2. CASE WinOperationEnds(g)
    <2>1. t.pc = "pending" /\ platform \in Windows /\ UNCHANGED response
      BY <1>2 DEF WinOperationEnds
    <2>2. PICK n \in { [t EXCEPT !.pc = "queued"], [t EXCEPT !.pc = "fault", !.lost = TRUE] } :
            Goes(g, n)
      BY <1>2 DEF WinOperationEnds
    <2>3. Way(g, n) /\ n.header = t.header /\ n.pc # "complete"
      BY <1>1, <2>1, <2>2 DEF Way, Transfers, Running, Over
    <2>4. Moves(g) /\ transfer'[g] = n
      BY <2>2, <2>3, GoesMoves
    <2>5. QED
      BY <2>1, <2>3, <2>4 DEF Proceeds, Silent
  <1>3. CASE WinStatus(g)
    BY <1>3, WinStatusProceeds
  <1>4. CASE WinBody(g)
    <2> DEFINE ok == OkFrom(base, req)
               b == [ok EXCEPT !.statusText = NoOne]
    <2>1. /\ t.pc = "started" /\ t.stage = "body" /\ Goes(g, [t EXCEPT !.pc = "complete"])
          /\ BodyGoesTo(t.sink, b, req)
      BY <1>4 DEF WinBody, At
    <2>2. /\ ok \in ImplBaseType
          /\ OnlyFrom(base, req) => OnlyFrom(ok, req)
          /\ ok.error = base.error /\ ok.usingSchemeResolver = base.usingSchemeResolver
          /\ ok.responseString = base.responseString
      BY <1>1, OkWrites
    <2> HIDE DEF ok
    <2>3. /\ b \in ImplBaseType
          /\ OnlyFrom(ok, req) => OnlyFrom(b, req)
          /\ b.error = ok.error /\ b.usingSchemeResolver = ok.usingSchemeResolver
          /\ b.responseString = ok.responseString
      BY <1>1, <2>2, TextsWrite
    <2> HIDE DEF b
    <2>4. QED
      BY <2>1, <2>2, <2>3, WinFills
  <1>5. CASE UwpFileFound(g)
    <2> DEFINE n == [t EXCEPT !.pc = "pending", !.stage = "body", !.sink = responseType]
    <2>1. /\ t.pc = "started" /\ t.stage = "head" /\ platform = "uwp" /\ Goes(g, n)
          /\ UNCHANGED response
      BY <1>5 DEF UwpFileFound, At
    <2>2. Way(g, n) /\ n.header = t.header /\ n.pc # "complete"
      BY <1>1, <2>1 DEF Way, Transfers, Running, Over
    <2>3. Moves(g) /\ transfer'[g] = n
      BY <2>1, <2>2, GoesMoves
    <2>4. QED
      BY <2>1, <2>2, <2>3 DEF Proceeds, Silent
  <1>6. ASSUME NEW sink, t.pc = "started", t.stage = "body",
               Goes(g, [t EXCEPT !.pc = "complete"]),
               BodyGoesTo(sink, OkFrom(base, req), req)
        PROVE  Proceeds(g)
    <2>1. /\ OkFrom(base, req) \in ImplBaseType
          /\ OnlyFrom(base, req) => OnlyFrom(OkFrom(base, req), req)
          /\ OkFrom(base, req).error = base.error
          /\ OkFrom(base, req).usingSchemeResolver = base.usingSchemeResolver
          /\ OkFrom(base, req).responseString = base.responseString
      BY <1>1, OkWrites
    <2>2. QED
      BY <1>6, <2>1, WinFills
  <1>7. CASE UwpFileBody(g)
    BY <1>6, <1>7 DEF UwpFileBody, At
  <1>8. CASE Win32File(g)
    <2>1. platform = "win32" /\ t.pc = "started" /\ t.stage = "body"
      BY <1>8 DEF Win32File, At
    <2>2. CASE Goes(g, [t EXCEPT !.pc = "complete"])
               /\ BodyGoesTo(t.sink, OkFrom(base, req), req)
      BY <1>6, <2>1, <2>2
    <2>3. CASE /\ Goes(g, [t EXCEPT !.pc = "fault", !.lost = TRUE])
               /\ responseBuffer' \in {responseBuffer} \cup
                     IF t.sink = "Buffer" THEN {{<<req, 0>>}} ELSE {}
               /\ UNCHANGED base
      <3> DEFINE n == [t EXCEPT !.pc = "fault", !.lost = TRUE]
      <3>1. Way(g, n) /\ n.header = t.header /\ n.pc = "fault"
        BY <1>1, <2>1 DEF Way, Transfers, Running, Over
      <3>2. Moves(g) /\ transfer'[g] = n
        BY <2>3, <3>1, GoesMoves
      <3>3. responseBuffer' \in {responseBuffer, {<<req, 0>>}}
        BY <2>3
      <3>4. QED
        BY <2>1, <2>3, <3>1, <3>2, <3>3 DEF Proceeds, Breaks
    <2>4. QED
      BY <1>8, <2>2, <2>3 DEF Win32File
  <1>9. QED
    BY <1>2, <1>3, <1>4, <1>5, <1>7, <1>8 DEF WinChain

LEMMA AndroidAssetProceeds ==
    ASSUME TypeOK, NEW g \in Requests, AndroidAsset(g)
    PROVE  Proceeds(g)
  <1> DEFINE t == transfer[g]
             req == url.of
             ok == OkFrom(base, req)
  <1>1. t \in Transfers /\ base \in ImplBaseType /\ req \in Nat /\ url \in Urls
    BY TransferTypes
  <1>2. platform = "android" /\ t.pc = "started" /\ t.stage = "head"
    BY DEF AndroidAsset, At
  <1>3. CASE Goes(g, [t EXCEPT !.pc = "complete", !.url = url])
             /\ BodyGoesTo(responseType, ok, req)
    <2> DEFINE n == [t EXCEPT !.pc = "complete", !.url = url]
    <2>1. Way(g, n) /\ n.header = t.header /\ n.pc = "complete" /\ n.url = url
      BY <1>1, <1>2 DEF Way, Transfers, Running, Over
    <2>2. Moves(g) /\ transfer'[g] = n
      BY <1>3, <2>1, GoesMoves
    <2> HIDE DEF req
    <2>3. /\ ok \in ImplBaseType
          /\ OnlyFrom(base, req) => OnlyFrom(ok, req)
          /\ ok.error = base.error /\ ok.usingSchemeResolver = base.usingSchemeResolver
          /\ ok.responseString = base.responseString
      BY <1>1, OkWrites
    <2> HIDE DEF ok
    <2>4. /\ base' \in ImplBaseType
          /\ OnlyFrom(ok, req) => OnlyFrom(base', req)
          /\ base'.error = ok.error /\ base'.usingSchemeResolver = ok.usingSchemeResolver
          /\ \/ base'.responseString = {<<req, 1>>} /\ UNCHANGED responseBuffer
             \/ base'.responseString = ok.responseString /\ responseBuffer' = {<<req, 1>>}
      BY <1>1, <1>3, <2>3, BodyWrites
    <2>5. transfer'[g].url.of = req
      BY <2>1, <2>2 DEF req
    <2>6. Fills(g)
      BY <1>2, <2>1, <2>2, <2>3, <2>4, <2>5 DEF Fills
    <2>7. QED
      BY <2>2, <2>6 DEF Proceeds
  <1>4. CASE /\ \/ Goes(g, [t EXCEPT !.pc = "fault", !.url = url, !.lost = TRUE])
                \/ Goes(g, [t EXCEPT !.pc = "complete", !.url = url, !.lost = TRUE])
             /\ UNCHANGED response
    <2>1. PICK n \in { [t EXCEPT !.pc = "fault", !.url = url, !.lost = TRUE],
                       [t EXCEPT !.pc = "complete", !.url = url, !.lost = TRUE] } : Goes(g, n)
      BY <1>4
    <2>2. Way(g, n) /\ n.header = t.header /\ n.lost
      BY <1>1, <1>2, <2>1 DEF Way, Transfers, Running, Over
    <2>3. Moves(g) /\ transfer'[g] = n
      BY <2>1, <2>2, GoesMoves
    <2>4. QED
      BY <1>2, <1>4, <2>2, <2>3 DEF Proceeds, Silent
  <1>5. QED
    BY <1>3, <1>4 DEF AndroidAsset

LEMMA AndroidConnectProceeds ==
    ASSUME TypeOK, NEW g \in Requests, AndroidConnect(g)
    PROVE  Proceeds(g)
  <1> DEFINE t == transfer[g]
  <1>1. /\ t \in Transfers /\ url \in Urls /\ requestHeader \in Nat
        /\ transfer \in [Requests -> Transfers]
    BY TransferTypes DEF TypeOK
  <1>2. /\ platform = "android" /\ t.pc = "started" /\ t.stage = "head"
        /\ UNCHANGED << platform, response, responseType, url, cancelled, ticket,
                        client, gen, phase >>
    BY DEF AndroidConnect, At
  <1>3. CASE /\ transfer' = [transfer EXCEPT ![g].pc = "pending", ![g].url = url,
                                             ![g].header = requestHeader]
             /\ requestHeader' = HeaderAfterConnect
    <2> DEFINE n == [t EXCEPT !.pc = "pending", !.url = url, !.header = requestHeader]
    <2>1. transfer' = [transfer EXCEPT ![g] = n] /\ transfer'[g] = n
      BY <1>1, <1>3
    <2>2. Way(g, n) /\ n.header = requestHeader /\ n.pc # "complete"
      BY <1>1, <1>2 DEF Way, Transfers, Running, Over, Windows
    <2> HIDE DEF n
    <2>3. Moves(g)
      BY <1>2, <1>3, <2>1, <2>2 DEF Moves, HeaderAfterConnect
    <2>4. QED
      BY <1>2, <2>1, <2>2, <2>3 DEF Proceeds, Silent, response
  <1>4. CASE /\ transfer' = [transfer EXCEPT ![g].pc = "complete", ![g].lost = TRUE]
             /\ UNCHANGED requestHeader
    <2> DEFINE n == [t EXCEPT !.pc = "complete", !.lost = TRUE]
    <2>1. transfer' = [transfer EXCEPT ![g] = n] /\ transfer'[g] = n
      BY <1>1, <1>4
    <2>2. Way(g, n) /\ n.header = t.header /\ n.lost
      BY <1>1, <1>2 DEF Way, Transfers, Running, Over
    <2> HIDE DEF n
    <2>3. Moves(g)
      BY <1>2, <1>4, <2>1, <2>2 DEF Moves
    <2>4. QED
      BY <1>2, <2>1, <2>2, <2>3 DEF Proceeds, Silent, response
  <1>5. QED
    BY <1>3, <1>4 DEF AndroidConnect

LEMMA AndroidProceeds ==
    ASSUME TypeOK, NEW g \in Requests,
           AndroidStatus(g) \/ AndroidThrowable(g) \/ AndroidTask(g)
    PROVE  Proceeds(g)
  <1> DEFINE t == transfer[g]
             req == transfer[g].url.of
  <1>1. /\ t \in Transfers /\ base \in ImplBaseType /\ req \in Nat
        /\ 200 \in StatusCodes /\ 404 \in StatusCodes
    BY TransferTypes DEF StatusCodes
  <1>2. CASE AndroidThrowable(g)
    <2> DEFINE n == [t EXCEPT !.pc = "complete", !.lost = TRUE]
    <2>1. /\ t.pc \in {"pending", "started"} /\ platform = "android" /\ Goes(g, n)
          /\ UNCHANGED response
      BY <1>2 DEF AndroidThrowable
    <2>2. Way(g, n) /\ n.header = t.header /\ n.lost
      BY <1>1, <2>1 DEF Way, Transfers, Running, Over, Windows
    <2>3. Moves(g) /\ transfer'[g] = n
      BY <2>1, <2>2, GoesMoves
    <2>4. QED
      BY <2>1, <2>2, <2>3 DEF Proceeds, Silent
  <1>3. CASE AndroidStatus(g)
    <2> DEFINE Head(code) ==
                 InsertHeader([base EXCEPT !.status = [code |-> code, of |-> req]], req)
    <2>1. /\ t.pc = "pending" /\ t.stage = "head" /\ platform = "android"
          /\ UNCHANGED responseBuffer
      BY <1>3 DEF AndroidStatus, At
    <2>2. ASSUME NEW code \in {200, 404}, base' = Head(code)
          PROVE  /\ base' \in ImplBaseType
                 /\ OnlyFrom(base, req) => OnlyFrom(base', req)
                 /\ base'.error = base.error
                 /\ base'.usingSchemeResolver = base.usingSchemeResolver
                 /\ base'.responseString = base.responseString
                 /\ base'.status.code = code
      <3>1. base' = Head(code) /\ code \in StatusCodes /\ base \in ImplBaseType /\ req \in Nat
        BY <1>1, <2>2
      <3> HIDE DEF req
      <3>2. QED
        BY <3>1, StatusWrites, InsertWrites
    <2>3. CASE Goes(g, [t EXCEPT !.pc = "started", !.stage = "body"]) /\ base' = Head(200)
      <3> DEFINE n == [t EXCEPT !.pc = "started", !.stage = "body"]
      <3>1. Way(g, n) /\ n.header = t.header /\ n.stage = "body" /\ n.pc = "started"
        BY <1>1, <2>1 DEF Way, Transfers, Running, Over, Windows
      <3>2. Moves(g) /\ transfer'[g] = n
        BY <2>3, <3>1, GoesMoves
      <3>3. QED
        BY <2>1, <2>2, <2>3, <3>1, <3>2 DEF Proceeds, Heads
    <2>4. CASE Goes(g, [t EXCEPT !.pc = "complete"]) /\ base' = Head(404)
      <3> DEFINE n == [t EXCEPT !.pc = "complete"]
      <3>1. Way(g, n) /\ n.header = t.header /\ n.pc = "complete"
        BY <1>1, <2>1 DEF Way, Transfers, Running, Over, Windows
      <3>2. Moves(g) /\ transfer'[g] = n
        BY <2>4, <3>1, GoesMoves
      <3>3. QED
        BY <2>1, <2>2, <2>4, <3>1, <3>2 DEF Proceeds, Heads
    <2>5. QED
      BY <1>3, <2>3, <2>4 DEF AndroidStatus
  <1>4. CASE AndroidContent(g)
    <2> DEFINE n == [t EXCEPT !.pc = "complete"]
               b == [base EXCEPT !.responseUrl = req]
    <2>1. /\ t.pc = "started" /\ t.stage = "body" /\ Goes(g, n)
          /\ BodyGoesTo(responseType, b, req)
      BY <1>4 DEF AndroidContent, At
    <2>2. /\ b \in ImplBaseType
          /\ OnlyFrom(base, req) => OnlyFrom(b, req)
          /\ b.error = base.error /\ b.usingSchemeResolver = base.usingSchemeResolver
          /\ b.responseString = base.responseString
      <3>1. base \in ImplBaseType /\ req \in Nat
        BY <1>1
      <3> HIDE DEF req
      <3>2. QED
        BY <3>1, TextsWrite
    <2> HIDE DEF b
    <2>3. QED
      BY <2>1, <2>2, WinFills
  <1>5. QED
    BY <1>2, <1>3, <1>4, AndroidAssetProceeds, AndroidConnectProceeds DEF AndroidTask

\* Every step, one disjunct for each kind.
LEMMA NextCases ==
    ASSUME TypeOK, [Next]_vars
    PROVE  \/ OpenDiverted \/ Opening
           \/ SendResolved \/ Sending \/ AtOnce
           \/ \E type \in Sinks : SetResponseType(type)
           \/ SetRequestHeader
           \/ Abort
           \/ AppleListen
           \/ \E g \in Requests : Proceeds(g)
           \/ \E g \in Requests : Complete(g)
           \/ UNCHANGED vars
  <1>1. CASE AppleClient \/ WinClient \/ AndroidClient
    BY <1>1, OpeningIs, SendingIs, AtOnceIs DEF AppleClient, WinClient, AndroidClient
  <1>2. ASSUME NEW g \in Requests, PeerNext(g) \/ HandlerNext(g)
        PROVE  Proceeds(g) \/ Complete(g)
    BY <1>2, AppleProceeds, StartProceeds, WinProceeds, AndroidProceeds
       DEF PeerNext, HandlerNext
  <1>3. QED
    BY <1>1, <1>2 DEF Next, ClientNext

-----------------------------------------------------------------------------
(* Types, for any client.                                                  *)

LEMMA TypeInit == Init => TypeOK
  <1> SUFFICES ASSUME Init PROVE TypeOK
    OBVIOUS
  <1>1. NoUrl \in Urls /\ NoUrl.kind # "app"
    BY DEF Urls, NoUrl, NoOne
  <1>2. NoTransfer \in Transfers
    BY <1>1 DEF Transfers, NoTransfer, NoOne, Sinks
  <1>3. 0 \in 0 .. MaxOpens
    BY DetachedAssumption DEF DetachedAssumption
  <1>4. QED
    BY <1>1, <1>2, <1>3, FreshResponseIsEmpty DEF Init, TypeOK, NoOne, Sinks, Phases

\* What a step of a transfer leaves of the types.
LEMMA ProceedsType ==
    ASSUME TypeOK, NEW g \in Requests, Proceeds(g)
    PROVE  /\ base' \in ImplBaseType
           /\ responseBuffer' \subseteq Nat \X Nat
           /\ requestHeader' \in Nat
           /\ transfer' \in [Requests -> Transfers]
           /\ transfer' = [transfer EXCEPT ![g] = transfer'[g]]
           /\ transfer'[g] \in Transfers /\ transfer'[g].url.of \in Nat
           /\ UNCHANGED << platform, responseType, url, cancelled, ticket, client,
                           gen, phase >>
  <1>1. /\ transfer[g] \in Transfers /\ transfer[g].url.of \in Nat
        /\ base \in ImplBaseType /\ responseBuffer \subseteq Nat \X Nat
        /\ requestHeader \in Nat /\ transfer \in [Requests -> Transfers]
    BY TransferTypes DEF TypeOK
  <1>2. /\ transfer' = [transfer EXCEPT ![g] = transfer'[g]]
        /\ transfer'[g] \in Transfers
        /\ requestHeader' \in {requestHeader, NoOne}
        /\ UNCHANGED << platform, responseType, url, cancelled, ticket, client,
                        gen, phase >>
    BY DEF Proceeds, Moves, Way
  <1>3. transfer'[g].url.of \in Nat
    BY <1>2 DEF Transfers, Urls
  <1>4. /\ base' \in ImplBaseType
        /\ responseBuffer' \subseteq Nat \X Nat
    <2>1. CASE Silent(g)
      BY <1>1, <2>1 DEF Silent, response
    <2>2. CASE Errs(g)
      <3>1. "NSURLError" \in ErrorSymbols
        BY DEF ErrorSymbols
      <3>2. /\ base' = SetError(base, "NSURLError", transfer[g].url.of)
            /\ responseBuffer' = responseBuffer
        BY <2>2 DEF Errs
      <3>3. QED
        BY <1>1, <3>1, <3>2, SetErrorType
    <2>3. CASE Heads(g)
      BY <1>1, <2>3 DEF Heads
    <2>4. CASE Fills(g)
      BY <1>1, <1>3, <2>4 DEF Fills
    <2>5. CASE Breaks(g)
      BY <1>1, <2>5 DEF Breaks
    <2>6. QED
      BY <2>1, <2>2, <2>3, <2>4, <2>5 DEF Proceeds
  <1>5. QED
    BY <1>1, <1>2, <1>3, <1>4 DEF NoOne

\* A transfer has no say in where its request was sent.
LEMMA ProceedsResolver ==
    ASSUME TypeOK, NEW g \in Requests, Proceeds(g)
    PROVE  base'.usingSchemeResolver = base.usingSchemeResolver
  <1>1. /\ "NSURLError" \in ErrorSymbols \ {""} /\ transfer[g].url.of \in Nat
        /\ base \in ImplBaseType
    BY TransferTypes DEF ErrorSymbols
  <1>2. CASE Errs(g)
    BY <1>1, <1>2, SetErrorWrites DEF Errs
  <1>3. CASE Silent(g) \/ Heads(g) \/ Fills(g) \/ Breaks(g)
    BY <1>3 DEF Silent, Heads, Fills, Breaks, response
  <1>4. QED
    BY <1>2, <1>3 DEF Proceeds

\* What an Open() of the backend leaves of the response.
LEMMA OpenedResponse ==
    ASSUME TypeOK, NEW b,
           \/ b = ResetForOpen(base)
           \/ b = SetError(ResetForOpen(base), "AppResourceNotFound", gen + 1)
    PROVE  /\ b \in ImplBaseType /\ OnlyFrom(b, gen + 1)
           /\ b.status = NoStatus /\ ~b.usingSchemeResolver /\ b.responseString = {}
           /\ b = ResetForOpen(base) => ~Failed(b)
  <1>1. /\ FreshResponse \in ImplBaseType /\ FreshResponse.status = NoStatus
        /\ ~FreshResponse.usingSchemeResolver /\ OnlyFrom(FreshResponse, gen + 1)
        /\ ~Failed(FreshResponse)
    BY FreshResponseIsEmpty
  <1>2. FreshResponse.responseString = {}
    BY DEF FreshResponse
  <1>3. gen + 1 \in Nat /\ "AppResourceNotFound" \in ErrorSymbols \ {""}
    BY DEF TypeOK, ErrorSymbols
  <1>4. CASE b = ResetForOpen(base)
    BY <1>1, <1>2, <1>4 DEF ResetForOpen
  <1>5. CASE b = SetError(ResetForOpen(base), "AppResourceNotFound", gen + 1)
    <2>1. b = SetError(FreshResponse, "AppResourceNotFound", gen + 1)
      BY <1>5 DEF ResetForOpen
    <2>2. Failed(b)
      BY <1>1, <1>3, <2>1, SetErrorWrites
    <2>3. b # ResetForOpen(base)
      BY <1>1, <2>2 DEF ResetForOpen
    <2>4. /\ b \in ImplBaseType /\ b.status = NoStatus
          /\ ~b.usingSchemeResolver /\ b.responseString = {}
      <3>1. /\ b \in ImplBaseType /\ b.status = FreshResponse.status
            /\ b.responseString = FreshResponse.responseString
        BY <1>1, <1>3, <2>1, SetErrorWrites
      <3>2. b.usingSchemeResolver = FreshResponse.usingSchemeResolver
        BY <1>1, <1>3, <2>1, SetErrorWrites
      <3>3. QED
        BY <1>1, <1>2, <3>1, <3>2
    <2>5. OnlyFrom(b, gen + 1)
      BY <1>1, <1>3, <2>1, SetErrorWrites
    <2>6. QED
      BY <2>3, <2>4, <2>5
  <1>6. QED
    BY <1>4, <1>5

LEMMA TypeStep ==
    ASSUME TypeOK, [Next]_vars
    PROVE  TypeOK'
  <1>1. /\ gen \in 0 .. MaxOpens /\ MaxOpens \in Nat
        /\ base \in ImplBaseType /\ transfer \in [Requests -> Transfers]
        /\ NoTransfer \in Transfers
    BY TransferTypes, DetachedAssumption, FreshResponseIsEmpty
       DEF TypeOK, DetachedAssumption, NoTransfer, Transfers, Urls, NoUrl, NoOne, Sinks
  <1>2. CASE OpenDiverted
    <2>1. base' \in ImplBaseType
      BY <1>1, <1>2, DivertedIsEmpty DEF OpenDiverted
    <2>2. QED
      BY <1>1, <1>2, <2>1 DEF OpenDiverted, CanOpen, TypeOK, sendState, Phases
  <1>3. CASE Opening
    <2>1. PICK b \in ImplBaseType, u \in Urls, outcome \in {"opened", "threw"} :
            /\ Opens(b, u, outcome)
            /\ platform = "apple" => u.kind # "app"
      BY <1>3 DEF Opening
    <2>2. QED
      BY <1>1, <1>3, <2>1 DEF Opening, Opens, CanOpen, TypeOK, ClearedBuffer, Phases
  <1>4. CASE SendResolved
    <2>1. base' \in ImplBaseType
      BY <1>1, <1>4, ResolutionWrites DEF SendResolved
    <2>2. QED
      BY <1>4, <2>1 DEF SendResolved, TypeOK, sendState, Phases
  <1>5. CASE Sending
    <2>1. PICK t \in Transfers :
            /\ Sends(t)
            /\ client' \in {client, "sending"}
            /\ requestHeader' \in {requestHeader, NoOne}
      BY <1>5 DEF Sending
    <2>2. transfer' \in [Requests -> Transfers]
      BY <1>1, <2>1 DEF Sends
    <2>3. /\ UNCHANGED << platform, base, responseType, responseBuffer, url, cancelled,
                          ticket, gen >>
          /\ phase' \in Phases
      BY <2>1 DEF Sends, response, Phases
    <2>4. client' \in {"idle", "sending"} /\ requestHeader' \in Nat
      BY <2>1 DEF TypeOK, NoOne
    <2>5. QED
      BY <2>2, <2>3, <2>4 DEF TypeOK
  <1>6. CASE AtOnce
    <2>1. base' \in ImplBaseType
      <3>1. gen \in Nat /\ "HRESULT" \in ErrorSymbols
        BY <1>1 DEF ErrorSymbols
      <3>2. QED
        BY <1>1, <1>6, <3>1, SetErrorType DEF AtOnce
    <2>2. QED
      BY <1>6, <2>1 DEF AtOnce, SettlesAtOnce, TypeOK, NoOne, Phases
  <1>7. CASE \E type \in Sinks : SetResponseType(type)
    BY <1>7 DEF SetResponseType, TypeOK, response, sendState
  <1>8. CASE SetRequestHeader
    BY <1>1, <1>8 DEF SetRequestHeader, TypeOK, response
  <1>9. CASE Abort
    <2>1. \A g \in Requests :
            [transfer[g] EXCEPT !.stopped = @ \/ (g = ticket /\ transfer[g].pc = "pending")]
              \in Transfers
      BY <1>1 DEF Transfers
    <2>2. transfer' \in [Requests -> Transfers]
      BY <1>9, <2>1 DEF Abort
    <2>3. QED
      BY <1>9, <2>2 DEF Abort, TypeOK, response
  <1>10. CASE AppleListen
    <2>1. \A g \in Requests, stop \in BOOLEAN :
            [transfer[g] EXCEPT !.stopped = stop] \in Transfers
      BY <1>1 DEF Transfers
    <2>2. (cancelled /\ transfer[gen].pc = "pending") \in BOOLEAN
      BY DEF TypeOK
    <2>3. transfer' \in [Requests -> Transfers]
      BY <1>1, <1>10, <2>1, <2>2 DEF AppleListen
    <2>4. ticket' \in Requests \cup {NoOne}
      BY <1>1, <1>10 DEF AppleListen, LastTicket, Requests, NoOne
    <2>5. QED
      BY <1>10, <2>3, <2>4 DEF AppleListen, TypeOK, response
  <1>11. CASE \E g \in Requests : Proceeds(g)
    <2>1. PICK g \in Requests : Proceeds(g)
      BY <1>11
    <2>2. QED
      BY <2>1, ProceedsType DEF TypeOK
  <1>12. CASE \E g \in Requests : Complete(g)
    <2>1. PICK g \in Requests : Complete(g)
      BY <1>12
    <2>2. \A f \in BOOLEAN : [transfer[g] EXCEPT !.pc = "done", !.faulted = f] \in Transfers
      BY <1>1 DEF Transfers
    <2>3. transfer' \in [Requests -> Transfers]
      BY <1>1, <2>1, <2>2 DEF Complete
    <2>4. QED
      BY <2>1, <2>3 DEF Complete, TypeOK, response, sendState, Phases
  <1>13. CASE UNCHANGED vars
    BY <1>13 DEF vars, TypeOK, response, sendState
  <1>14. QED
    BY NextCases, <1>2, <1>3, <1>4, <1>5, <1>6, <1>7, <1>8, <1>9, <1>10, <1>11, <1>12,
       <1>13

\* The types of the object and of its transfers.
THEOREM TypeCorrect == Spec => []TypeOK
  BY TypeInit, TypeStep, PTL DEF Spec

-----------------------------------------------------------------------------
(* What holds whatever the client does.                                    *)

\* A request has its transfer from its one SendAsync(), and the client goes on
\* after that only when the listener is there.
Numbers ==
    /\ phase = "new" <=> gen = 0
    /\ \A g \in Requests :
         g > gen \/ (g = gen /\ phase \in {"opened", "threw"}) => transfer[g] = NoTransfer
    /\ client = "sending" => platform = "apple" /\ phase \in {"sent", "settled"}

\* On Apple the URL that would be sent is that of the current request.
Addresses ==
    /\ platform = "apple" /\ ~base.usingSchemeResolver => url.of \in {NoOne, gen}
    /\ AppleSendsNoStaleUrl

\* On Apple the ticket is that of the current transfer, once there is a listener.
Tickets ==
    /\ platform = "apple" /\ phase = "sent" /\ client = "idle" => ticket = gen
    /\ AbortStopsTheLast

Loose == TypeOK /\ Numbers /\ Addresses /\ Tickets

\* The numbers of the requests.
LEMMA GenIs ==
    ASSUME TypeOK, Numbers
    PROVE  /\ gen \in Nat /\ MaxOpens \in Nat
           /\ phase # "new" => gen \in Requests
           /\ transfer \in [Requests -> Transfers]
           /\ NoTransfer.pc = "none" /\ NoTransfer.url.of = NoOne
  BY DetachedAssumption
     DEF TypeOK, Numbers, DetachedAssumption, Requests, NoTransfer, NoUrl

LEMMA LooseInit == Init => Loose
  <1> SUFFICES ASSUME Init PROVE Loose
    OBVIOUS
  <1>1. TypeOK
    BY TypeInit
  <1>2. Numbers
    BY DEF Init, Numbers
  <1>3. Addresses
    BY DEF Init, Addresses, AppleSendsNoStaleUrl, NoUrl, NoTransfer, NoOne
  <1>4. Tickets
    BY DEF Init, Tickets, AbortStopsTheLast
  <1>5. QED
    BY <1>1, <1>2, <1>3, <1>4 DEF Loose

LEMMA NumbersStep ==
    ASSUME TypeOK, Numbers, [Next]_vars
    PROVE  Numbers'
  <1>0. /\ gen \in Nat /\ MaxOpens \in Nat /\ Requests = 1 .. MaxOpens
        /\ transfer \in [Requests -> Transfers]
        /\ NoTransfer.pc = "none"
    BY GenIs DEF Requests
  <1>2. CASE OpenDiverted
    BY <1>0, <1>2 DEF OpenDiverted, CanOpen, Numbers, sendState
  <1>3. CASE Opening
    <2>1. PICK b \in ImplBaseType, u \in Urls, outcome \in {"opened", "threw"} : Opens(b, u, outcome)
      BY <1>3 DEF Opening
    <2>2. QED
      BY <1>0, <1>3, <2>1 DEF Opening, Opens, CanOpen, Numbers
  <1>4. CASE SendResolved
    BY <1>0, <1>4 DEF SendResolved, Numbers, sendState
  <1>5. CASE Sending
    <2>1. PICK t \in Transfers :
            /\ Sends(t)
            /\ platform = "apple" => client' = "sending"
            /\ platform # "apple" => client' = client
      BY <1>5 DEF Sending
    <2>2. phase \in {"opened", "threw"} /\ client = "idle"
      BY <1>5 DEF Sending, CanSend
    <2>3. QED
      BY <1>0, <2>1, <2>2 DEF Sends, Numbers
  <1>6. CASE AtOnce
    BY <1>0, <1>6 DEF AtOnce, SettlesAtOnce, CanSend, Numbers
  <1>7. CASE \E type \in Sinks : SetResponseType(type)
    BY <1>7 DEF SetResponseType, Numbers
  <1>8. CASE SetRequestHeader
    BY <1>8 DEF SetRequestHeader, Numbers
  <1>9. CASE Abort
    <2>1. ASSUME NEW g \in Requests, transfer[g] = NoTransfer
          PROVE  transfer'[g] = NoTransfer
      <3>1. transfer'[g] = [NoTransfer EXCEPT !.stopped =
                              @ \/ (g = ticket /\ NoTransfer.pc = "pending")]
        BY <1>9, <2>1 DEF Abort
      <3>2. ~(g = ticket /\ NoTransfer.pc = "pending")
        BY <1>0
      <3>3. transfer'[g] = [NoTransfer EXCEPT !.stopped = FALSE]
        BY <3>1, <3>2 DEF NoTransfer
      <3>4. QED
        BY <3>3 DEF NoTransfer
    <2>2. QED
      BY <1>9, <2>1 DEF Abort, Numbers
  <1>10. CASE AppleListen
    <2>1. phase \in {"sent", "settled"} /\ client = "sending"
      BY <1>10 DEF AppleListen, Numbers
    <2>2. \A g \in Requests : g # gen => transfer'[g] = transfer[g]
      BY <1>0, <1>10 DEF AppleListen
    <2>3. QED
      BY <1>0, <1>10, <2>1, <2>2 DEF AppleListen, Numbers
  <1>11. CASE \E g \in Requests : Proceeds(g)
    <2>1. PICK g \in Requests : Proceeds(g)
      BY <1>11
    <2>2. transfer[g] # NoTransfer
      BY <1>0, <2>1 DEF Proceeds, Moves, Way, Running
    <2>3. QED
      BY <1>0, <2>1, <2>2, ProceedsType DEF Numbers
  <1>12. CASE \E g \in Requests : Complete(g)
    <2>1. PICK g \in Requests : Complete(g)
      BY <1>12
    <2>2. transfer[g] # NoTransfer
      BY <1>0, <2>1 DEF Complete
    <2>3. \A h \in Requests : h # g => transfer'[h] = transfer[h]
      BY <1>0, <2>1 DEF Complete
    <2>4. g <= gen /\ phase # "new"
      BY <1>0, <2>2 DEF Numbers
    <2>5. QED
      BY <1>0, <2>1, <2>2, <2>3, <2>4 DEF Complete, Numbers, sendState
  <1>13. CASE UNCHANGED vars
    BY <1>13 DEF vars, Numbers, sendState
  <1>14. QED
    BY NextCases, <1>2, <1>3, <1>4, <1>5, <1>6, <1>7, <1>8, <1>9, <1>10, <1>11, <1>12,
       <1>13

\* Only a SendAsync() gives a transfer its URL on Apple.
LEMMA AddressesStep ==
    ASSUME TypeOK, Numbers, Addresses, [Next]_vars
    PROVE  Addresses'
  <1>0. /\ gen \in Nat /\ transfer \in [Requests -> Transfers]
        /\ NoTransfer.url.of = NoOne /\ NoUrl.of = NoOne
        /\ base \in ImplBaseType
    BY GenIs DEF TypeOK, NoUrl
  <1>a. ASSUME UNCHANGED << platform, url, gen >>,
               base'.usingSchemeResolver = base.usingSchemeResolver,
               platform = "apple" => \A g \in Requests : transfer'[g].url = transfer[g].url
        PROVE  Addresses'
    BY <1>a DEF Addresses, AppleSendsNoStaleUrl
  <1>2. CASE OpenDiverted
    <2>1. base'.usingSchemeResolver
      BY <1>0, <1>2, DivertedIsEmpty DEF OpenDiverted
    <2>2. QED
      BY <1>2, <2>1 DEF OpenDiverted, Addresses, AppleSendsNoStaleUrl
  <1>3. CASE Opening
    <2>1. PICK b \in ImplBaseType, u \in Urls, outcome \in {"opened", "threw"} :
            /\ Opens(b, u, outcome)
            /\ platform = "apple" => u.of \in {NoOne, gen + 1}
      BY <1>3 DEF Opening
    <2>2. QED
      BY <2>1 DEF Opens, Addresses, AppleSendsNoStaleUrl
  <1>4. CASE SendResolved
    <2>1. base'.usingSchemeResolver = base.usingSchemeResolver
      <3>1. PICK result \in ResolverResults :
              base' = AcceptResult(TakeResolver(base, gen), result, responseType, gen)
        BY <1>4 DEF SendResolved
      <3>2. QED
        BY <1>0, <3>1, ResolutionWrites
    <2>2. QED
      BY <1>4, <2>1, <1>a DEF SendResolved, sendState
  <1>5. CASE Sending
    <2>1. PICK t \in Transfers :
            /\ Sends(t)
            /\ platform # "android" => t.url = url
      BY <1>5 DEF Sending
    <2>2. ~base.usingSchemeResolver
      BY <1>5 DEF Sending, CanSend
    <2>3. QED
      BY <1>0, <2>1, <2>2 DEF Sends, Addresses, AppleSendsNoStaleUrl, response
  <1>6. CASE AtOnce
    <2>1. base'.usingSchemeResolver = base.usingSchemeResolver
      <3>1. "HRESULT" \in ErrorSymbols \ {""}
        BY DEF ErrorSymbols
      <3>2. CASE base' = base
        BY <3>2
      <3>3. CASE base' = SetError(base, "HRESULT", gen)
        BY <1>0, <3>1, <3>3, SetErrorWrites
      <3>4. QED
        BY <1>6, <3>2, <3>3 DEF AtOnce
    <2>2. QED
      BY <1>6, <2>1, <1>a DEF AtOnce, SettlesAtOnce
  <1>7. CASE \E type \in Sinks : SetResponseType(type)
    BY <1>7, <1>a DEF SetResponseType, sendState, response
  <1>8. CASE SetRequestHeader
    BY <1>8, <1>a DEF SetRequestHeader, response
  <1>9. CASE Abort
    <2>1. \A g \in Requests : transfer'[g].url = transfer[g].url
      BY <1>0, <1>9 DEF Abort, Transfers
    <2>2. QED
      BY <1>9, <2>1, <1>a DEF Abort, response
  <1>10. CASE AppleListen
    <2>1. \A g \in Requests : transfer'[g].url = transfer[g].url
      BY <1>0, <1>10 DEF AppleListen, Transfers
    <2>2. QED
      BY <1>10, <2>1, <1>a DEF AppleListen, response
  <1>11. CASE \E g \in Requests : Proceeds(g)
    <2>1. PICK g \in Requests : Proceeds(g)
      BY <1>11
    <2>2. base'.usingSchemeResolver = base.usingSchemeResolver
      BY <2>1, ProceedsResolver
    <2>3. platform = "apple" => transfer'[g].url = transfer[g].url
      BY <2>1 DEF Proceeds, Moves, Way
    <2>4. QED
      BY <1>0, <2>1, <2>2, <2>3, <1>a, ProceedsType
  <1>12. CASE \E g \in Requests : Complete(g)
    <2>1. PICK g \in Requests : Complete(g)
      BY <1>12
    <2>2. \A h \in Requests : transfer'[h].url = transfer[h].url
      BY <1>0, <2>1 DEF Complete, Transfers
    <2>3. QED
      BY <2>1, <2>2, <1>a DEF Complete, response, sendState
  <1>13. CASE UNCHANGED vars
    BY <1>13, <1>a DEF vars, response, sendState
  <1>14. QED
    BY NextCases, <1>2, <1>3, <1>4, <1>5, <1>6, <1>7, <1>8, <1>9, <1>10, <1>11, <1>12,
       <1>13

\* The listener is there before the client goes on, and an Abort() that came
\* before it is what the listener finds.
LEMMA TicketsStep ==
    ASSUME TypeOK, Numbers, Tickets, [Next]_vars
    PROVE  Tickets'
  <1>0. /\ gen \in Nat
        /\ phase # "new" => gen \in Requests
        /\ client \in {"idle", "sending"}
    BY GenIs DEF TypeOK
  <1>1. /\ transfer \in [Requests -> Transfers]
        /\ phase # "new" => transfer[gen] \in Transfers
    BY GenIs
  <1>a. ASSUME phase' # "sent" \/ client' # "idle" \/ platform' # "apple"
        PROVE  Tickets'
    BY <1>a DEF Tickets, AbortStopsTheLast
  <1>2. CASE OpenDiverted
    BY <1>2, <1>a DEF OpenDiverted
  <1>3. CASE Opening
    BY <1>3, <1>a DEF Opening, Opens
  <1>4. CASE SendResolved
    BY <1>4, <1>a DEF SendResolved
  <1>5. CASE Sending
    BY <1>5, <1>a DEF Sending, Sends
  <1>6. CASE AtOnce
    BY <1>6, <1>a DEF AtOnce, SettlesAtOnce
  <1>7. CASE \E type \in Sinks : SetResponseType(type)
    BY <1>7 DEF SetResponseType, Tickets, AbortStopsTheLast, sendState
  <1>8. CASE SetRequestHeader
    BY <1>8 DEF SetRequestHeader, Tickets, AbortStopsTheLast
  <1>9. CASE Abort
    <2>1. SUFFICES ASSUME platform = "apple", phase = "sent", client = "idle"
                   PROVE  Tickets'
      BY <1>9, <1>a DEF Abort
    <2>2. ticket = gen /\ gen \in Requests
      BY <1>0, <2>1 DEF Tickets
    <2>3. transfer'[gen].pc = "pending" => transfer'[gen].stopped
      BY <1>1, <1>9, <2>2 DEF Abort, Transfers
    <2>4. QED
      BY <1>9, <2>2, <2>3 DEF Abort, Tickets, AbortStopsTheLast
  <1>10. CASE AppleListen
    <2>1. phase # "new"
      BY <1>10 DEF AppleListen, Numbers
    <2>2. /\ transfer'[gen].pc = transfer[gen].pc
          /\ cancelled /\ transfer[gen].pc = "pending" => transfer'[gen].stopped
      BY <1>0, <1>1, <1>10, <2>1 DEF AppleListen, Transfers
    <2>3. QED
      BY <1>10, <2>2 DEF AppleListen, LastTicket, Tickets, AbortStopsTheLast
  <1>11. CASE \E g \in Requests : Proceeds(g)
    <2>1. PICK g \in Requests : Proceeds(g)
      BY <1>11
    <2>2. platform = "apple" => transfer'[g].pc # "pending"
      BY <2>1 DEF Proceeds, Moves, Way
    <2>3. \A h \in Requests : h # g => transfer'[h] = transfer[h]
      BY <1>1, <2>1, ProceedsType
    <2>4. QED
      BY <1>0, <2>1, <2>2, <2>3, ProceedsType DEF Tickets, AbortStopsTheLast
  <1>12. CASE \E g \in Requests : Complete(g)
    <2>1. PICK g \in Requests : Complete(g)
      BY <1>12
    <2>2. CASE g = gen
      BY <2>1, <2>2, <1>a DEF Complete
    <2>3. CASE phase = "new"
      BY <1>0, <2>1, <2>3, <1>a DEF Complete
    <2>4. CASE g # gen /\ phase # "new"
      <3>1. transfer'[gen] = transfer[gen]
        BY <1>0, <1>1, <2>1, <2>4 DEF Complete
      <3>2. QED
        BY <2>1, <2>4, <3>1 DEF Complete, Tickets, AbortStopsTheLast, sendState
    <2>5. QED
      BY <2>2, <2>3, <2>4
  <1>13. CASE UNCHANGED vars
    BY <1>13 DEF vars, Tickets, AbortStopsTheLast, sendState
  <1>14. QED
    BY NextCases, <1>2, <1>3, <1>4, <1>5, <1>6, <1>7, <1>8, <1>9, <1>10, <1>11, <1>12,
       <1>13

LEMMA LooseStep == Loose /\ [Next]_vars => Loose'
  BY TypeStep, NumbersStep, AddressesStep, TicketsStep DEF Loose

LEMMA LooseAlways == Spec => []Loose
  BY LooseInit, LooseStep, PTL DEF Spec

\* Even an Open() that throws leaves no URL of an earlier request behind, so a
\* careless client may fail to send, but never sends what it did not ask for.
THEOREM NoStaleUrl == Spec => []AppleSendsNoStaleUrl
  <1>1. Loose => AppleSendsNoStaleUrl
    BY DEF Loose, Addresses
  <1>2. QED
    BY <1>1, LooseAlways, PTL

\* The ticket is replaced by every send and the listener of a source that is
\* cancelled already is called at once: however Abort() and SendAsync()
\* interleave, the last transfer is stopped.
THEOREM AbortStops == Spec => []AbortStopsTheLast
  <1>1. Loose => AbortStopsTheLast
    BY DEF Loose, Tickets
  <1>2. QED
    BY <1>1, LooseAlways, PTL

\* An aborted transfer that has its last look at the source still before it, or
\* that has ended without a look at the answer.
KeptOut(g) ==
    /\ cancelled
    /\ BeforeItsLastTest(g) \/ transfer[g].pc \in {"fault", "done"}

LEMMA KeptOutStep ==
    ASSUME TypeOK, Numbers, NEW g \in Requests, KeptOut(g), [Next]_vars
    PROVE  KeptOut(g)'
  <1>0. /\ gen \in Nat /\ transfer \in [Requests -> Transfers]
        /\ transfer[g] \in Transfers /\ NoTransfer.pc = "none"
    BY GenIs
  <1>a. ASSUME UNCHANGED platform, cancelled', transfer'[g].pc = transfer[g].pc
        PROVE  KeptOut(g)'
    BY <1>a DEF KeptOut, BeforeItsLastTest
  <1>2. CASE OpenDiverted
    BY <1>2, <1>a DEF OpenDiverted, KeptOut, sendState
  <1>3. CASE Opening
    BY <1>3, <1>a DEF Opening, Opens, KeptOut
  <1>4. CASE SendResolved
    BY <1>4, <1>a DEF SendResolved, KeptOut, sendState
  <1>5. CASE Sending
    <2>1. PICK t \in Transfers : Sends(t)
      BY <1>5 DEF Sending
    <2>2. phase \in {"opened", "threw"}
      BY <1>5 DEF Sending, CanSend
    <2>3. g # gen
      BY <1>0, <2>2 DEF Numbers, KeptOut, BeforeItsLastTest
    <2>4. transfer'[g] = transfer[g]
      BY <1>0, <2>1, <2>3 DEF Sends
    <2>5. QED
      BY <2>1, <2>4, <1>a DEF Sends, KeptOut
  <1>6. CASE AtOnce
    BY <1>6, <1>a DEF AtOnce, SettlesAtOnce, KeptOut
  <1>7. CASE \E type \in Sinks : SetResponseType(type)
    BY <1>7, <1>a DEF SetResponseType, sendState, KeptOut
  <1>8. CASE SetRequestHeader
    BY <1>8, <1>a DEF SetRequestHeader, KeptOut
  <1>9. CASE Abort
    <2>1. transfer'[g].pc = transfer[g].pc
      BY <1>0, <1>9 DEF Abort, Transfers
    <2>2. QED
      BY <1>9, <2>1, <1>a DEF Abort
  <1>10. CASE AppleListen
    <2>1. transfer'[g].pc = transfer[g].pc
      BY <1>0, <1>10 DEF AppleListen, Transfers
    <2>2. QED
      BY <1>10, <2>1, <1>a DEF AppleListen, KeptOut
  <1>11. CASE \E h \in Requests : Proceeds(h)
    <2>1. PICK h \in Requests : Proceeds(h)
      BY <1>11
    <2>2. UNCHANGED << platform, cancelled >> /\ cancelled
      BY <2>1, ProceedsType DEF KeptOut
    <2>3. CASE h # g
      <3>1. transfer'[g] = transfer[g]
        BY <1>0, <2>1, <2>3, ProceedsType
      <3>2. QED
        BY <2>2, <3>1, <1>a
    <2>4. CASE h = g
      <3>1. transfer'[g].pc \in {"queued", "fault"}
        BY <2>1, <2>2, <2>4 DEF Proceeds, Moves, Way, KeptOut, BeforeItsLastTest, Running
      <3>2. QED
        BY <2>2, <3>1 DEF KeptOut, BeforeItsLastTest
    <2>5. QED
      BY <2>3, <2>4
  <1>12. CASE \E h \in Requests : Complete(h)
    <2>1. PICK h \in Requests : Complete(h)
      BY <1>12
    <2>2. UNCHANGED << platform, cancelled >> /\ cancelled
      BY <2>1 DEF Complete, KeptOut, sendState
    <2>3. CASE h # g
      <3>1. transfer'[g] = transfer[g]
        BY <1>0, <2>1, <2>3 DEF Complete
      <3>2. QED
        BY <2>2, <3>1, <1>a
    <2>4. CASE h = g
      <3>1. transfer'[g].pc = "done"
        BY <1>0, <2>1, <2>4 DEF Complete, Transfers
      <3>2. QED
        BY <2>2, <3>1 DEF KeptOut
    <2>5. QED
      BY <2>3, <2>4
  <1>13. CASE UNCHANGED vars
    BY <1>13, <1>a DEF vars, sendState, KeptOut
  <1>14. QED
    BY NextCases, <1>2, <1>3, <1>4, <1>5, <1>6, <1>7, <1>8, <1>9, <1>10, <1>11, <1>12,
       <1>13

\* What Abort() finds before a test of the source never has its answer, whatever
\* the client does and however many requests the object carries.
THEOREM AbortKeeps == Spec => AbortKeepsOut
  <1>1. ASSUME NEW g \in Requests
        PROVE  Spec => [](cancelled /\ BeforeItsLastTest(g) => [](transfer[g].pc # "complete"))
    <2>1. Loose /\ KeptOut(g) /\ [Next]_vars => KeptOut(g)'
      BY KeptOutStep DEF Loose
    <2>2. cancelled /\ BeforeItsLastTest(g) => KeptOut(g)
      BY DEF KeptOut
    <2>3. Loose /\ KeptOut(g) => transfer[g].pc # "complete"
      BY DEF KeptOut, BeforeItsLastTest
    <2>4. QED
      BY <2>1, <2>2, <2>3, LooseAlways, PTL DEF Spec
  <1>2. QED
    BY <1>1 DEF AbortKeepsOut

-----------------------------------------------------------------------------
(* The invariants, for a client that waits for its tasks, and for one that *)
(* sends nothing after an Open() that threw either.                        *)

\* The task of a request is awaited before the next Open().
Patient == "OpenInFlight" \notin ClientMay

\* ... and after an Open() that threw nothing is sent, except on Apple, where
\* Open() has assigned the URL by then.
Careful ==
    /\ Patient
    /\ "SendAfterThrow" \in ClientMay => Platforms \subseteq {"apple"}

\* Only the transfer of the current request is on its way, and only while that
\* request is sent.
Flow ==
    /\ \A g \in Requests : transfer[g].pc \notin Over => g = gen /\ phase = "sent"
    /\ phase = "sent" => transfer[gen].pc \notin Over /\ ~base.usingSchemeResolver

\* What is sent is the URL of the current request.
Sources ==
    /\ phase \in {"opened", "sent"} \/ (phase = "threw" /\ platform = "apple") =>
          \/ base.usingSchemeResolver
          \/ url.of = gen
          \/ platform = "apple" /\ url = NoUrl
    /\ phase = "sent" =>
         \/ transfer[gen].url.of = gen
         \/ /\ platform = "android" /\ transfer[gen].stage = "head"
            /\ transfer[gen].pc \notin {"pending", "error"}

\* How far the status and the error may have got.
Status ==
    /\ Failed(base) => base.status = NoStatus
    /\ phase \in {"new", "opened", "threw"} => base.status = NoStatus
    /\ phase \in {"opened", "threw"} /\ Failed(base) =>
         ~base.usingSchemeResolver /\ platform = "apple" /\ url = NoUrl
    /\ phase = "sent" /\ transfer[gen].pc \in Running =>
         /\ ~Failed(base)
         /\ transfer[gen].stage = "head" \/ transfer[gen].pc = "error" =>
              base.status = NoStatus

\* Who has written to the response.
Written ==
    /\ OnlyFrom(base, gen)
    /\ ~base.usingSchemeResolver => PiecesOf(responseBuffer, gen)

\* There is no body before the end, and then there is one.
Empty == base.responseString = {} /\ responseBuffer = {}
Filled == { base.responseString, responseBuffer } = { {}, {<<gen, 1>>} }
Bodies ==
    /\ phase \in {"opened", "threw"} /\ ~base.usingSchemeResolver => Empty
    /\ phase = "sent" /\ transfer[gen].pc \in Running => Empty
    /\ phase = "sent" /\ transfer[gen].pc = "complete"
         /\ (platform = "android" => ~transfer[gen].lost)
         => base.status.code # 200 \/ Filled
    /\ OkHasItsBody

\* Headers go out in the order in which they were set, if at all.
Headers ==
    platform # "apple" =>
        /\ requestHeader <= gen
        /\ \A g \in Requests : /\ transfer[g].header <= g
                               /\ requestHeader # NoOne => transfer[g].header # requestHeader
        /\ HeadersAreNotResent

\* A transfer that was sent after an Abort() will not have its answer.
Doomed == phase = "sent" /\ transfer[gen].doomed => KeptOut(gen)

\* What such clients do not do.
LEMMA PatientClient ==
    ASSUME Patient
    PROVE  /\ CanOpen => phase # "sent"
           /\ CanSend => phase \in {"opened", "threw"} /\ ~base.usingSchemeResolver
  BY DEF CanOpen, CanSend, Patient

LEMMA CarefulClient ==
    ASSUME Careful, TypeOK
    PROVE  /\ Patient
           /\ CanSend => phase = "opened" \/ (phase = "threw" /\ platform = "apple")
  BY DEF CanSend, Careful, TypeOK

LEMMA FlowStep ==
    ASSUME Patient, TypeOK, Numbers, Flow, [Next]_vars
    PROVE  Flow'
  <1>0. /\ gen \in Nat /\ transfer \in [Requests -> Transfers]
        /\ phase # "new" => gen \in Requests
        /\ base \in ImplBaseType
        /\ NoTransfer.pc = "none"
    BY GenIs DEF TypeOK
  <1>a. ASSUME UNCHANGED << gen, phase >>,
               base'.usingSchemeResolver = base.usingSchemeResolver,
               \A g \in Requests : transfer'[g].pc = transfer[g].pc
        PROVE  Flow'
    BY <1>0, <1>a DEF Flow, Numbers
  <1>b. ASSUME phase # "sent", phase' # "sent", UNCHANGED transfer
        PROVE  Flow'
    BY <1>b DEF Flow
  <1>2. CASE OpenDiverted
    BY <1>2, <1>b, PatientClient DEF OpenDiverted
  <1>3. CASE Opening
    BY <1>3, <1>b, PatientClient DEF Opening, Opens
  <1>4. CASE SendResolved
    BY <1>4, <1>b DEF SendResolved
  <1>5. CASE Sending
    <2>1. PICK t \in Transfers : Sends(t) /\ t.pc \in {"pending", "queued"}
      BY <1>5 DEF Sending
    <2>2. phase \in {"opened", "threw"} /\ ~base.usingSchemeResolver
      BY <1>5, PatientClient DEF Sending
    <2>3. transfer'[gen] = t /\ \A g \in Requests : g # gen => transfer'[g] = transfer[g]
      BY <1>0, <2>1, <2>2 DEF Sends
    <2>4. base' = base /\ phase' = "sent" /\ gen' = gen
      BY <2>1 DEF Sends, response
    <2>5. QED
      BY <2>1, <2>2, <2>3, <2>4 DEF Flow, Over
  <1>6. CASE AtOnce
    BY <1>6, <1>b, PatientClient DEF AtOnce, SettlesAtOnce
  <1>7. CASE \E type \in Sinks : SetResponseType(type)
    BY <1>7, <1>a DEF SetResponseType, response
  <1>8. CASE SetRequestHeader
    BY <1>8, <1>a DEF SetRequestHeader, response
  <1>9. CASE Abort
    <2>1. \A g \in Requests : transfer'[g].pc = transfer[g].pc
      BY <1>0, <1>9 DEF Abort, Transfers
    <2>2. QED
      BY <1>9, <2>1, <1>a DEF Abort, response
  <1>10. CASE AppleListen
    <2>1. \A g \in Requests : transfer'[g].pc = transfer[g].pc
      BY <1>0, <1>10 DEF AppleListen, Transfers
    <2>2. QED
      BY <1>10, <2>1, <1>a DEF AppleListen, response
  <1>11. CASE \E g \in Requests : Proceeds(g)
    <2>1. PICK g \in Requests : Proceeds(g)
      BY <1>11
    <2>2. transfer[g].pc \notin Over /\ transfer'[g].pc \notin Over
      BY <2>1 DEF Proceeds, Moves, Way, Running, Over
    <2>3. base'.usingSchemeResolver = base.usingSchemeResolver
      BY <2>1, ProceedsResolver
    <2>4. UNCHANGED << gen, phase >> /\ \A h \in Requests : h # g => transfer'[h] = transfer[h]
      BY <1>0, <2>1, ProceedsType
    <2>5. QED
      BY <2>2, <2>3, <2>4 DEF Flow
  <1>12. CASE \E g \in Requests : Complete(g)
    <2>1. PICK g \in Requests : Complete(g)
      BY <1>12
    <2>2. g = gen
      BY <2>1 DEF Complete, Flow, Over
    <2>3. transfer'[g].pc = "done" /\ \A h \in Requests : h # g => transfer'[h] = transfer[h]
      BY <1>0, <2>1 DEF Complete, Transfers
    <2>4. phase' = "settled" /\ gen' = gen
      BY <2>1, <2>2 DEF Complete
    <2>5. QED
      BY <2>2, <2>3, <2>4 DEF Flow, Over
  <1>13. CASE UNCHANGED vars
    BY <1>13, <1>a DEF vars, response
  <1>14. QED
    BY NextCases, <1>2, <1>3, <1>4, <1>5, <1>6, <1>7, <1>8, <1>9, <1>10, <1>11, <1>12,
       <1>13

\* The URL is assigned before the request is sent, and is what the transfer gets,
\* on Android when it comes to run.
LEMMA SourcesStep ==
    ASSUME Careful, TypeOK, Numbers, Flow, Sources, [Next]_vars
    PROVE  Sources'
  <1>0. /\ gen \in Nat /\ transfer \in [Requests -> Transfers]
        /\ phase # "new" => gen \in Requests
        /\ base \in ImplBaseType
    BY GenIs DEF TypeOK
  <1>a. ASSUME UNCHANGED << platform, gen, phase, url >>,
               base'.usingSchemeResolver = base.usingSchemeResolver,
               phase = "sent" => /\ transfer'[gen].pc = transfer[gen].pc
                                 /\ transfer'[gen].stage = transfer[gen].stage
                                 /\ transfer'[gen].url = transfer[gen].url
        PROVE  Sources'
    BY <1>a DEF Sources
  <1>b. ASSUME phase' \notin {"opened", "threw", "sent"}
        PROVE  Sources'
    BY <1>b DEF Sources
  <1>2. CASE OpenDiverted
    <2>1. base'.usingSchemeResolver /\ phase' = "opened"
      BY <1>0, <1>2, DivertedIsEmpty DEF OpenDiverted
    <2>2. QED
      BY <2>1 DEF Sources
  <1>3. CASE Opening
    <2>1. PICK b \in ImplBaseType, u \in Urls, outcome \in {"opened", "threw"} :
            /\ Opens(b, u, outcome)
            /\ outcome = "opened" \/ platform = "apple" =>
                 u.of = gen + 1 \/ (platform = "apple" /\ u = NoUrl)
      BY <1>3 DEF Opening
    <2>2. QED
      BY <2>1 DEF Opens, Sources
  <1>4. CASE SendResolved
    BY <1>4, <1>b DEF SendResolved
  <1>5. CASE Sending
    <2>1. PICK t \in Transfers :
            /\ Sends(t) /\ t.pc \in {"pending", "queued"}
            /\ \/ t.url = url
               \/ platform = "android" /\ t.stage = "head" /\ t.url = NoUrl
            /\ platform = "apple" => url # NoUrl
            /\ platform = "android" => t.pc = "queued"
      BY <1>5 DEF Sending
    <2>2. /\ phase = "opened" \/ (phase = "threw" /\ platform = "apple")
          /\ ~base.usingSchemeResolver
      BY <1>5, CarefulClient, PatientClient DEF Sending
    <2>3. url.of = gen
      BY <2>1, <2>2 DEF Sources
    <2>4. transfer'[gen] = t /\ UNCHANGED << platform, url, gen >> /\ phase' = "sent"
      BY <1>0, <2>1, <2>2 DEF Sends
    <2>5. t.url.of = gen \/ (platform = "android" /\ t.stage = "head" /\ t.pc = "queued")
      BY <2>1, <2>3
    <2>6. QED
      BY <2>3, <2>4, <2>5 DEF Sources
  <1>6. CASE AtOnce
    BY <1>6, <1>b DEF AtOnce, SettlesAtOnce
  <1>7. CASE \E type \in Sinks : SetResponseType(type)
    BY <1>7, <1>a DEF SetResponseType, response, sendState
  <1>8. CASE SetRequestHeader
    BY <1>8, <1>a DEF SetRequestHeader, response
  <1>9. CASE Abort
    <2>1. phase = "sent" => /\ transfer'[gen].pc = transfer[gen].pc
                            /\ transfer'[gen].stage = transfer[gen].stage
                            /\ transfer'[gen].url = transfer[gen].url
      BY <1>0, <1>9 DEF Abort, Transfers
    <2>2. QED
      BY <1>9, <2>1, <1>a DEF Abort, response
  <1>10. CASE AppleListen
    <2>1. phase = "sent" => /\ transfer'[gen].pc = transfer[gen].pc
                            /\ transfer'[gen].stage = transfer[gen].stage
                            /\ transfer'[gen].url = transfer[gen].url
      BY <1>0, <1>10 DEF AppleListen, Transfers
    <2>2. QED
      BY <1>10, <2>1, <1>a DEF AppleListen, response
  <1>11. CASE \E g \in Requests : Proceeds(g)
    <2>1. PICK g \in Requests : Proceeds(g)
      BY <1>11
    <2>2. g = gen /\ phase = "sent" /\ ~base.usingSchemeResolver
      BY <2>1 DEF Proceeds, Moves, Way, Running, Over, Flow
    <2>3. base'.usingSchemeResolver = base.usingSchemeResolver
      BY <2>1, ProceedsResolver
    <2>4. UNCHANGED << platform, url, gen, phase >>
      BY <2>1, ProceedsType
    <2>5. Way(gen, transfer'[gen])
      BY <2>1, <2>2 DEF Proceeds, Moves
    <2>6. platform # "apple" => url.of = gen
      BY <2>2 DEF Sources
    <2>7. \/ transfer'[gen].url.of = gen
          \/ /\ platform = "android" /\ transfer'[gen].stage = "head"
             /\ transfer'[gen].pc \notin {"pending", "error"}
      <3>1. CASE transfer[gen].url.of # gen
        <4>1. /\ platform = "android" /\ transfer[gen].stage = "head"
              /\ transfer[gen].pc \notin {"pending", "error"} /\ url.of = gen
          BY <2>2, <2>6, <3>1 DEF Sources
        <4>2. transfer'[gen].pc # "error" /\ (transfer'[gen].pc = "pending" => transfer'[gen].url = url)
          BY <2>5, <4>1 DEF Way
        <4>3. transfer'[gen].stage = "head"
          <5>1. transfer'[gen] \in Transfers /\ transfer'[gen].stage # "body"
            BY <2>5, <4>1 DEF Way
          <5>2. QED
            BY <5>1 DEF Transfers
        <4>4. QED
          BY <4>1, <4>2, <4>3
      <3>2. CASE transfer[gen].url.of = gen
        BY <2>5, <2>6, <3>2 DEF Way
      <3>3. QED
        BY <3>1, <3>2
    <2>8. QED
      BY <2>2, <2>3, <2>4, <2>7 DEF Sources
  <1>12. CASE \E g \in Requests : Complete(g)
    <2>1. PICK g \in Requests : Complete(g)
      BY <1>12
    <2>2. g = gen
      BY <2>1 DEF Complete, Flow, Over
    <2>3. QED
      BY <2>1, <2>2, <1>b DEF Complete
  <1>13. CASE UNCHANGED vars
    BY <1>13, <1>a DEF vars, response, sendState
  <1>14. QED
    BY NextCases, <1>2, <1>3, <1>4, <1>5, <1>6, <1>7, <1>8, <1>9, <1>10, <1>11, <1>12,
       <1>13

\* What goes on is the transfer of the current request, and it writes for it.
LEMMA ProceedsFor ==
    ASSUME TypeOK, Numbers, Flow, Sources, NEW g \in Requests, Proceeds(g)
    PROVE  /\ g = gen /\ phase = "sent"
           /\ ~base.usingSchemeResolver /\ ~base'.usingSchemeResolver
           /\ Errs(g) \/ Heads(g) \/ Breaks(g) => transfer[g].url.of = gen
           /\ Fills(g) => transfer'[g].url.of = gen
  <1>1. g = gen /\ phase = "sent" /\ ~base.usingSchemeResolver
    BY DEF Proceeds, Moves, Way, Running, Over, Flow
  <1>2. base'.usingSchemeResolver = base.usingSchemeResolver
    BY ProceedsResolver
  <1>3. Errs(g) \/ Heads(g) \/ Breaks(g) => transfer[g].url.of = gen
    BY <1>1 DEF Errs, Heads, Breaks, Sources
  <1>4. ASSUME Fills(g)
        PROVE  transfer'[g].url.of = gen
    <2>1. platform = "android" => url.of = gen
      BY <1>1 DEF Sources
    <2>2. Way(g, transfer'[g])
      BY DEF Proceeds, Moves
    <2>3. transfer[g].stage = "body" => transfer[g].url.of = gen
      BY <1>1 DEF Sources
    <2>4. CASE transfer[g].stage = "body"
      BY <2>2, <2>3, <2>4 DEF Way
    <2>5. CASE transfer[g].stage # "body"
      BY <1>4, <2>1, <2>5 DEF Fills
    <2>6. QED
      BY <2>4, <2>5
  <1>5. QED
    BY <1>1, <1>2, <1>3, <1>4

\* An error is written before a status would be, and after it nothing is; Open()
\* clears both.
LEMMA StatusStep ==
    ASSUME Patient, TypeOK, Numbers, Flow, Status, [Next]_vars
    PROVE  Status'
  <1>0. /\ gen \in Nat /\ transfer \in [Requests -> Transfers]
        /\ phase # "new" => gen \in Requests
        /\ base \in ImplBaseType
    BY GenIs DEF TypeOK
  <1>a. ASSUME UNCHANGED << platform, base, gen, phase, url >>,
               phase = "sent" => /\ transfer'[gen].pc = transfer[gen].pc
                                 /\ transfer'[gen].stage = transfer[gen].stage
        PROVE  Status'
    BY <1>a DEF Status
  <1>b. ASSUME UNCHANGED base, phase' = "settled"
        PROVE  Status'
    BY <1>b DEF Status
  <1>2. CASE OpenDiverted
    <2>1. phase' = "opened" /\ base' = BeginSchemeResolution(base, 1)
      BY <1>2 DEF OpenDiverted
    <2>2. base'.status = NoStatus /\ ~Failed(base')
      BY <1>0, <2>1, DivertedIsEmpty
    <2>3. QED
      BY <2>1, <2>2 DEF Status
  <1>3. CASE Opening
    <2>1. PICK b \in ImplBaseType, u \in Urls, outcome \in {"opened", "threw"} :
            /\ Opens(b, u, outcome)
            /\ \/ b = ResetForOpen(base)
               \/ /\ b = SetError(ResetForOpen(base), "AppResourceNotFound", gen + 1)
                  /\ platform = "apple" /\ u = NoUrl
      BY <1>3 DEF Opening
    <2>2. /\ b.status = NoStatus /\ ~b.usingSchemeResolver
          /\ Failed(b) => platform = "apple" /\ u = NoUrl
      BY <2>1, OpenedResponse
    <2>3. /\ base' = b /\ url' = u /\ platform' = platform
          /\ phase' \in {"opened", "threw"}
      BY <2>1 DEF Opens
    <2>4. QED
      BY <2>2, <2>3 DEF Status
  <1>4. CASE SendResolved
    <2>1. PICK result \in ResolverResults :
            base' = AcceptResult(TakeResolver(base, gen), result, responseType, gen)
      BY <1>4 DEF SendResolved
    <2>2. base.usingSchemeResolver /\ phase = "opened" /\ phase' = "settled"
      BY <1>4 DEF SendResolved
    <2>3. base.status = NoStatus /\ ~Failed(base)
      BY <2>2 DEF Status
    <2>4. Failed(base') => base'.status = NoStatus
      BY <1>0, <2>1, <2>3, ResolutionWrites
    <2>5. QED
      BY <2>2, <2>4 DEF Status
  <1>5. CASE Sending
    <2>1. PICK t \in Transfers : Sends(t) /\ (platform = "apple" => url # NoUrl)
      BY <1>5 DEF Sending
    <2>2. phase \in {"opened", "threw"}
      BY <1>5, PatientClient DEF Sending
    <2>3. base' = base /\ phase' = "sent"
      BY <2>1 DEF Sends, response
    <2>4. QED
      BY <2>1, <2>2, <2>3 DEF Status
  <1>6. CASE AtOnce
    <2>1. phase \in {"opened", "threw"} /\ phase' = "settled"
      BY <1>6, PatientClient DEF AtOnce, SettlesAtOnce
    <2>2. base'.status = base.status
      <3>1. "HRESULT" \in ErrorSymbols \ {""}
        BY DEF ErrorSymbols
      <3>2. CASE base' = base
        BY <3>2
      <3>3. CASE base' = SetError(base, "HRESULT", gen)
        BY <1>0, <3>1, <3>3, SetErrorWrites
      <3>4. QED
        BY <1>6, <3>2, <3>3 DEF AtOnce
    <2>3. QED
      BY <2>1, <2>2 DEF Status
  <1>7. CASE \E type \in Sinks : SetResponseType(type)
    BY <1>7, <1>a DEF SetResponseType, sendState, response
  <1>8. CASE SetRequestHeader
    BY <1>8, <1>a DEF SetRequestHeader, response
  <1>9. CASE Abort
    <2>1. phase = "sent" => /\ transfer'[gen].pc = transfer[gen].pc
                            /\ transfer'[gen].stage = transfer[gen].stage
      BY <1>0, <1>9 DEF Abort, Transfers
    <2>2. QED
      BY <1>9, <2>1, <1>a DEF Abort, response
  <1>10. CASE AppleListen
    <2>1. phase = "sent" => /\ transfer'[gen].pc = transfer[gen].pc
                            /\ transfer'[gen].stage = transfer[gen].stage
      BY <1>0, <1>10 DEF AppleListen, Transfers
    <2>2. QED
      BY <1>10, <2>1, <1>a DEF AppleListen, response
  <1>11. CASE \E g \in Requests : Proceeds(g)
    <2>1. PICK g \in Requests : Proceeds(g)
      BY <1>11
    <2>2. g = gen /\ phase = "sent"
      BY <2>1 DEF Proceeds, Moves, Way, Running, Over, Flow
    <2>3. UNCHANGED << gen, phase >>
      BY <2>1, ProceedsType
    <2>4. /\ ~Failed(base)
          /\ transfer[gen].stage = "head" \/ transfer[gen].pc = "error" =>
               base.status = NoStatus
      BY <2>1, <2>2 DEF Proceeds, Moves, Way, Status
    <2>5. transfer[gen].stage = "body" => transfer'[gen].stage = "body"
      BY <2>1, <2>2 DEF Proceeds, Moves, Way
    <2>6. transfer'[gen].stage = "head" \/ transfer'[gen].pc = "error" =>
            transfer[gen].stage = "head"
      <3>1. transfer'[gen].pc = "error" => transfer'[gen].stage = "head"
        BY <2>1, <2>2 DEF Proceeds, Moves, Way
      <3>2. transfer[gen].stage \in {"head", "body"}
        BY <2>2, TransferTypes DEF Transfers
      <3>3. QED
        BY <2>5, <3>1, <3>2
    <2>7. CASE Silent(g) \/ Breaks(g)
      <3>1. base' = base
        BY <2>7 DEF Silent, Breaks, response
      <3>2. QED
        BY <2>2, <2>3, <2>4, <2>6, <3>1 DEF Status
    <2>8. CASE Errs(g)
      <3>1. /\ base' = SetError(base, "NSURLError", transfer[g].url.of)
            /\ transfer'[gen].pc = "complete"
        BY <2>2, <2>8 DEF Errs
      <3>2. "NSURLError" \in ErrorSymbols \ {""} /\ transfer[g].url.of \in Nat
        BY TransferTypes DEF ErrorSymbols
      <3>3. base'.status = base.status
        BY <1>0, <3>1, <3>2, SetErrorWrites
      <3>4. base.status = NoStatus
        BY <2>2, <2>4, <2>8 DEF Errs
      <3>5. QED
        BY <2>3, <2>2, <3>1, <3>3, <3>4 DEF Status, Running
    <2>9. CASE Heads(g)
      <3>1. /\ ~Failed(base')
            /\ \/ transfer'[gen].stage = "body" /\ transfer'[gen].pc # "error"
               \/ transfer'[gen].pc = "complete"
        BY <2>2, <2>4, <2>9 DEF Heads, Failed
      <3>2. QED
        BY <2>2, <2>3, <3>1 DEF Status, Running
    <2>10. CASE Fills(g)
      <3>1. ~Failed(base') /\ transfer'[gen].pc = "complete"
        BY <2>2, <2>4, <2>10 DEF Fills, Failed
      <3>2. QED
        BY <2>2, <2>3, <3>1 DEF Status, Running
    <2>11. QED
      BY <2>1, <2>7, <2>8, <2>9, <2>10 DEF Proceeds
  <1>12. CASE \E g \in Requests : Complete(g)
    <2>1. PICK g \in Requests : Complete(g)
      BY <1>12
    <2>2. g = gen
      BY <2>1 DEF Complete, Flow, Over
    <2>3. QED
      BY <2>1, <2>2, <1>b DEF Complete, response
  <1>13. CASE UNCHANGED vars
    BY <1>13, <1>a DEF vars, response, sendState
  <1>14. QED
    BY NextCases, <1>2, <1>3, <1>4, <1>5, <1>6, <1>7, <1>8, <1>9, <1>10, <1>11, <1>12,
       <1>13

\* Whatever is written to the response is written for the current request.
LEMMA WrittenStep ==
    ASSUME TypeOK, Numbers, Flow, Sources, Written, [Next]_vars
    PROVE  Written'
  <1>0. /\ gen \in Nat /\ transfer \in [Requests -> Transfers]
        /\ phase # "new" => gen \in Requests
        /\ base \in ImplBaseType
    BY GenIs DEF TypeOK
  <1>a. ASSUME UNCHANGED << response, gen >>
        PROVE  Written'
    BY <1>a DEF Written, response
  <1>2. CASE OpenDiverted
    <2>1. gen' = gen + 1 /\ base' = BeginSchemeResolution(base, 1)
      BY <1>2 DEF OpenDiverted
    <2>2. (\A req : OnlyFrom(base', req)) /\ base'.usingSchemeResolver
      BY <1>0, <2>1, DivertedIsEmpty
    <2>3. QED
      BY <2>1, <2>2 DEF Written
  <1>3. CASE Opening
    <2>1. PICK b \in ImplBaseType, u \in Urls, outcome \in {"opened", "threw"} :
            /\ Opens(b, u, outcome)
            /\ \/ b = ResetForOpen(base)
               \/ b = SetError(ResetForOpen(base), "AppResourceNotFound", gen + 1)
      BY <1>3 DEF Opening
    <2>2. OnlyFrom(b, gen + 1)
      BY <2>1, OpenedResponse
    <2>3. base' = b /\ responseBuffer' = {} /\ gen' = gen + 1
      BY <2>1 DEF Opens, ClearedBuffer
    <2>4. QED
      BY <2>2, <2>3 DEF Written, PiecesOf
  <1>4. CASE SendResolved
    <2>1. PICK result \in ResolverResults :
            base' = AcceptResult(TakeResolver(base, gen), result, responseType, gen)
      BY <1>4 DEF SendResolved
    <2>2. base.usingSchemeResolver /\ gen' = gen
      BY <1>4 DEF SendResolved
    <2>3. OnlyFrom(base', gen) /\ base'.usingSchemeResolver
      BY <1>0, <2>1, <2>2, ResolutionWrites DEF Written
    <2>4. QED
      BY <2>2, <2>3 DEF Written
  <1>5. CASE Sending
    BY <1>5, <1>a DEF Sending, Sends
  <1>6. CASE AtOnce
    <2>1. UNCHANGED << responseBuffer, gen >>
      BY <1>6 DEF AtOnce, SettlesAtOnce
    <2>2. CASE base' = base
      BY <2>1, <2>2, <1>a DEF response
    <2>3. CASE base' = SetError(base, "HRESULT", gen)
      <3>1. "HRESULT" \in ErrorSymbols \ {""}
        BY DEF ErrorSymbols
      <3>2. /\ OnlyFrom(base, gen) => OnlyFrom(base', gen)
            /\ base'.usingSchemeResolver = base.usingSchemeResolver
        BY <1>0, <2>3, <3>1, SetErrorWrites
      <3>3. QED
        BY <2>1, <3>2 DEF Written
    <2>4. QED
      BY <1>6, <2>2, <2>3 DEF AtOnce
  <1>7. CASE \E type \in Sinks : SetResponseType(type)
    BY <1>7, <1>a DEF SetResponseType
  <1>8. CASE SetRequestHeader \/ Abort \/ AppleListen
    BY <1>8, <1>a DEF SetRequestHeader, Abort, AppleListen
  <1>9. CASE \E g \in Requests : Proceeds(g)
    <2>1. PICK g \in Requests : Proceeds(g)
      BY <1>9
    <2>2. /\ g = gen /\ gen' = gen
          /\ ~base.usingSchemeResolver /\ ~base'.usingSchemeResolver
      BY <2>1, ProceedsFor, ProceedsType
    <2>3. OnlyFrom(base, gen) /\ PiecesOf(responseBuffer, gen)
      BY <2>2 DEF Written
    <2>4. CASE Silent(g)
      BY <2>2, <2>4, <1>a DEF Silent
    <2>5. CASE Errs(g)
      <3>1. base' = SetError(base, "NSURLError", gen) /\ responseBuffer' = responseBuffer
        BY <2>1, <2>2, <2>5, ProceedsFor DEF Errs
      <3>2. "NSURLError" \in ErrorSymbols \ {""}
        BY DEF ErrorSymbols
      <3>3. OnlyFrom(base', gen)
        BY <1>0, <2>3, <3>1, <3>2, SetErrorWrites
      <3>4. QED
        BY <2>2, <2>3, <3>1, <3>3 DEF Written
    <2>6. CASE Heads(g)
      <3>1. OnlyFrom(base', gen) /\ responseBuffer' = responseBuffer
        BY <2>1, <2>2, <2>3, <2>6, ProceedsFor DEF Heads
      <3>2. QED
        BY <2>2, <2>3, <3>1 DEF Written
    <2>7. CASE Fills(g)
      <3>1. /\ OnlyFrom(base', gen)
            /\ responseBuffer' = responseBuffer \/ responseBuffer' = {<<gen, 1>>}
        BY <2>1, <2>2, <2>3, <2>7, ProceedsFor DEF Fills
      <3>2. PiecesOf(responseBuffer', gen)
        BY <2>3, <3>1 DEF PiecesOf
      <3>3. QED
        BY <2>2, <3>1, <3>2 DEF Written
    <2>8. CASE Breaks(g)
      <3>1. /\ base' = base
            /\ responseBuffer' = responseBuffer \/ responseBuffer' = {<<gen, 0>>}
        BY <2>1, <2>2, <2>8, ProceedsFor DEF Breaks
      <3>2. PiecesOf(responseBuffer', gen)
        BY <2>3, <3>1 DEF PiecesOf
      <3>3. QED
        BY <2>2, <2>3, <3>1, <3>2 DEF Written
    <2>9. QED
      BY <2>1, <2>4, <2>5, <2>6, <2>7, <2>8 DEF Proceeds
  <1>10. CASE \E g \in Requests : Complete(g)
    BY <1>10, <1>a DEF Complete
  <1>11. CASE UNCHANGED vars
    BY <1>11, <1>a DEF vars, response
  <1>12. QED
    BY NextCases, <1>2, <1>3, <1>4, <1>5, <1>6, <1>7, <1>8, <1>9, <1>10, <1>11

\* A body is filled once, when nothing can go wrong any more.
LEMMA BodiesStep ==
    ASSUME Patient, TypeOK, Numbers, Flow, Sources, Status, Bodies, [Next]_vars
    PROVE  Bodies'
  <1>0. /\ gen \in Nat /\ transfer \in [Requests -> Transfers]
        /\ phase # "new" => gen \in Requests
        /\ base \in ImplBaseType
        /\ NoStatus.code = 0
    BY GenIs DEF TypeOK, NoStatus
  <1>a. ASSUME UNCHANGED << response, gen, phase, platform >>,
               phase # "new" => /\ transfer'[gen].pc = transfer[gen].pc
                                /\ transfer'[gen].lost = transfer[gen].lost
                                /\ transfer'[gen].faulted = transfer[gen].faulted
        PROVE  Bodies'
    BY <1>a DEF Bodies, Empty, Filled, OkHasItsBody, response
  <1>2. CASE OpenDiverted
    <2>1. base'.usingSchemeResolver /\ phase' = "opened"
      BY <1>0, <1>2, DivertedIsEmpty DEF OpenDiverted
    <2>2. QED
      BY <2>1 DEF Bodies, OkHasItsBody
  <1>3. CASE Opening
    <2>1. PICK b \in ImplBaseType, u \in Urls, outcome \in {"opened", "threw"} :
            /\ Opens(b, u, outcome)
            /\ \/ b = ResetForOpen(base)
               \/ b = SetError(ResetForOpen(base), "AppResourceNotFound", gen + 1)
      BY <1>3 DEF Opening
    <2>2. b.responseString = {}
      BY <2>1, OpenedResponse
    <2>3. base' = b /\ responseBuffer' = {} /\ phase' \in {"opened", "threw"}
      BY <2>1 DEF Opens, ClearedBuffer
    <2>4. QED
      BY <2>2, <2>3 DEF Bodies, Empty, OkHasItsBody
  <1>4. CASE SendResolved
    <2>1. PICK result \in ResolverResults :
            base' = AcceptResult(TakeResolver(base, gen), result, responseType, gen)
      BY <1>4 DEF SendResolved
    <2>2. base.usingSchemeResolver /\ phase' = "settled"
      BY <1>4 DEF SendResolved
    <2>3. base'.usingSchemeResolver = base.usingSchemeResolver
      BY <1>0, <2>1, ResolutionWrites
    <2>4. QED
      BY <2>2, <2>3 DEF Bodies, OkHasItsBody
  <1>5. CASE Sending
    <2>1. PICK t \in Transfers : Sends(t) /\ t.pc \in {"pending", "queued"}
      BY <1>5 DEF Sending
    <2>2. phase \in {"opened", "threw"} /\ ~base.usingSchemeResolver
      BY <1>5, PatientClient DEF Sending
    <2>3. /\ UNCHANGED << base, responseBuffer, gen >>
          /\ phase' = "sent" /\ transfer'[gen] = t
      BY <1>0, <2>1, <2>2 DEF Sends, response
    <2>4. QED
      BY <2>1, <2>2, <2>3 DEF Bodies, Empty, OkHasItsBody
  <1>6. CASE AtOnce
    <2>1. phase \in {"opened", "threw"} /\ phase' = "settled"
      BY <1>6, PatientClient DEF AtOnce, SettlesAtOnce
    <2>2. base'.status = base.status
      <3>1. "HRESULT" \in ErrorSymbols \ {""}
        BY DEF ErrorSymbols
      <3>2. CASE base' = base
        BY <3>2
      <3>3. CASE base' = SetError(base, "HRESULT", gen)
        BY <1>0, <3>1, <3>3, SetErrorWrites
      <3>4. QED
        BY <1>6, <3>2, <3>3 DEF AtOnce
    <2>3. base'.status.code = 0
      BY <1>0, <2>1, <2>2 DEF Status
    <2>4. QED
      BY <2>1, <2>3 DEF Bodies, OkHasItsBody
  <1>7. CASE \E type \in Sinks : SetResponseType(type)
    BY <1>7, <1>a DEF SetResponseType, sendState
  <1>8. CASE SetRequestHeader
    BY <1>8, <1>a DEF SetRequestHeader
  <1>9. CASE Abort
    <2>1. phase # "new" => /\ transfer'[gen].pc = transfer[gen].pc
                           /\ transfer'[gen].lost = transfer[gen].lost
                           /\ transfer'[gen].faulted = transfer[gen].faulted
      BY <1>0, <1>9 DEF Abort, Transfers
    <2>2. QED
      BY <1>9, <2>1, <1>a DEF Abort
  <1>10. CASE AppleListen
    <2>1. phase # "new" => /\ transfer'[gen].pc = transfer[gen].pc
                           /\ transfer'[gen].lost = transfer[gen].lost
                           /\ transfer'[gen].faulted = transfer[gen].faulted
      BY <1>0, <1>10 DEF AppleListen, Transfers
    <2>2. QED
      BY <1>10, <2>1, <1>a DEF AppleListen
  <1>11. CASE \E g \in Requests : Proceeds(g)
    <2>1. PICK g \in Requests : Proceeds(g)
      BY <1>11
    <2>2. /\ g = gen /\ phase = "sent" /\ gen' = gen /\ phase' = "sent"
          /\ transfer[gen].pc \in Running /\ platform' = platform
      BY <2>1, ProceedsFor, ProceedsType DEF Proceeds, Moves, Way
    <2>3. Empty
      BY <2>2 DEF Bodies
    <2>4. SUFFICES /\ transfer'[gen].pc \in Running => Empty'
                   /\ transfer'[gen].pc = "complete"
                        /\ (platform' = "android" => ~transfer'[gen].lost)
                        => base'.status.code # 200 \/ Filled'
      BY <2>2 DEF Bodies, OkHasItsBody
    <2>5. CASE Silent(g)
      BY <2>2, <2>3, <2>5 DEF Silent, Empty, response, Running
    <2>6. CASE Errs(g)
      <3>1. /\ base' = SetError(base, "NSURLError", gen) /\ transfer'[gen].pc = "complete"
            /\ transfer[gen].pc = "error"
        BY <2>1, <2>2, <2>6, ProceedsFor DEF Errs
      <3>2. "NSURLError" \in ErrorSymbols \ {""}
        BY DEF ErrorSymbols
      <3>3. base'.status = base.status
        BY <1>0, <3>1, <3>2, SetErrorWrites
      <3>4. base.status = NoStatus
        BY <2>2, <3>1 DEF Status
      <3>5. QED
        BY <1>0, <3>1, <3>3, <3>4 DEF Running
    <2>7. CASE Heads(g)
      <3>1. /\ base'.responseString = {} /\ responseBuffer' = {}
            /\ transfer'[gen].pc = "complete" => base'.status.code = 404
        BY <2>2, <2>3, <2>7 DEF Heads, Empty
      <3>2. QED
        BY <3>1 DEF Empty
    <2>8. CASE Fills(g)
      <3>1. /\ transfer'[gen].pc = "complete"
            /\ \/ base'.responseString = {<<gen, 1>>} /\ responseBuffer' = {}
               \/ base'.responseString = {} /\ responseBuffer' = {<<gen, 1>>}
        BY <2>1, <2>2, <2>3, <2>8, ProceedsFor DEF Fills, Empty
      <3>2. QED
        BY <2>2, <3>1 DEF Filled, Running
    <2>9. CASE Breaks(g)
      BY <2>2, <2>9 DEF Breaks, Running
    <2>10. QED
      BY <2>1, <2>5, <2>6, <2>7, <2>8, <2>9 DEF Proceeds
  <1>12. CASE \E g \in Requests : Complete(g)
    <2>1. PICK g \in Requests : Complete(g)
      BY <1>12
    <2>2. g = gen /\ phase = "sent"
      BY <2>1 DEF Complete, Flow, Over
    <2>3. /\ UNCHANGED << base, responseBuffer, gen, platform >> /\ phase' = "settled"
          /\ transfer' = [transfer EXCEPT ![gen].pc = "done",
                                          ![gen].faulted = transfer[gen].pc = "fault"]
          /\ transfer[gen].pc \in {"complete", "fault"}
      BY <2>1, <2>2 DEF Complete, response
    <2>4. transfer'[gen].lost = transfer[gen].lost
      BY <1>0, <2>2, <2>3 DEF Transfers
    <2>5. ~transfer'[gen].faulted => transfer[gen].pc = "complete"
      BY <1>0, <2>2, <2>3 DEF Transfers
    <2>6. OkHasItsBody'
      BY <2>2, <2>3, <2>4, <2>5 DEF Bodies, OkHasItsBody, Filled
    <2>7. QED
      BY <2>3, <2>6 DEF Bodies
  <1>13. CASE UNCHANGED vars
    BY <1>13, <1>a DEF vars, response, sendState
  <1>14. QED
    BY NextCases, <1>2, <1>3, <1>4, <1>5, <1>6, <1>7, <1>8, <1>9, <1>10, <1>11, <1>12,
       <1>13

\* A header is sent after it was set and before the next one is, and what sends
\* it clears it.
LEMMA HeadersStep ==
    ASSUME TypeOK, Numbers, platform = "android" => Flow, Headers, [Next]_vars
    PROVE  Headers'
  <1>0. /\ gen \in Nat /\ transfer \in [Requests -> Transfers]
        /\ phase # "new" => gen \in Requests
        /\ requestHeader \in Nat /\ requestHeader' \in Nat /\ Requests \subseteq Nat
        /\ \A g \in Requests : transfer[g].header \in Nat
    BY GenIs, TypeStep DEF TypeOK, Transfers, Requests
  <1>a. ASSUME UNCHANGED platform, gen' \in {gen, gen + 1},
               requestHeader' \in {requestHeader, NoOne},
               \A g \in Requests : transfer'[g].header = transfer[g].header
        PROVE  Headers'
    <2>1. SUFFICES ASSUME platform # "apple" PROVE Headers'
      BY <1>a DEF Headers
    <2>2. /\ requestHeader <= gen
          /\ \A h \in Requests : /\ transfer[h].header <= h
                                 /\ requestHeader # NoOne => transfer[h].header # requestHeader
          /\ HeadersAreNotResent
      BY <1>a, <2>1 DEF Headers
    <2>3. requestHeader' <= gen'
      BY <1>0, <1>a, <2>2 DEF NoOne
    <2>4. \A h \in Requests :
            /\ transfer'[h].header <= h
            /\ requestHeader' # NoOne => transfer'[h].header # requestHeader'
      BY <1>a, <2>2
    <2>5. HeadersAreNotResent'
      BY <1>a, <2>1, <2>2 DEF HeadersAreNotResent
    <2>6. QED
      BY <2>3, <2>4, <2>5 DEF Headers
  <1>b. ASSUME UNCHANGED platform, gen' = gen, NEW g \in Requests, g = gen,
               \A h \in Requests : h # g => transfer'[h].header = transfer[h].header,
               transfer'[g].header = requestHeader, requestHeader' = NoOne
        PROVE  Headers'
    <2>1. SUFFICES ASSUME platform # "apple" PROVE Headers'
      BY <1>b DEF Headers
    <2>2. /\ requestHeader <= g
          /\ \A h \in Requests : /\ transfer[h].header <= h
                                 /\ requestHeader # NoOne => transfer[h].header # requestHeader
      BY <1>b, <2>1 DEF Headers
    <2>3. \A h \in Requests : transfer'[h].header <= h
      BY <1>b, <2>2
    <2>4. HeadersAreNotResent'
      BY <1>b, <2>1, <2>2 DEF Headers, HeadersAreNotResent
    <2>5. QED
      BY <1>0, <1>b, <2>3, <2>4 DEF Headers, NoOne
  <1>2. CASE OpenDiverted
    BY <1>2, <1>a DEF OpenDiverted, sendState
  <1>3. CASE Opening
    BY <1>3, <1>a DEF Opening, Opens
  <1>4. CASE SendResolved
    BY <1>4, <1>a DEF SendResolved, sendState
  <1>5. CASE Sending
    <2>1. PICK t \in Transfers :
            /\ Sends(t)
            /\ \/ t.header = NoOne /\ requestHeader' = requestHeader
               \/ t.header = requestHeader /\ requestHeader' = NoOne
               \/ platform = "apple"
      BY <1>5 DEF Sending
    <2>2. phase \in {"opened", "threw"}
      BY <1>5 DEF Sending, CanSend
    <2>3. /\ UNCHANGED << platform, gen >> /\ transfer'[gen] = t
          /\ transfer[gen].header = NoOne
          /\ \A h \in Requests : h # gen => transfer'[h] = transfer[h]
      BY <1>0, <2>1, <2>2 DEF Sends, Numbers, NoTransfer
    <2>4. CASE platform = "apple"
      BY <2>3, <2>4 DEF Headers
    <2>5. CASE t.header = NoOne /\ requestHeader' = requestHeader
      BY <2>3, <2>5, <1>a
    <2>6. CASE t.header = requestHeader /\ requestHeader' = NoOne
      BY <1>0, <2>2, <2>3, <2>6, <1>b
    <2>7. QED
      BY <2>1, <2>4, <2>5, <2>6
  <1>6. CASE AtOnce
    BY <1>6, <1>a DEF AtOnce, SettlesAtOnce
  <1>7. CASE \E type \in Sinks : SetResponseType(type)
    BY <1>7, <1>a DEF SetResponseType, sendState
  <1>8. CASE SetRequestHeader
    <2>1. /\ phase = "opened" /\ requestHeader' = gen
          /\ UNCHANGED << platform, gen, transfer >>
      BY <1>8 DEF SetRequestHeader
    <2>2. SUFFICES ASSUME platform # "apple" PROVE Headers'
      BY <2>1 DEF Headers
    <2>3. ASSUME NEW g \in Requests
          PROVE  transfer[g].header # gen
      <3>1. g >= gen => transfer[g].header = NoOne
        BY <1>0, <2>1 DEF Numbers, NoTransfer
      <3>2. gen # NoOne
        BY <2>1 DEF Numbers, NoOne
      <3>3. transfer[g].header <= g
        BY <2>2 DEF Headers
      <3>4. QED
        BY <1>0, <3>1, <3>2, <3>3
    <2>4. QED
      BY <1>0, <2>1, <2>2, <2>3 DEF Headers, HeadersAreNotResent
  <1>9. CASE Abort
    <2>1. \A g \in Requests : transfer'[g].header = transfer[g].header
      BY <1>0, <1>9 DEF Abort, Transfers
    <2>2. QED
      BY <1>9, <2>1, <1>a DEF Abort
  <1>10. CASE AppleListen
    <2>1. \A g \in Requests : transfer'[g].header = transfer[g].header
      BY <1>0, <1>10 DEF AppleListen, Transfers
    <2>2. QED
      BY <1>10, <2>1, <1>a DEF AppleListen
  <1>11. CASE \E g \in Requests : Proceeds(g)
    <2>1. PICK g \in Requests : Proceeds(g)
      BY <1>11
    <2>2. /\ UNCHANGED << platform, gen >>
          /\ \A h \in Requests : h # g => transfer'[h] = transfer[h]
      BY <1>0, <2>1, ProceedsType
    <2>3. platform = "android" => g = gen
      BY <2>1 DEF Proceeds, Moves, Way, Running, Over, Flow
    <2>4. \/ transfer'[g].header = transfer[g].header /\ requestHeader' = requestHeader
          \/ /\ platform = "android"
             /\ transfer'[g].header = requestHeader /\ requestHeader' = NoOne
      BY <2>1 DEF Proceeds, Moves
    <2>5. CASE transfer'[g].header = transfer[g].header /\ requestHeader' = requestHeader
      BY <2>2, <2>5, <1>a
    <2>6. CASE /\ platform = "android"
               /\ transfer'[g].header = requestHeader /\ requestHeader' = NoOne
      BY <2>2, <2>3, <2>6, <1>b
    <2>7. QED
      BY <2>4, <2>5, <2>6
  <1>12. CASE \E g \in Requests : Complete(g)
    <2>1. PICK g \in Requests : Complete(g)
      BY <1>12
    <2>2. \A h \in Requests : transfer'[h].header = transfer[h].header
      BY <1>0, <2>1 DEF Complete, Transfers
    <2>3. QED
      BY <2>1, <2>2, <1>a DEF Complete, sendState
  <1>13. CASE UNCHANGED vars
    BY <1>13, <1>a DEF vars, sendState
  <1>14. QED
    BY NextCases, <1>2, <1>3, <1>4, <1>5, <1>6, <1>7, <1>8, <1>9, <1>10, <1>11, <1>12,
       <1>13

\* A send after an Abort() starts before its last look at the source.
LEMMA DoomedStep ==
    ASSUME Patient, TypeOK, Numbers, Flow, Doomed, [Next]_vars
    PROVE  Doomed'
  <1>0. /\ gen \in Nat /\ transfer \in [Requests -> Transfers]
        /\ phase # "new" => gen \in Requests
        /\ platform \in {"apple", "win32", "uwp", "android"}
    BY GenIs, DetachedAssumption DEF TypeOK, DetachedAssumption
  <1>a. ASSUME UNCHANGED << gen, phase >>,
               phase = "sent" => (transfer'[gen].doomed <=> transfer[gen].doomed)
        PROVE  Doomed'
    <2>1. CASE phase = "sent" /\ transfer[gen].doomed
      <3>1. gen \in Requests /\ KeptOut(gen)
        BY <1>0, <2>1 DEF Doomed
      <3>2. KeptOut(gen)'
        <4>1. \A g \in Requests : KeptOut(g) => KeptOut(g)'
          BY KeptOutStep
        <4>2. QED
          BY <1>a, <3>1, <4>1 DEF KeptOut, BeforeItsLastTest
      <3>3. QED
        BY <3>2 DEF Doomed
    <2>2. CASE ~(phase = "sent" /\ transfer[gen].doomed)
      BY <1>a, <2>2 DEF Doomed
    <2>3. QED
      BY <2>1, <2>2
  <1>b. ASSUME phase' # "sent"
        PROVE  Doomed'
    BY <1>b DEF Doomed
  <1>2. CASE OpenDiverted
    BY <1>2, <1>b DEF OpenDiverted
  <1>3. CASE Opening
    BY <1>3, <1>b DEF Opening, Opens
  <1>4. CASE SendResolved
    BY <1>4, <1>b DEF SendResolved
  <1>5. CASE Sending
    <2>1. PICK t \in Transfers :
            /\ Sends(t) /\ t.pc \in {"pending", "queued"}
            /\ t.doomed <=> platform # "apple" /\ cancelled
            /\ platform = "android" => t.pc = "queued"
      BY <1>5 DEF Sending
    <2>2. phase \in {"opened", "threw"}
      BY <1>5, PatientClient DEF Sending
    <2>3. UNCHANGED << platform, cancelled, gen >> /\ transfer'[gen] = t
      BY <1>0, <2>1, <2>2 DEF Sends
    <2>4. QED
      BY <1>0, <2>1, <2>3 DEF Doomed, KeptOut, BeforeItsLastTest, Windows
  <1>6. CASE AtOnce
    BY <1>6, <1>b DEF AtOnce, SettlesAtOnce
  <1>7. CASE \E type \in Sinks : SetResponseType(type)
    BY <1>7, <1>a DEF SetResponseType
  <1>8. CASE SetRequestHeader
    BY <1>8, <1>a DEF SetRequestHeader
  <1>9. CASE Abort
    <2>1. phase = "sent" => transfer'[gen].doomed = transfer[gen].doomed
      BY <1>0, <1>9 DEF Abort, Transfers
    <2>2. QED
      BY <1>9, <2>1, <1>a DEF Abort
  <1>10. CASE AppleListen
    <2>1. phase = "sent" => transfer'[gen].doomed = transfer[gen].doomed
      BY <1>0, <1>10 DEF AppleListen, Transfers
    <2>2. QED
      BY <1>10, <2>1, <1>a DEF AppleListen
  <1>11. CASE \E g \in Requests : Proceeds(g)
    <2>1. PICK g \in Requests : Proceeds(g)
      BY <1>11
    <2>2. g = gen
      BY <2>1 DEF Proceeds, Moves, Way, Running, Over, Flow
    <2>3. transfer'[gen].doomed = transfer[gen].doomed
      BY <2>1, <2>2 DEF Proceeds, Moves, Way
    <2>4. QED
      BY <2>1, <2>3, <1>a, ProceedsType
  <1>12. CASE \E g \in Requests : Complete(g)
    <2>1. PICK g \in Requests : Complete(g)
      BY <1>12
    <2>2. g = gen
      BY <2>1 DEF Complete, Flow, Over
    <2>3. QED
      BY <2>1, <2>2, <1>b DEF Complete
  <1>13. CASE UNCHANGED vars
    BY <1>13, <1>a DEF vars
  <1>14. QED
    BY NextCases, <1>2, <1>3, <1>4, <1>5, <1>6, <1>7, <1>8, <1>9, <1>10, <1>11, <1>12,
       <1>13

Ordered == Loose /\ Flow /\ Status /\ Doomed
Inv == Ordered /\ Sources /\ Written /\ Bodies

LEMMA InvInit == Init => Inv /\ Headers
  <1> SUFFICES ASSUME Init PROVE Inv /\ Headers
    OBVIOUS
  <1>1. Loose
    BY LooseInit
  <1>2. /\ base = FreshResponse /\ responseBuffer = {} /\ requestHeader = 0
        /\ gen = 0 /\ phase = "new" /\ transfer = [g \in Requests |-> NoTransfer]
        /\ Requests \subseteq Nat
    BY DEF Init, NoOne, Requests
  <1>3. NoTransfer.pc = "none" /\ NoTransfer.header = 0
    BY DEF NoTransfer, NoOne
  <1>4. Flow /\ Sources
    BY <1>2, <1>3 DEF Flow, Sources, Over
  <1>5. Status /\ Written
    BY <1>2, FreshResponseIsEmpty DEF Status, Written, PiecesOf
  <1>6. Bodies
    BY <1>2 DEF Bodies, OkHasItsBody
  <1>7. Headers
    BY <1>2, <1>3 DEF Headers, HeadersAreNotResent, NoOne
  <1>8. Doomed
    BY <1>2 DEF Doomed
  <1>9. QED
    BY <1>1, <1>4, <1>5, <1>6, <1>7, <1>8 DEF Ordered, Inv

LEMMA OrderedStep == ASSUME Patient PROVE Ordered /\ [Next]_vars => Ordered'
  <1> SUFFICES ASSUME Ordered, [Next]_vars PROVE Ordered'
    OBVIOUS
  <1>1. Loose'
    BY LooseStep DEF Ordered
  <1>2. Flow' /\ Status' /\ Doomed'
    BY FlowStep, StatusStep, DoomedStep DEF Ordered, Loose
  <1>3. QED
    BY <1>1, <1>2 DEF Ordered

LEMMA InvStep == ASSUME Careful PROVE Inv /\ [Next]_vars => Inv'
  <1> SUFFICES ASSUME Inv, [Next]_vars PROVE Inv'
    OBVIOUS
  <1>1. Patient
    BY DEF Careful
  <1>2. Ordered'
    BY <1>1, OrderedStep DEF Inv
  <1>3. Sources' /\ Written' /\ Bodies'
    BY <1>1, SourcesStep, WrittenStep, BodiesStep DEF Inv, Ordered, Loose
  <1>4. QED
    BY <1>2, <1>3 DEF Inv

LEMMA OrderedAlways == ASSUME Patient PROVE Spec => []Ordered
  <1>1. Ordered /\ [Next]_vars => Ordered'
    BY OrderedStep
  <1>2. Init => Ordered
    BY InvInit DEF Inv
  <1>3. QED
    BY <1>1, <1>2, PTL DEF Spec

LEMMA Invariance == ASSUME Careful PROVE Spec => []Inv
  <1>1. Inv /\ [Next]_vars => Inv'
    BY InvStep
  <1>2. Init => Inv
    BY InvInit
  <1>3. QED
    BY <1>1, <1>2, PTL DEF Spec

-----------------------------------------------------------------------------
(* What the invariant says of a response.                                  *)

\* The body an accessor returns was written for the current request.
LEMMA InvGivesNoLeak == ASSUME Inv PROVE NoLeakAcrossOpen
  <1>1. OnlyFrom(base, gen)
    BY DEF Inv, Written
  <1>2. CASE base.usingSchemeResolver
    BY <1>1, <1>2 DEF NoLeakAcrossOpen, OnlyFrom, VisibleBuffer, PiecesOf
  <1>3. CASE ~base.usingSchemeResolver
    BY <1>1, <1>3 DEF NoLeakAcrossOpen, Inv, Written, VisibleBuffer
  <1>4. QED
    BY <1>2, <1>3

\* A request object that is used again shows nothing of its earlier requests, if
\* the client is careful: a task that goes on writes to the next request's response.
THEOREM NoLeak == ASSUME Careful PROVE Spec => []NoLeakAcrossOpen
  <1>1. Inv => NoLeakAcrossOpen
    BY InvGivesNoLeak
  <1>2. QED
    BY <1>1, Invariance, PTL

\* A response with an error has no status, on every platform: the handlers that
\* set one are those that do not go on to the status line, and Open() clears both.
THEOREM ErrorsHaveNoStatus == ASSUME Patient PROVE Spec => []ErrorMeansZeroStatus
  <1>1. Ordered => ErrorMeansZeroStatus
    BY DEF Ordered, Status, ErrorMeansZeroStatus
  <1>2. QED
    BY <1>1, OrderedAlways, PTL

\* A transfer that ends in Ok has put its body where it can be read, wherever
\* the platform looks at the response type.
THEOREM BodiesAreThere == ASSUME Careful PROVE Spec => []OkHasItsBody
  <1>1. Inv => OkHasItsBody
    BY DEF Inv, Bodies
  <1>2. QED
    BY <1>1, Invariance, PTL

\* On Windows and Android a header is sent with one request at most, whatever the
\* client does on Windows, where a send takes the headers before it returns.
THEOREM HeadersOnce ==
    ASSUME "OpenInFlight" \in ClientMay => "android" \notin Platforms
    PROVE  Spec => []HeadersAreNotResent
  <1> DEFINE I == Loose /\ (Patient => Ordered) /\ Headers
  <1>1. Init => I
    BY InvInit DEF Inv, Ordered
  <1>2. I /\ [Next]_vars => I'
    <2> SUFFICES ASSUME I, [Next]_vars PROVE I'
      OBVIOUS
    <2>1. Loose' /\ (Patient => Ordered')
      BY LooseStep, OrderedStep
    <2>2. platform = "android" => Flow
      BY DEF Patient, Ordered, Loose, TypeOK
    <2>3. Headers'
      BY <2>2, HeadersStep DEF Loose
    <2>4. QED
      BY <2>1, <2>3 DEF Patient
  <1>3. I => HeadersAreNotResent
    BY DEF Headers, HeadersAreNotResent
  <1>4. QED
    BY <1>1, <1>2, <1>3, PTL DEF Spec

\* When a request is settled only a client's calls can still happen, and those
\* that leave it settled leave its response alone.
LEMMA SettledStep ==
    ASSUME Ordered, [Next]_vars,
           phase = "settled", phase' = "settled", gen' = gen
    PROVE  /\ UNCHANGED << base, responseBuffer >>
           /\ \A g \in Requests : transfer'[g].faulted = transfer[g].faulted
  <1>1. TypeOK /\ Flow /\ gen \in Nat /\ transfer \in [Requests -> Transfers]
    BY GenIs DEF Ordered, Loose
  <1>2. CASE OpenDiverted \/ Opening
    BY <1>1, <1>2 DEF OpenDiverted, Opening, Opens
  <1>3. CASE SendResolved \/ Sending \/ AtOnce
    BY <1>3 DEF SendResolved, Sending, AtOnce, CanSend
  <1>4. CASE (\E type \in Sinks : SetResponseType(type)) \/ SetRequestHeader
    BY <1>4 DEF SetResponseType, SetRequestHeader, response
  <1>5. CASE Abort
    BY <1>1, <1>5 DEF Abort, response, Transfers
  <1>6. CASE AppleListen
    BY <1>1, <1>6 DEF AppleListen, response, Transfers
  <1>7. CASE \E g \in Requests : Proceeds(g) \/ Complete(g)
    <2>1. PICK g \in Requests : Proceeds(g) \/ Complete(g)
      BY <1>7
    <2>2. transfer[g].pc \notin Over
      BY <2>1 DEF Proceeds, Moves, Way, Running, Over, Complete
    <2>3. QED
      BY <1>1, <2>2 DEF Flow
  <1>8. CASE UNCHANGED vars
    BY <1>8 DEF vars, response
  <1>9. QED
    BY <1>1, NextCases, <1>2, <1>3, <1>4, <1>5, <1>6, <1>7, <1>8

\* No handler or continuation comes after the completion of the task, even if what
\* was sent was left by an Open() that threw.
THEOREM SettledIsStable ==
    ASSUME Patient PROVE Spec => SettledResponseIsStable
  <1>1. Ordered /\ [Next]_vars =>
          [ phase = "settled" /\ phase' = "settled" /\ gen' = gen =>
              UNCHANGED response ]_vars
    BY SettledStep DEF response
  <1>2. QED
    BY <1>1, OrderedAlways, PTL DEF Spec, SettledResponseIsStable

-----------------------------------------------------------------------------
(* The backends implement RequestContract.                                 *)

\* What a settled request shows is an answer the contract allows.
LEMMA AnswerIsAllowed ==
    ASSUME Inv PROVE Answer \in Contract!Answers(gen)
  <1>1. Writers \subseteq {gen}
    <2>1. {base.status.of, base.statusText, base.responseUrl, base.header,
           base.error.of, base.resolvedBuffer} \subseteq {NoOne, gen}
      BY DEF Inv, Written, OnlyFrom
    <2>2. \A piece \in base.responseString \cup VisibleBuffer : piece[1] = gen
      BY InvGivesNoLeak DEF NoLeakAcrossOpen, OnlyFrom, PiecesOf
    <2>3. QED
      BY <2>1, <2>2 DEF Writers
  <1>2. base.status.code \in {0, 200, 404}
    BY DEF Inv, Ordered, Loose, TypeOK, ImplBaseType, StatusCodes
  <1>3. Failed(base) \in BOOLEAN
    BY DEF Failed
  <1>4. Failed(base) => base.status.code = 0
    BY DEF Inv, Ordered, Status, NoStatus
  <1>5. CASE EndedInException
    BY <1>5 DEF Contract!Answers, Answer
  <1>6. CASE ~EndedInException
    BY <1>1, <1>2, <1>3, <1>4, <1>6 DEF Contract!Answers, Answer
  <1>7. QED
    BY <1>5, <1>6

LEMMA AnswerIsAllowedNext == Inv' => (Answer \in Contract!Answers(gen))'
  <1>1. Inv => Answer \in Contract!Answers(gen)
    BY AnswerIsAllowed
  <1>2. QED
    BY <1>1, PTL

\* The initial states are initial in the contract.
LEMMA ContractInit == Init => Contract!Init
  BY DEF Init, Contract!Init, ContractPhase, ContractAnswer, Contract!NoAnswer

\* A step that touches nothing the contract speaks of is a stutter of it.
LEMMA ContractStutter ==
    ASSUME UNCHANGED << gen, phase, platform >>,
           platform = "apple" \/ cancelled' = cancelled,
           phase = "sent" => (transfer'[gen].doomed <=> transfer[gen].doomed),
           phase = "settled" => /\ UNCHANGED << base, responseBuffer >>
                                /\ transfer'[gen].faulted <=> transfer[gen].faulted
    PROVE  UNCHANGED Contract!contractVars
  <1>1. ContractPhase' = ContractPhase
    BY DEF ContractPhase
  <1>2. ContractAnswer' = ContractAnswer
    BY DEF ContractAnswer, Answer, EndedInException, Writers, VisibleBuffer, Failed
  <1>3. (platform # "apple" /\ cancelled)' = (platform # "apple" /\ cancelled)
    OBVIOUS
  <1>4. QED
    BY <1>1, <1>2, <1>3 DEF Contract!contractVars

\* Every Open() that returns or throws begins a request.
LEMMA ContractOpens ==
    ASSUME TypeOK, phase # "sent", phase' \in {"opened", "threw"}, gen' = gen + 1,
           UNCHANGED << platform, cancelled >>
    PROVE  Contract!Open
  <1>1. ContractPhase \notin Contract!InFlight /\ ContractPhase' = "opened"
    BY DEF ContractPhase, Contract!InFlight, TypeOK, Phases
  <1>2. ContractAnswer' = Contract!NoAnswer
    BY DEF ContractAnswer, Contract!NoAnswer
  <1>3. QED
    BY <1>1, <1>2 DEF Contract!Open

\* Every SendAsync() that settles answers the request.
LEMMA ContractResolves ==
    ASSUME Inv', phase \in {"opened", "threw"}, phase' = "settled",
           UNCHANGED << platform, gen, cancelled >>
    PROVE  Contract!Resolve
  <1>1. ContractPhase = "opened" /\ ContractPhase' = "settled"
    BY DEF ContractPhase
  <1>2. ContractAnswer' \in Contract!Answers(gen)
    BY AnswerIsAllowedNext DEF ContractAnswer
  <1>3. QED
    BY <1>1, <1>2 DEF Contract!Resolve

LEMMA ContractStep ==
    ASSUME Careful, Inv, Inv', [Next]_vars
    PROVE  [Contract!Next]_Contract!contractVars
  <1>p. Patient
    BY DEF Careful
  <1>0. /\ TypeOK /\ Numbers /\ Flow /\ Doomed /\ gen \in Nat
        /\ transfer \in [Requests -> Transfers]
        /\ phase # "new" => gen \in Requests
    BY GenIs DEF Inv, Ordered, Loose
  <1>2. CASE OpenDiverted
    <2>1. /\ phase # "sent" /\ phase' = "opened" /\ gen' = gen + 1
          /\ UNCHANGED << platform, cancelled >>
      BY <1>2, <1>p, PatientClient DEF OpenDiverted, sendState
    <2>2. QED
      BY <1>0, <2>1, ContractOpens DEF Contract!Next
  <1>3. CASE Opening
    <2>1. /\ phase # "sent" /\ phase' \in {"opened", "threw"} /\ gen' = gen + 1
          /\ UNCHANGED << platform, cancelled >>
      BY <1>3, <1>p, PatientClient DEF Opening, Opens
    <2>2. QED
      BY <1>0, <2>1, ContractOpens DEF Contract!Next
  <1>4. CASE SendResolved
    <2>1. /\ phase = "opened" /\ phase' = "settled"
          /\ UNCHANGED << platform, gen, cancelled >>
      BY <1>4 DEF SendResolved, sendState
    <2>2. QED
      BY <2>1, ContractResolves DEF Contract!Next
  <1>5. CASE Sending
    <2>1. PICK t \in Transfers :
            Sends(t) /\ (t.doomed <=> platform # "apple" /\ cancelled)
      BY <1>5 DEF Sending
    <2>2. phase \in {"opened", "threw"}
      BY <1>5, <1>p, PatientClient DEF Sending
    <2>3. phase' = "sent" /\ UNCHANGED << platform, cancelled, gen >> /\ transfer'[gen] = t
      BY <1>0, <2>1, <2>2 DEF Sends
    <2>4. ContractPhase' = IF platform # "apple" /\ cancelled THEN "doomed" ELSE "sent"
      BY <2>1, <2>3 DEF ContractPhase
    <2>5. ContractPhase = "opened" /\ ContractAnswer' = ContractAnswer
      BY <2>2, <2>3 DEF ContractPhase, ContractAnswer
    <2>6. Contract!Send
      BY <2>3, <2>4, <2>5 DEF Contract!Send
    <2>7. QED
      BY <2>6 DEF Contract!Next
  <1>6. CASE AtOnce
    <2>1. /\ phase \in {"opened", "threw"} /\ phase' = "settled"
          /\ UNCHANGED << platform, gen, cancelled >>
      BY <1>6, <1>p, PatientClient DEF AtOnce, SettlesAtOnce
    <2>2. QED
      BY <2>1, ContractResolves DEF Contract!Next
  <1>7. CASE (\E type \in Sinks : SetResponseType(type)) \/ SetRequestHeader
    <2>1. UNCHANGED << gen, phase, platform, cancelled, transfer, base, responseBuffer >>
      BY <1>7 DEF SetResponseType, SetRequestHeader, response, sendState
    <2>2. QED
      BY <2>1, ContractStutter
  <1>9. CASE Abort
    <2>1. /\ cancelled' = TRUE
          /\ UNCHANGED << gen, phase, platform, base, responseBuffer >>
          /\ \A g \in Requests : /\ transfer'[g].doomed = transfer[g].doomed
                                 /\ transfer'[g].faulted = transfer[g].faulted
      BY <1>0, <1>9 DEF Abort, response, Transfers
    <2>2. phase \in {"sent", "settled"} =>
            /\ transfer'[gen].doomed = transfer[gen].doomed
            /\ transfer'[gen].faulted = transfer[gen].faulted
      BY <1>0, <2>1
    <2>3. CASE platform = "apple"
      BY <2>1, <2>2, <2>3, ContractStutter
    <2>4. CASE platform # "apple"
      <3>1. ContractPhase' = ContractPhase
        BY <2>1, <2>2 DEF ContractPhase
      <3>2. ContractAnswer' = ContractAnswer
        BY <2>1, <2>2 DEF ContractAnswer, Answer, EndedInException, Writers,
                          VisibleBuffer, Failed
      <3>3. Contract!Abort
        BY <2>1, <2>4, <3>1, <3>2 DEF Contract!Abort
      <3>4. QED
        BY <3>3 DEF Contract!Next
    <2>5. QED
      BY <2>3, <2>4
  <1>10. CASE AppleListen
    <2>1. UNCHANGED << gen, phase, platform, cancelled, base, responseBuffer >>
      BY <1>10 DEF AppleListen, response
    <2>2. phase \in {"sent", "settled"} =>
            /\ transfer'[gen].doomed = transfer[gen].doomed
            /\ transfer'[gen].faulted = transfer[gen].faulted
      BY <1>0, <1>10 DEF AppleListen, Transfers
    <2>3. QED
      BY <2>1, <2>2, ContractStutter
  <1>11. CASE \E g \in Requests : Proceeds(g)
    <2>1. PICK g \in Requests : Proceeds(g)
      BY <1>11
    <2>2. g = gen /\ phase = "sent"
      BY <1>0, <2>1 DEF Proceeds, Moves, Way, Running, Over, Flow
    <2>3. transfer'[gen].doomed = transfer[gen].doomed
      BY <2>1, <2>2 DEF Proceeds, Moves, Way
    <2>4. UNCHANGED << gen, phase, platform, cancelled >>
      BY <2>1 DEF Proceeds, Moves
    <2>5. QED
      BY <2>2, <2>3, <2>4, ContractStutter
  <1>12. CASE \E g \in Requests : Complete(g)
    <2>1. PICK g \in Requests : Complete(g)
      BY <1>12
    <2>2. g = gen /\ phase = "sent" /\ gen \in Requests /\ ~base.usingSchemeResolver
      BY <1>0, <2>1 DEF Complete, Flow, Over
    <2>3. /\ phase' = "settled" /\ UNCHANGED << platform, gen, cancelled, base >>
          /\ transfer[gen].pc \in {"complete", "fault"}
          /\ transfer'[gen].faulted <=> transfer[gen].pc = "fault"
      BY <1>0, <2>1, <2>2 DEF Complete, response, sendState, Transfers
    <2>4. ContractAnswer' \in Contract!Answers(gen)
      BY <2>3, AnswerIsAllowedNext DEF ContractAnswer
    <2>5. ASSUME transfer[gen].doomed
          PROVE  ContractAnswer'.failed
      <3>1. transfer[gen].pc = "fault"
        BY <1>0, <2>2, <2>3, <2>5 DEF Doomed, KeptOut, BeforeItsLastTest
      <3>2. EndedInException'
        BY <2>2, <2>3, <3>1 DEF EndedInException, Requests
      <3>3. QED
        BY <2>3, <3>2 DEF ContractAnswer, Answer
    <2>6. ContractPhase = IF transfer[gen].doomed THEN "doomed" ELSE "sent"
      BY <2>2 DEF ContractPhase
    <2>7. ContractPhase' = "settled"
      BY <2>3 DEF ContractPhase
    <2>8. Contract!Settle
      BY <2>3, <2>4, <2>5, <2>6, <2>7 DEF Contract!Settle, Contract!InFlight
    <2>9. QED
      BY <2>8 DEF Contract!Next
  <1>13. CASE UNCHANGED vars
    <2>1. UNCHANGED << gen, phase, platform, cancelled, transfer, base, responseBuffer >>
      BY <1>13 DEF vars, response, sendState
    <2>2. QED
      BY <2>1, ContractStutter
  <1>14. QED
    BY <1>0, NextCases, <1>2, <1>3, <1>4, <1>5, <1>6, <1>7, <1>9, <1>10, <1>11, <1>12,
       <1>13

\* With a careful client each of these backends is a UrlRequest as the contract has
\* it: answered once, by what belongs to it, and for good.
THEOREM Implements == ASSUME Careful PROVE Spec => ImplementsContract
  <1>1. Inv /\ Inv' /\ [Next]_vars => [Contract!Next]_Contract!contractVars
    BY ContractStep
  <1>2. QED
    BY <1>1, ContractInit, Invariance, PTL
       DEF Spec, ImplementsContract, Contract!Spec
=============================================================================
