--------------------------- MODULE ImplBaseProofs ---------------------------
(***************************************************************************)
(* Facts about the operators of ImplBase, for the proofs of the modules    *)
(* built on it.                                                            *)
(***************************************************************************)
EXTENDS ImplBase, TLAPS

\* The fields of a record that is an ImplBase record, for the provers.
LEMMA Fields ==
    ASSUME NEW b \in ImplBaseType
    PROVE  /\ b.status.code \in StatusCodes /\ b.status.of \in Nat
           /\ b.statusText \in Nat /\ b.responseUrl \in Nat
           /\ b.responseString \subseteq Nat \X Nat /\ b.header \in Nat
           /\ b.error.symbol \in ErrorSymbols /\ b.error.of \in Nat
           /\ b.usingSchemeResolver \in BOOLEAN
           /\ b.pendingResolver \in Nat /\ b.resolvedBuffer \in Nat
  BY DEF ImplBaseType

\* A fresh response is one, and has no writer, status or error.
LEMMA FreshResponseIsEmpty ==
    /\ FreshResponse \in ImplBaseType
    /\ \A req : OnlyFrom(FreshResponse, req)
    /\ FreshResponse.status = NoStatus
    /\ ~Failed(FreshResponse)
    /\ ~FreshResponse.usingSchemeResolver
    /\ FreshResponse.pendingResolver = NoResolver
  BY DEF ImplBaseType, FreshResponse, OnlyFrom, PiecesOf, NoStatus, NoError,
         NoOne, NoResolver, Failed, StatusCodes, ErrorSymbols

\* A diverted Open() leaves a fresh response with a resolver to call.
LEMMA DivertedIsEmpty ==
    ASSUME NEW b \in ImplBaseType, NEW resolver \in Nat,
           NEW d, d = BeginSchemeResolution(b, resolver)
    PROVE  /\ d \in ImplBaseType
           /\ \A req : OnlyFrom(d, req)
           /\ d.status = NoStatus
           /\ ~Failed(d)
           /\ d.usingSchemeResolver
           /\ d.pendingResolver = resolver
  <1>1. d = [FreshResponse EXCEPT !.usingSchemeResolver = TRUE,
                                  !.pendingResolver = resolver]
    BY DEF BeginSchemeResolution, ResetForOpen
  <1>2. QED
    BY <1>1, FreshResponseIsEmpty DEF ImplBaseType, OnlyFrom, PiecesOf, Failed

\* Recording an error writes the error and nothing else.
LEMMA SetErrorWrites ==
    ASSUME NEW b \in ImplBaseType, NEW symbol \in ErrorSymbols \ {""},
           NEW req \in Nat
    PROVE  /\ SetError(b, symbol, req) \in ImplBaseType
           /\ Failed(SetError(b, symbol, req))
           /\ OnlyFrom(b, req) => OnlyFrom(SetError(b, symbol, req), req)
           /\ SetError(b, symbol, req).status = b.status
           /\ SetError(b, symbol, req).usingSchemeResolver = b.usingSchemeResolver
           /\ SetError(b, symbol, req).pendingResolver = b.pendingResolver
           /\ SetError(b, symbol, req).resolvedBuffer = b.resolvedBuffer
           /\ SetError(b, symbol, req).responseString = b.responseString
  BY DEF ImplBaseType, SetError, OnlyFrom, PiecesOf, Failed, NoError, NoOne

\* It keeps the type of the response even with no symbol to give.
LEMMA SetErrorType ==
    ASSUME NEW b \in ImplBaseType, NEW symbol \in ErrorSymbols, NEW req \in Nat
    PROVE  SetError(b, symbol, req) \in ImplBaseType
  BY DEF ImplBaseType, SetError

\* A transport that writes its status writes nothing else.
LEMMA SetStatusWrites ==
    ASSUME NEW b \in ImplBaseType, NEW code \in StatusCodes, NEW req \in Nat,
           NEW e, e = [b EXCEPT !.status = [code |-> code, of |-> req]]
    PROVE  /\ e \in ImplBaseType
           /\ OnlyFrom(b, req) => OnlyFrom(e, req)
           /\ e.error = b.error
           /\ e.usingSchemeResolver = b.usingSchemeResolver
           /\ e.pendingResolver = b.pendingResolver
  BY DEF ImplBaseType, OnlyFrom, PiecesOf

\* Taking the resolver writes the URL of the response and nothing else.
LEMMA TakeResolverWrites ==
    ASSUME NEW b \in ImplBaseType, NEW req \in Nat
    PROVE  /\ TakeResolver(b, req) \in ImplBaseType
           /\ OnlyFrom(b, req) => OnlyFrom(TakeResolver(b, req), req)
           /\ TakeResolver(b, req).status = b.status
           /\ TakeResolver(b, req).error = b.error
           /\ TakeResolver(b, req).usingSchemeResolver = b.usingSchemeResolver
           /\ TakeResolver(b, req).pendingResolver = NoResolver
  BY DEF TakeResolver, ImplBaseType, OnlyFrom, PiecesOf, NoResolver, NoOne

\* A response that is supplied is written for its own request only.
LEMMA SupplyWrites ==
    ASSUME NEW b \in ImplBaseType, NEW result \in ResolverResults,
           NEW type, NEW req \in Nat
    PROVE  /\ Supply(b, result, type, req) \in ImplBaseType
           /\ OnlyFrom(b, req) => OnlyFrom(Supply(b, result, type, req), req)
           /\ Supply(b, result, type, req).error = b.error
           /\ Supply(b, result, type, req).usingSchemeResolver = b.usingSchemeResolver
           /\ Supply(b, result, type, req).pendingResolver = b.pendingResolver
  <1> DEFINE status == [code |-> result.statusCode, of |-> req]
             text == IF result.statusText THEN req ELSE b.statusText
             header == IF result.contentType THEN req ELSE b.header
             body == IF type = "String" THEN {<<req, 1>>} ELSE b.responseString
  <1>1. result.statusCode \in StatusCodes
    BY DEF ResolverResults, StatusCodes
  <1>2. /\ status \in [code : StatusCodes, of : Nat]
        /\ text \in Nat /\ header \in Nat /\ body \in SUBSET (Nat \X Nat)
    BY <1>1, Fields
  <1>3. /\ status.of = req
        /\ text \in {req, b.statusText} /\ header \in {req, b.header}
        /\ PiecesOf(b.responseString, req) => PiecesOf(body, req)
    BY DEF PiecesOf
  <1>4. Supply(b, result, type, req) =
          [b EXCEPT !.status = status, !.statusText = text, !.header = header,
                    !.resolvedBuffer = req, !.responseString = body]
    BY DEF Supply
  <1> HIDE DEF status, text, header, body
  <1>5. /\ Supply(b, result, type, req) \in ImplBaseType
        /\ Supply(b, result, type, req).error = b.error
        /\ Supply(b, result, type, req).usingSchemeResolver = b.usingSchemeResolver
        /\ Supply(b, result, type, req).pendingResolver = b.pendingResolver
    BY <1>2, <1>4 DEF ImplBaseType
  <1>6. OnlyFrom(b, req) => OnlyFrom(Supply(b, result, type, req), req)
    BY <1>2, <1>3, <1>4 DEF ImplBaseType, OnlyFrom
  <1>7. QED
    BY <1>5, <1>6

\* A resolver's answer is written for its own request only, and on a response
\* without status or error it leaves one of them, or neither.
LEMMA AnswerWrites ==
    ASSUME NEW b \in ImplBaseType,
           NEW result \in ResolverResults, NEW type, NEW req \in Nat
    PROVE  LET e == AcceptResult(b, result, type, req) IN
           /\ e \in ImplBaseType
           /\ OnlyFrom(b, req) => OnlyFrom(e, req)
           /\ b.status = NoStatus /\ ~Failed(b) =>
                  (Failed(e) => e.status = NoStatus)
           /\ e.usingSchemeResolver = b.usingSchemeResolver
           /\ e.pendingResolver = b.pendingResolver
  <1>1. result.outcome \in {"threw", "notHandled", "handled"}
    BY DEF ResolverResults
  <1>2. CASE result.outcome # "handled"
    <2>1. PICK symbol \in ErrorSymbols \ {""} :
            AcceptResult(b, result, type, req) = SetError(b, symbol, req)
      <3>1. CASE result.outcome = "threw"
        BY <3>1 DEF AcceptResult, ErrorSymbols
      <3>2. CASE result.outcome = "notHandled"
        BY <3>2 DEF AcceptResult, ErrorSymbols
      <3>3. QED
        BY <1>1, <1>2, <3>1, <3>2
    <2> DEFINE e == SetError(b, symbol, req)
    <2>2. e \in ImplBaseType /\ e.status = b.status
      BY SetErrorWrites
    <2>3. OnlyFrom(b, req) => OnlyFrom(e, req)
      BY SetErrorWrites
    <2>4. /\ e.usingSchemeResolver = b.usingSchemeResolver
          /\ e.pendingResolver = b.pendingResolver
      BY SetErrorWrites
    <2>5. QED
      BY <2>1, <2>2, <2>3, <2>4
  <1>3. CASE result.outcome = "handled"
    <2>1. AcceptResult(b, result, type, req) = Supply(b, result, type, req)
      BY <1>3 DEF AcceptResult
    <2>2. QED
      BY <2>1, SupplyWrites DEF Failed
  <1>4. QED
    BY <1>2, <1>3

\* The answer leaves the URL of the response, which is written before the call.
LEMMA AnswerKeepsUrl ==
    ASSUME NEW b \in ImplBaseType,
           NEW result \in ResolverResults, NEW type, NEW req \in Nat
    PROVE  AcceptResult(b, result, type, req).responseUrl = b.responseUrl
  BY DEF ImplBaseType, ResolverResults, AcceptResult, SetError, Supply

\* The whole of ResolveScheme.
LEMMA ResolutionWrites ==
    ASSUME NEW b \in ImplBaseType,
           NEW result \in ResolverResults, NEW type, NEW req \in Nat
    PROVE  LET e == AcceptResult(TakeResolver(b, req), result, type, req) IN
           /\ e \in ImplBaseType
           /\ OnlyFrom(b, req) => OnlyFrom(e, req)
           /\ b.status = NoStatus /\ ~Failed(b) =>
                  (Failed(e) => e.status = NoStatus)
           /\ e.usingSchemeResolver = b.usingSchemeResolver
           /\ e.pendingResolver = NoResolver
  BY TakeResolverWrites, AnswerWrites DEF Failed

-----------------------------------------------------------------------------
(* The same of a set of requests.                                          *)

\* What Open() leaves was written by nobody.
LEMMA OpenedIsFromNobody ==
    ASSUME NEW b \in ImplBaseType, NEW resolver \in Nat, NEW reqs
    PROVE  /\ OnlyFromThese(FreshResponse, reqs)
           /\ OnlyFromThese(ResetForOpen(b), reqs)
           /\ OnlyFromThese(BeginSchemeResolution(b, resolver), reqs)
  BY DEF OnlyFromThese, ResetForOpen, BeginSchemeResolution, FreshResponse,
         NoStatus, NoError

\* The call of a resolver and its answer add their own request at most.
LEMMA TakeResolverFromThese ==
    ASSUME NEW b \in ImplBaseType, NEW reqs, NEW req \in reqs, OnlyFromThese(b, reqs)
    PROVE  OnlyFromThese(TakeResolver(b, req), reqs)
  BY DEF TakeResolver, ImplBaseType, OnlyFromThese

LEMMA AnswerFromThese ==
    ASSUME NEW b \in ImplBaseType, NEW result \in ResolverResults,
           NEW reqs, NEW req \in reqs, OnlyFromThese(b, reqs)
    PROVE  OnlyFromThese(AcceptResult(b, result, "Buffer", req), reqs)
  <1>1. ASSUME NEW symbol
        PROVE  OnlyFromThese(SetError(b, symbol, req), reqs)
    BY DEF SetError, ImplBaseType, OnlyFromThese
  <1>2. OnlyFromThese(Supply(b, result, "Buffer", req), reqs)
    <2> DEFINE status == [code |-> result.statusCode, of |-> req]
               text == IF result.statusText THEN req ELSE b.statusText
               header == IF result.contentType THEN req ELSE b.header
    <2>1. status.of = req /\ text \in {req, b.statusText} /\ header \in {req, b.header}
      OBVIOUS
    <2>2. Supply(b, result, "Buffer", req) =
            [b EXCEPT !.status = status, !.statusText = text, !.header = header,
                      !.resolvedBuffer = req, !.responseString = b.responseString]
      BY DEF Supply
    <2> DEFINE e == Supply(b, result, "Buffer", req)
    <2> HIDE DEF status, text, header
    <2>3. /\ e.status = status /\ e.statusText = text /\ e.header = header
          /\ e.resolvedBuffer = req /\ e.responseUrl = b.responseUrl
          /\ e.error = b.error /\ e.responseString = b.responseString
      BY <2>2 DEF ImplBaseType
    <2> HIDE DEF e
    <2>4. OnlyFromThese(e, reqs)
      BY <2>1, <2>3 DEF OnlyFromThese
    <2>5. QED
      BY <2>4 DEF e
  <1>3. QED
    BY <1>1, <1>2 DEF AcceptResult, ResolverResults
=============================================================================
