------------------------------ MODULE ImplBase ------------------------------
(***************************************************************************)
(* The response state that every UrlRequest backend inherits               *)
(* (UrlRequest::ImplBase), as one record, and the pure effect of each      *)
(* member function that writes it.                                         *)
(*                                                                         *)
(* Data is abstracted to its provenance.  Every UrlRequest::Open() starts  *)
(* a new request; requests are numbered 1, 2, ... in that order, and a     *)
(* response field holds the number of the request whose transfer or        *)
(* resolver wrote it (NoOne: nobody since the last reset).  A body is the  *)
(* set of its pieces <<request, index>>.  That is what it takes to say     *)
(* that a response leaks into a later request.                             *)
(***************************************************************************)
EXTENDS Integers

NoOne == 0
\* Registrations of resolvers are numbered from 1 as well.
NoResolver == 0

\* UrlStatusCode::None, Ok, and an HTTP error status, which is an answer too.
StatusCodes == {0, 200, 404}
NoStatus == [code |-> 0, of |-> NoOne]
NoError == [symbol |-> "", of |-> NoOne]

Failed(b) == b.error # NoError

\* One field, `header`, stands for the entry of m_headers under one key.
FreshResponse ==
    [ status |-> NoStatus, statusText |-> NoOne, responseUrl |-> NoOne,
      responseString |-> {}, header |-> NoOne, error |-> NoError,
      usingSchemeResolver |-> FALSE, pendingResolver |-> NoResolver,
      resolvedBuffer |-> NoOne ]

\* ResetForOpen() with the assignment to m_headers left out.
ResetKeepingHeaders(b) == [FreshResponse EXCEPT !.header = b.header]

\* Every member that is modelled is assigned.
ResetForOpen(b) == FreshResponse

\* m_errorCode, m_errorSymbol and m_errorString are always written together.
SetError(b, symbol, req) ==
    [b EXCEPT !.error = [symbol |-> symbol, of |-> req]]

-----------------------------------------------------------------------------
(* Custom schemes.                                                         *)

\* BeginSchemeResolution that leaves ResetForOpen() to the backend's Open(), which
\* a diverted URL does not reach.
DivertWithoutReset(b, resolver) ==
    [b EXCEPT !.usingSchemeResolver = TRUE, !.pendingResolver = resolver]

\* What an Open() diverted to `resolver` leaves behind.
BeginSchemeResolution(b, resolver) ==
    [ResetForOpen(b) EXCEPT !.usingSchemeResolver = TRUE,
                            !.pendingResolver = resolver]

\* ResolveScheme that does not consume the resolver it calls.
TakeResolverAndKeepIt(b, req) == [b EXCEPT !.responseUrl = req]

\* The first half of ResolveScheme, up to the call of the resolver.
TakeResolver(b, req) ==
    [b EXCEPT !.pendingResolver = NoResolver, !.responseUrl = req]

\* What a resolver can do: throw, disown the URL, or supply a response whose
\* status text and content type may be empty.
ResolverResults ==
    [ outcome : {"threw", "notHandled", "handled"}, statusCode : {0, 200},
      statusText : BOOLEAN, contentType : BOOLEAN ]

Supply(b, result, type, req) ==
    [b EXCEPT !.status = [code |-> result.statusCode, of |-> req],
              !.statusText = IF result.statusText THEN req ELSE @,
              !.header = IF result.contentType THEN req ELSE @,
              !.resolvedBuffer = req,
              !.responseString = IF type = "String" THEN {<<req, 1>>} ELSE @]

\* ResolveScheme without the early return of a URL that is not handled.
AcceptWithoutReturn(b, result, type, req) ==
    CASE result.outcome = "threw" -> SetError(b, "SchemeResolverThrew", req)
      [] result.outcome = "notHandled" ->
           Supply(SetError(b, "SchemeResolverNotFound", req), result, type, req)
      [] result.outcome = "handled" -> Supply(b, result, type, req)

\* The second half of ResolveScheme, from the resolver's return or throw.
AcceptResult(b, result, type, req) ==
    CASE result.outcome = "threw" -> SetError(b, "SchemeResolverThrew", req)
      [] result.outcome = "notHandled" -> SetError(b, "SchemeResolverNotFound", req)
      [] result.outcome = "handled" -> Supply(b, result, type, req)

-----------------------------------------------------------------------------
(* Predicates on a response.                                               *)

\* The symbols the shared layer and the backends give to SetError; NSURLError
\* and HRESULT stand for any code of their kind.
ErrorSymbols ==
    { "", "SchemeResolverThrew", "SchemeResolverNotFound",
      "NSURLError", "AppResourceNotFound", "HRESULT",
      "CURLE_ABORTED_BY_CALLBACK", "CURLE_OUT_OF_MEMORY", "CURLE_2",
      "CURLE_RECV_ERROR", "CURLE_URL_MALFORMAT", "GetInfoFailed" }

ImplBaseType ==
    [ status : [code : StatusCodes, of : Nat], statusText : Nat,
      responseUrl : Nat, responseString : SUBSET (Nat \X Nat), header : Nat,
      error : [symbol : ErrorSymbols, of : Nat], usingSchemeResolver : BOOLEAN,
      pendingResolver : Nat, resolvedBuffer : Nat ]

PiecesOf(body, req) == \A piece \in body : piece[1] = req

\* Nothing in the response was written on behalf of a request other than req.
OnlyFrom(b, req) ==
    /\ {b.status.of, b.statusText, b.responseUrl, b.header, b.error.of,
        b.resolvedBuffer} \subseteq {NoOne, req}
    /\ PiecesOf(b.responseString, req)

\* The same of a set of requests.
OnlyFromThese(b, reqs) ==
    /\ {b.status.of, b.statusText, b.responseUrl, b.header, b.error.of,
        b.resolvedBuffer} \subseteq reqs \cup {NoOne}
    /\ \A piece \in b.responseString : piece[1] \in reqs
=============================================================================
