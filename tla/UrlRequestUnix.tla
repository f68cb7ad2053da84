--------------------------- MODULE UrlRequestUnix ---------------------------
(***************************************************************************)
(* One UrlRequest on the libcurl backend: the dispatcher of                *)
(* UrlRequest_Shared.h, the response state of UrlRequest_Base.h, and the   *)
(* worker thread of UrlRequest_Unix.cpp that drives one transfer.          *)
(*                                                                         *)
(* Three parties interleave: the client (whoever holds a copy of the       *)
(* UrlRequest and calls it, one call at a time, except that any holder may *)
(* Abort() while Open() waits for the old worker), the worker thread, and  *)
(* the peer, who decides what libcurl reports and when.                    *)
(*                                                                         *)
(* Not here: which URLs are diverted to a resolver and to which one        *)
(* (SchemeResolvers); request bodies and headers, which this backend       *)
(* ignores; what the strings of a response look like.                      *)
(***************************************************************************)
EXTENDS ImplBase

CONSTANTS
    MaxOpens,    \* bound on the number of requests one UrlRequest carries
    MaxChunks,   \* bound on the number of body pieces of a transfer
    ClientMay    \* the misuses the client is allowed, see UnixAssumption

UnixAssumption ==
    /\ MaxOpens \in Nat
    /\ MaxChunks \in Nat
    /\ ClientMay \subseteq
          { "DivertInFlight",      \* Open() a resolver's URL during a transfer
            "Resend",              \* SendAsync() twice without an Open()
            "DropInContinuation" } \* let a continuation hold the last copy

ASSUME UnixAssumption

VARIABLES
    base,            \* the ImplBase record
    responseType,    \* m_responseType
    responseBuffer,  \* m_responseBuffer
    curl,            \* m_curl: "null", "bare" (no URL set) or the kind of URL
    isFile,          \* m_file
    cancelled,       \* m_cancellationSource
    thread,          \* m_thread has a value, that is, is joinable
    worker,          \* where that thread is
    job,             \* what it works on
    client,          \* "idle", or the call that waits for the worker to exit
    target,          \* the URL of the Open() that waits
    alive,           \* FALSE after std::terminate
    gen,             \* history: the number of the current request
    phase            \* history: how far the current request has come

vars == << base, responseType, responseBuffer, curl, isFile, cancelled, thread,
           worker, job, client, target, alive, gen, phase >>

\* "gopher" stands for any transport without a status code of its own.
UrlKinds == {"http", "file", "app", "gopher"}
Handles == {"http", "file", "gopher"}
Phases == {"new", "opened", "sent", "settled"}
Sinks == {"String", "Buffer"}
Running == {"start", "check", "perform", "report", "complete", "continuation"}
WorkerStates == Running \cup {"none", "exited"}
\* What PerformWithCancellation returns, by its curl_error_symbol (which has no
\* name for CURLE_FAILED_INIT, code 2); CURLE_RECV_ERROR stands for any failure
\* of a transfer.
Results == {"", "OK", "CURLE_ABORTED_BY_CALLBACK", "CURLE_OUT_OF_MEMORY",
            "CURLE_2", "CURLE_RECV_ERROR", "CURLE_URL_MALFORMAT"}

\* gen, curl: the request and the handle it was sent with; sink: the body it
\* fills; doomed: it was sent after an Abort; received: pieces so far.
NoJob == [gen |-> 0, curl |-> "null", sink |-> "String", doomed |-> FALSE,
          received |-> 0, result |-> ""]
Jobs == [gen : Nat, curl : Handles \cup {"null", "bare"}, sink : Sinks,
         doomed : BOOLEAN, received : Nat, result : Results]

-----------------------------------------------------------------------------
(* Helpers.                                                                *)

\* Cleanup() without the join.
NoJoin == TRUE

\* Cleanup() gets past m_thread->join().
JoinReturns == ~thread \/ worker = "exited"

\* Cleanup() that leaves a thread in place once its request is settled.
ThreadLeftWhenSettled == thread /\ phase = "settled"

\* m_thread after Cleanup().
ThreadAfterCleanup == FALSE

\* Open() that does not rewrite app: URLs.
UrlAsGiven(url) == url

\* app: URLs are rewritten to the file next to the executable.
HandleFor(url) == IF url = "app" THEN "file" ELSE url

\* UrlRequest::ResponseBuffer() reads the resolver's body when diverted.
VisibleBuffer ==
    IF ~base.usingSchemeResolver THEN responseBuffer
    ELSE IF base.resolvedBuffer = NoOne THEN {}
    ELSE {<<base.resolvedBuffer, 1>>}

ClientCanCall == alive /\ client = "idle"

-----------------------------------------------------------------------------
(* The client.                                                             *)

\* Open() diverted by BeginSchemeResolution: nothing is joined, and what only
\* the transport knows (responseBuffer, curl, thread) is left alone.
OpenDiverted ==
    /\ ClientCanCall
    /\ gen < MaxOpens
    /\ phase # "sent" \/ "DivertInFlight" \in ClientMay
    /\ gen' = gen + 1
    /\ phase' = "opened"
    /\ base' = BeginSchemeResolution(base, 1)
    /\ UNCHANGED << responseType, responseBuffer, curl, isFile, cancelled,
                    thread, worker, job, client, target, alive >>

\* Open() of any other URL, up to the join in Cleanup().
OpenCall(url) ==
    /\ ClientCanCall
    /\ gen < MaxOpens
    /\ client' = "opening"
    /\ target' = url
    /\ UNCHANGED << base, responseType, responseBuffer, curl, isFile, cancelled,
                    thread, worker, job, alive, gen, phase >>

\* The three ways Open() leaves the libcurl handle: absent (POST is not
\* implemented, or curl_easy_init failed), without a URL (a later step threw),
\* or configured.  m_file is set as soon as a file is recognised.
HandleOutcomes(url) ==
    \/ curl' = "null" /\ UNCHANGED isFile
    \/ /\ curl' = "bare"
       /\ isFile' \in IF HandleFor(url) = "file" THEN {isFile, TRUE} ELSE {isFile}
    \/ curl' = HandleFor(url) /\ isFile' = (isFile \/ HandleFor(url) = "file")

\* The rest of Open(), from the moment the join returns.
OpenBody ==
    /\ alive
    /\ client = "opening"
    /\ JoinReturns
    /\ client' = "idle"
    /\ gen' = gen + 1
    /\ phase' = "opened"
    /\ base' = ResetForOpen(base)
    /\ responseBuffer' = {}
    /\ HandleOutcomes(target)
    /\ thread' = ThreadAfterCleanup
    /\ worker' = "none"
    /\ job' = NoJob
    /\ UNCHANGED << responseType, cancelled, target, alive >>

SetResponseType(type) ==
    /\ ClientCanCall
    /\ responseType' = type
    /\ UNCHANGED << base, responseBuffer, curl, isFile, cancelled, thread,
                    worker, job, client, target, alive, gen, phase >>

Abort ==
    /\ alive
    /\ client \in {"idle", "opening"}
    /\ cancelled' = TRUE
    /\ UNCHANGED << base, responseType, responseBuffer, curl, isFile, thread,
                    worker, job, client, target, alive, gen, phase >>

\* SendAsync() of a diverted request, which settles before it returns.  A
\* second one finds the resolver consumed and changes nothing.
SendResolved ==
    /\ ClientCanCall
    /\ base.usingSchemeResolver
    /\ IF base.pendingResolver = NoResolver
       THEN UNCHANGED base
       ELSE \E result \in ResolverResults :
              base' = AcceptResult(TakeResolver(base, gen), result,
                                   responseType, gen)
    /\ phase' = "settled"
    /\ UNCHANGED << responseType, responseBuffer, curl, isFile, cancelled,
                    thread, worker, job, client, target, alive, gen >>

\* PerformAsync clears the body it is to fill, then replaces m_thread: with a
\* joinable thread still in it, ~thread calls std::terminate.  (On a null
\* handle it throws instead, and leaves a request that was just opened as is.)
SendTransport ==
    /\ ClientCanCall
    /\ ~base.usingSchemeResolver
    /\ phase = "opened" \/ "Resend" \in ClientMay
    /\ curl # "null"
    /\ LET sink == responseType IN
       /\ base' = IF sink = "String" THEN [base EXCEPT !.responseString = {}]
                                     ELSE base
       /\ responseBuffer' = IF sink = "Buffer" THEN {} ELSE responseBuffer
       /\ IF thread
          THEN alive' = FALSE /\ UNCHANGED << thread, worker, job, phase >>
          ELSE /\ thread' = TRUE
               /\ worker' = "start"
               /\ job' = [NoJob EXCEPT !.gen = gen, !.curl = curl,
                                       !.sink = sink, !.doomed = cancelled]
               /\ phase' = "sent"
               /\ UNCHANGED alive
    /\ UNCHANGED << responseType, curl, isFile, cancelled, client, target, gen >>

\* The client drops its last copy: ~Impl runs, up to the join in Cleanup().
ClientRelease ==
    /\ ClientCanCall
    /\ client' = "destroying"
    /\ UNCHANGED << base, responseType, responseBuffer, curl, isFile, cancelled,
                    thread, worker, job, target, alive, gen, phase >>

\* The client drops its copies while a continuation attached to the task, which
\* runs inline on the worker, still holds one.
LeaveToContinuation ==
    /\ "DropInContinuation" \in ClientMay
    /\ ClientCanCall
    /\ phase = "sent" /\ job.gen = gen
    /\ client' = "gone"
    /\ UNCHANGED << base, responseType, responseBuffer, curl, isFile, cancelled,
                    thread, worker, job, target, alive, gen, phase >>

\* ~Impl that detaches the thread where it should join it.
DestroyDetached ==
    /\ alive
    /\ client = "destroying"
    /\ client' = "destroyed"
    /\ curl' = "null"
    /\ thread' = ThreadAfterCleanup
    /\ cancelled' = TRUE
    /\ UNCHANGED << base, responseType, responseBuffer, isFile, worker, job,
                    target, alive, gen, phase >>

\* The rest of ~Impl and ~ImplBase: the handles are freed, and only then does
\* Abort() run.
DestroyBody ==
    /\ alive
    /\ client = "destroying"
    /\ JoinReturns
    /\ client' = "destroyed"
    /\ curl' = "null"
    /\ thread' = ThreadAfterCleanup
    /\ worker' = "none"
    /\ cancelled' = TRUE
    /\ UNCHANGED << base, responseType, responseBuffer, isFile, job, target,
                    alive, gen, phase >>

-----------------------------------------------------------------------------
(* The worker thread.                                                      *)

\* Where the worker goes with a result in hand, and what it leaves alone.
Reaches(pc, result) ==
    /\ worker' = pc
    /\ job' = [job EXCEPT !.result = result]
    /\ UNCHANGED << responseType, curl, isFile, cancelled, thread, client,
                    target, alive, gen, phase >>

\* curl_multi_init and curl_multi_add_handle.
WorkerStart ==
    /\ alive /\ worker = "start"
    /\ \/ Reaches("check", "")
       \/ \E failure \in {"CURLE_OUT_OF_MEMORY", "CURLE_2"} : Reaches("report", failure)
    /\ UNCHANGED << base, responseBuffer >>

\* The loop of PerformWithCancellation without its test.
NeverCheck ==
    /\ alive /\ worker = "check"
    /\ Reaches("perform", "")
    /\ UNCHANGED << base, responseBuffer >>

\* The cancellation is tested before every curl_multi_perform.
WorkerCheck ==
    /\ alive /\ worker = "check"
    /\ IF cancelled THEN Reaches("report", "CURLE_ABORTED_BY_CALLBACK")
                    ELSE Reaches("perform", "")
    /\ UNCHANGED << base, responseBuffer >>

\* A write callback that looks at m_responseType when a piece arrives.
SinkByType == responseType

\* The sink a piece of the body goes to is the one bound at SendAsync().
SinkNow == job.sink

\* What curl_multi_perform, calling back, leaves alone.
CallingBack ==
    /\ alive /\ worker = "perform"
    /\ UNCHANGED << responseType, curl, isFile, cancelled, thread, worker,
                    client, target, alive, gen, phase >>

\* HeaderCallback with a status line, with or without a reason: the last one of
\* a redirect chain stays.
StatusLine ==
    /\ CallingBack
    /\ curl = "http"
    /\ \E reason \in {job.gen, NoOne} : base' = [base EXCEPT !.statusText = reason]
    /\ UNCHANGED << responseBuffer, job >>

\* HeaderCallback with a header: insert() keeps the first one of its key.
HeaderLine ==
    /\ CallingBack
    /\ curl \in {"http", "file"}
    /\ base.header = NoOne
    /\ base' = [base EXCEPT !.header = job.gen]
    /\ UNCHANGED << responseBuffer, job >>

\* The write callback appends a piece of the body.
BodyPiece ==
    /\ CallingBack
    /\ curl \in Handles
    /\ job.received < MaxChunks
    /\ job' = [job EXCEPT !.received = @ + 1]
    /\ LET piece == <<job.gen, job.received + 1>> IN
       \/ /\ SinkNow = "String"
          /\ base' = [base EXCEPT !.responseString = @ \cup {piece}]
          /\ UNCHANGED responseBuffer
       \/ /\ SinkNow = "Buffer"
          /\ responseBuffer' = responseBuffer \cup {piece}
          /\ UNCHANGED base

\* curl_multi_perform and curl_multi_poll return: more to come, or over.
WorkerPerform ==
    /\ alive /\ worker = "perform"
    /\ \/ curl # "bare" /\ Reaches("check", "")
       \/ curl # "bare" /\ Reaches("report", "OK")
       \/ curl # "bare" /\ Reaches("report", "CURLE_RECV_ERROR")
       \/ curl = "bare" /\ Reaches("report", "CURLE_URL_MALFORMAT")
    /\ UNCHANGED << base, responseBuffer >>

\* CURLINFO_RESPONSE_CODE: only HTTP has one.
ResponseCodes == IF curl = "http" THEN {200, 404} ELSE {0}

\* The status if files were not told apart.
StatusAsReported(code) == code

\* The status the worker records for libcurl's response code.
StatusFor(code) == IF code = 0 /\ isFile THEN 200 ELSE code

\* The outcome of the transfer goes into the response.
WorkerReport ==
    /\ alive /\ worker = "report"
    /\ \/ /\ job.result # "OK"
          /\ base' = SetError(base, job.result, job.gen)
       \/ /\ job.result = "OK"
          /\ \E code \in ResponseCodes :
               base' = [base EXCEPT !.status = [code |-> StatusFor(code), of |-> job.gen]]
       \/ /\ job.result = "OK"
          /\ base' = SetError(base, "GetInfoFailed", job.gen)
    /\ Reaches("complete", job.result)
    /\ UNCHANGED responseBuffer

\* taskCompletionSource.complete(): the client may look at the response.
WorkerComplete ==
    /\ alive /\ worker = "complete"
    /\ worker' = "continuation"
    /\ phase' = IF job.gen = gen THEN "settled" ELSE phase
    /\ UNCHANGED << base, responseType, responseBuffer, curl, isFile, cancelled,
                    thread, job, client, target, alive, gen >>

\* The inline continuations are done and destroyed.  Dropping the last copy of
\* the request here makes the worker join itself, in a destructor.
ContinuationReturns ==
    /\ alive /\ worker = "continuation"
    /\ IF client = "gone" THEN alive' = FALSE /\ UNCHANGED worker
                          ELSE worker' = "exited" /\ UNCHANGED alive
    /\ UNCHANGED << base, responseType, responseBuffer, curl, isFile, cancelled,
                    thread, job, client, target, gen, phase >>

-----------------------------------------------------------------------------
Init ==
    /\ base = FreshResponse
    /\ responseType = "String"
    /\ responseBuffer = {}
    /\ curl = "null"
    /\ isFile = FALSE
    /\ cancelled = FALSE
    /\ thread = FALSE
    /\ worker = "none"
    /\ job = NoJob
    /\ client = "idle"
    /\ target = "http"
    /\ alive = TRUE
    /\ gen = 0
    /\ phase = "new"

ClientNext ==
    \/ OpenDiverted
    \/ \E url \in UrlKinds : OpenCall(url)
    \/ \E type \in Sinks : SetResponseType(type)
    \/ Abort
    \/ SendResolved
    \/ SendTransport
    \/ ClientRelease
    \/ LeaveToContinuation

WorkerNext ==
    \/ WorkerStart
    \/ WorkerCheck
    \/ StatusLine
    \/ HeaderLine
    \/ BodyPiece
    \/ WorkerPerform
    \/ WorkerReport
    \/ WorkerComplete
    \/ ContinuationReturns

\* The process is over, or the request is.
Ended ==
    /\ ~alive \/ client = "destroyed"
    /\ UNCHANGED vars

Next == ClientNext \/ OpenBody \/ DestroyBody \/ WorkerNext \/ Ended

Spec == Init /\ [][Next]_vars

\* The scheduler runs a thread that can run: the worker, and a caller whose
\* join can return; and curl_multi_perform, which does not wait for the peer,
\* returns (redirects alone could keep the callbacks going for ever).  Nothing
\* is assumed of the peer, who may never let a transfer end, or of the clients.
Fairness ==
    /\ WF_vars(WorkerNext)
    /\ WF_vars(WorkerPerform)
    /\ WF_vars(OpenBody)
    /\ WF_vars(DestroyBody)

FairSpec == Spec /\ Fairness

-----------------------------------------------------------------------------
(* Properties.                                                             *)

TypeOK ==
    /\ base \in ImplBaseType
    /\ responseType \in Sinks
    /\ responseBuffer \subseteq Nat \X Nat
    /\ curl \in Handles \cup {"null", "bare"}
    /\ isFile \in BOOLEAN
    /\ cancelled \in BOOLEAN
    /\ thread \in BOOLEAN
    /\ worker \in WorkerStates
    /\ job \in Jobs
    /\ client \in {"idle", "opening", "gone", "destroying", "destroyed"}
    /\ target \in UrlKinds
    /\ alive \in BOOLEAN
    /\ gen \in Nat
    /\ phase \in Phases

\* A request object can be reused: nothing that an accessor returns was written
\* by the transfer or the resolver of an earlier Open() (ResetForOpen).
NoLeakAcrossOpen ==
    /\ OnlyFrom(base, gen)
    /\ PiecesOf(VisibleBuffer, gen)

\* Whatever the client does, the raw `this` of the worker stays good: as long as
\* it runs, the Impl exists, m_thread is there to be joined, and the libcurl
\* handle is the one the transfer was started on (Cleanup joins first).
WorkerNeverOutlivesImpl ==
    worker \in Running =>
        thread /\ client # "destroyed" /\ curl = job.curl

\* A client that opens before every send and keeps its copy until the task is
\* done never runs into std::terminate (m_thread replaced or joined by itself).
NoTerminate == alive

\* An error never comes with a status: a transport failure, a resolver that
\* throws and one that disowns the URL all leave the status at 0 (SetError).
ErrorMeansZeroStatus == Failed(base) => base.status = NoStatus

\* A transport that has a status never settles on 0 without saying why.
ZeroStatusIsExplained ==
    (/\ phase = "settled"
     /\ ~base.usingSchemeResolver
     /\ job.curl # "gopher"
     /\ base.status.code = 0) => Failed(base)

\* A transfer that succeeded delivered every piece libcurl handed over, once,
\* to the body that was asked for when it was sent, and nothing to the other
\* one; changing the response type in flight does not split it.
BodyIsComplete ==
    (phase = "settled" /\ ~base.usingSchemeResolver /\ job.result = "OK") =>
        LET body == {<<gen, i>> : i \in 1 .. job.received} IN
        /\ base.responseString = IF job.sink = "String" THEN body ELSE {}
        /\ responseBuffer = IF job.sink = "Buffer" THEN body ELSE {}

\* Abort() is sticky: a transfer sent after it, even for a request opened since,
\* fetches nothing and is reported as aborted (or as a failure to start).
DoomedSendFetchesNothing ==
    job.doomed =>
        /\ job.received = 0
        /\ job.result \in {"", "CURLE_ABORTED_BY_CALLBACK", "CURLE_OUT_OF_MEMORY", "CURLE_2"}

\* Once the task has completed, the response stays as it is until the next
\* Open(), whatever else is called (a second SendAsync, Abort, ResponseType).
SettledResponseIsStable ==
    [][ phase = "settled" /\ phase' = "settled" /\ gen' = gen =>
          base' = base /\ responseBuffer' = responseBuffer ]_vars

\* After an Abort() neither Open() nor the destructor waits for ever.
AbortUnblocksJoin ==
    (cancelled /\ client \in {"opening", "destroying"})
        ~> (client \in {"idle", "destroyed"})

-----------------------------------------------------------------------------
(* What the accessors show, and how the contract of UrlRequest maps to it.  *)

\* The requests on whose behalf some part of what is visible was written.
Writers ==
    ({base.status.of, base.statusText, base.responseUrl, base.header,
      base.error.of, base.resolvedBuffer}
       \cup {piece[1] : piece \in base.responseString \cup VisibleBuffer})
    \ {NoOne}

Answer ==
    [code |-> base.status.code, failed |-> Failed(base), by |-> Writers]

ContractPhase == IF phase = "sent" /\ job.doomed THEN "doomed" ELSE phase

\* Nothing is promised of what the accessors show before the task completes.
ContractAnswer ==
    IF phase = "settled" THEN Answer ELSE [code |-> 0, failed |-> FALSE, by |-> {}]

Contract == INSTANCE RequestContract WITH
    request <- gen, phase <- ContractPhase,
    aborted <- cancelled, answer <- ContractAnswer

\* With a client that follows the rules, the libcurl backend is a UrlRequest as
\* RequestContract describes it.
ImplementsContract == Contract!Spec

\* Abort() gets a transfer to settle even if the peer never says a word: the
\* worker looks at the cancellation source between bounded polls.
AbortSettles == Contract!AbortSettles
=============================================================================
