--------------------------- MODULE UnixBodyProofs ---------------------------
(***************************************************************************)
(* What a settled transfer of UrlRequestUnix has to show, for any bounds:  *)
(* a status or the reason why there is none, whatever the client does, and *)
(* its whole body, if the client opens before it sends.                    *)
(***************************************************************************)
EXTENDS UrlRequestUnixProofs

\* The pieces that libcurl has handed over so far.
Delivered(j) == {<<j.gen, i>> : i \in 1 .. j.received}

\* Both bodies are what job j delivered.
Holds(j) ==
    /\ base.responseString = IF j.sink = "String" THEN Delivered(j) ELSE {}
    /\ responseBuffer = IF j.sink = "Buffer" THEN Delivered(j) ELSE {}

\* From Open() to SendAsync() both bodies are empty; from then on they hold what
\* was delivered, also once the worker is gone.
Body ==
    ~base.usingSchemeResolver =>
       /\ phase \in {"new", "opened"} =>
             base.responseString = {} /\ responseBuffer = {}
       /\ phase \in {"sent", "settled"} => job.gen = gen /\ Holds(job)

\* A file is known to be one, a transfer has a handle and without a URL no
\* success, and a success that is reported has a status unless it is gopher's.
Status ==
    /\ curl = "file" => isFile
    /\ worker \in Transferring => job.curl # "null"
    /\ worker \in Transferring /\ job.result = "OK" => job.curl \in Handles
    /\ /\ ~base.usingSchemeResolver
       /\ worker = "complete" \/ phase = "settled"
       /\ job.curl # "gopher"
       /\ base.status.code = 0
       => Failed(base)

-----------------------------------------------------------------------------
\* A step that leaves the bodies, the job and the phase alone leaves Body alone.
LEMMA BodyKept ==
    ASSUME Body, UNCHANGED << responseBuffer, gen, phase >>,
           base'.responseString = base.responseString,
           base'.usingSchemeResolver = base.usingSchemeResolver,
           job'.gen = job.gen, job'.sink = job.sink, job'.received = job.received
    PROVE  Body'
  BY DEF Body, Holds, Delivered

LEMMA BodyPieceStep ==
    ASSUME Always, Body, BodyPiece
    PROVE  Body'
  <1>a. /\ job \in Jobs /\ job.received \in Nat /\ base \in ImplBaseType
        /\ job.sink \in Sinks
    BY JobFields DEF Always, TypeOK
  <1>b. /\ phase' = phase /\ gen' = gen
        /\ base'.usingSchemeResolver = base.usingSchemeResolver
        /\ ~base.usingSchemeResolver => phase = "sent"
    BY <1>a DEF BodyPiece, CallingBack, Always, Flow, Transferring, ImplBaseType
  <1> SUFFICES ASSUME ~base.usingSchemeResolver
               PROVE  (job.gen = gen /\ Holds(job))'
    BY <1>b DEF Body
  <1>1. job.gen = gen /\ Holds(job)
    BY <1>b DEF Body
  <1>2. /\ job'.gen = job.gen /\ job'.sink = job.sink
        /\ job'.received = job.received + 1
    BY <1>a DEF BodyPiece, Jobs
  <1>3. Delivered(job') = Delivered(job) \cup {<<job.gen, job.received + 1>>}
    <2>1. 1 .. (job.received + 1) = (1 .. job.received) \cup {job.received + 1}
      BY <1>a
    <2>2. QED
      BY <1>2, <2>1 DEF Delivered
  <1>4. CASE job.sink = "String"
    <2>1. /\ base'.responseString = base.responseString \cup {<<job.gen, job.received + 1>>}
          /\ responseBuffer' = responseBuffer
      BY <1>a, <1>4 DEF BodyPiece, SinkNow, ImplBaseType
    <2>2. Holds(job)'
      BY <1>1, <1>2, <1>3, <1>4, <2>1 DEF Holds
    <2>3. QED
      BY <1>1, <1>2, <1>b, <2>2
  <1>5. CASE job.sink = "Buffer"
    <2>1. /\ responseBuffer' = responseBuffer \cup {<<job.gen, job.received + 1>>}
          /\ base' = base
      BY <1>5 DEF BodyPiece, SinkNow
    <2>2. Holds(job)'
      BY <1>1, <1>2, <1>3, <1>5, <2>1 DEF Holds
    <2>3. QED
      BY <1>1, <1>2, <1>b, <2>2
  <1>6. QED
    BY <1>a, <1>4, <1>5 DEF Sinks

\* The response that a report leaves has the bodies it found.
LEMMA ReportLeavesBodies ==
    ASSUME TypeOK, WorkerReport
    PROVE  /\ base'.responseString = base.responseString
           /\ base'.usingSchemeResolver = base.usingSchemeResolver
  <1>1. base \in ImplBaseType
    BY DEF TypeOK
  <1>2. CASE \E symbol \in ErrorSymbols : base' = SetError(base, symbol, job.gen)
    BY <1>1, <1>2 DEF SetError, ImplBaseType
  <1>3. CASE \E code \in StatusCodes :
               base' = [base EXCEPT !.status = [code |-> code, of |-> job.gen]]
    BY <1>1, <1>3 DEF ImplBaseType
  <1>4. QED
    BY <1>2, <1>3, ReportCases

LEMMA BodyStep ==
    ASSUME "Resend" \notin ClientMay, Always, Body, [Next]_vars
    PROVE  Body'
  <1>a. /\ job \in Jobs /\ job.result \in Results /\ base \in ImplBaseType
        /\ TypeOK /\ Flow
    BY JobFields DEF Always, TypeOK
  \* A body is read only of a request that was not diverted.
  <1>b. ASSUME base'.usingSchemeResolver PROVE Body'
    BY <1>b DEF Body
  <1>1. CASE OpenDiverted
    BY <1>1, <1>a, <1>b, DivertedIsEmpty DEF OpenDiverted
  <1>2. CASE \/ \E url \in UrlKinds : OpenCall(url)
             \/ \E type \in Sinks : SetResponseType(type)
             \/ Abort \/ ClientRelease \/ LeaveToContinuation
             \/ DestroyBody \/ ContinuationReturns
    <2>1. UNCHANGED << base, responseBuffer, job, gen, phase >>
      BY <1>2 DEF OpenCall, SetResponseType, Abort, ClientRelease,
                  LeaveToContinuation, DestroyBody, ContinuationReturns
    <2>2. QED
      BY <2>1, BodyKept
  <1>4. CASE SendResolved
    BY <1>4, <1>a, <1>b, SendResolvedKeeps DEF SendResolved
  <1>5. CASE SendTransport
    <2>1. phase = "opened" /\ ~base.usingSchemeResolver /\ ~thread
      BY <1>5, SendCases DEF SendTransport
    <2>2. base.responseString = {} /\ responseBuffer = {}
      BY <2>1 DEF Body
    <2>3. base'.responseString = {} /\ responseBuffer' = {}
      BY <1>a, <1>5, <2>2 DEF SendTransport, ImplBaseType
    <2>4. job'.gen = gen /\ job'.received = 0
      BY <1>5, <1>a, <2>1, NewJob
    <2>5. phase' = "sent" /\ gen' = gen
      BY <1>5, <2>1 DEF SendTransport
    <2>6. Delivered(job') = {}
      BY <2>4 DEF Delivered
    <2>7. QED
      BY <2>3, <2>4, <2>5, <2>6 DEF Body, Holds
  <1>6. CASE OpenBody
    <2>1. base' = FreshResponse /\ responseBuffer' = {} /\ phase' = "opened"
      BY <1>6 DEF OpenBody, ResetForOpen
    <2>2. base'.responseString = {}
      BY <2>1 DEF FreshResponse
    <2>3. QED
      BY <2>1, <2>2 DEF Body
  <1>8. CASE WorkerStart \/ WorkerCheck \/ WorkerPerform
    <2>1. \E pc \in Transferring, result \in Results : Reaches(pc, result)
      BY <1>8 DEF WorkerStart, WorkerCheck, WorkerPerform, Results, Transferring
    <2>2. /\ job'.gen = job.gen /\ job'.sink = job.sink /\ job'.received = job.received
          /\ UNCHANGED << gen, phase >>
      BY <1>a, <2>1, JobResult DEF Reaches
    <2>3. UNCHANGED << base, responseBuffer >>
      BY <1>8 DEF WorkerStart, WorkerCheck, WorkerPerform
    <2>4. QED
      BY <2>2, <2>3, BodyKept
  <1>9. CASE StatusLine \/ HeaderLine
    <2>1. /\ base'.responseString = base.responseString
          /\ base'.usingSchemeResolver = base.usingSchemeResolver
      BY <1>a, <1>9 DEF StatusLine, HeaderLine, ImplBaseType
    <2>2. UNCHANGED << responseBuffer, job, gen, phase >>
      BY <1>9 DEF StatusLine, HeaderLine, CallingBack
    <2>3. QED
      BY <2>1, <2>2, BodyKept
  <1>10. CASE BodyPiece
    BY <1>10, BodyPieceStep
  <1>11. CASE WorkerReport
    <2>1. Reaches("complete", job.result) /\ responseBuffer' = responseBuffer
      BY <1>11 DEF WorkerReport
    <2>2. /\ job'.gen = job.gen /\ job'.sink = job.sink /\ job'.received = job.received
          /\ UNCHANGED << gen, phase >>
      BY <1>a, <2>1, JobResult DEF Reaches
    <2>3. /\ base'.responseString = base.responseString
          /\ base'.usingSchemeResolver = base.usingSchemeResolver
      BY <1>11, <1>a, ReportLeavesBodies
    <2>4. QED
      BY <2>1, <2>2, <2>3, BodyKept
  <1>12. CASE WorkerComplete
    <2>1. /\ worker = "complete" /\ UNCHANGED << base, responseBuffer, job, gen >>
          /\ phase' \in {phase, "settled"}
      BY <1>12 DEF WorkerComplete
    <2>2. ~base.usingSchemeResolver => phase = "sent"
      BY <1>a, <2>1 DEF Flow, Transferring
    <2>3. QED
      BY <2>1, <2>2 DEF Body, Holds
  <1>13. CASE UNCHANGED vars
    BY <1>13, BodyKept DEF vars
  <1>14. QED
    BY NextCases, <1>1, <1>2, <1>4, <1>5, <1>6, <1>8, <1>9, <1>10,
       <1>11, <1>12, <1>13

\* A success has a code, and so a status, unless there is none for its transport.
LEMMA ReportHasStatus ==
    ASSUME Always, Status, WorkerReport
    PROVE  job.curl # "gopher" /\ base'.status.code = 0 => Failed(base')
  <1>a. /\ job \in Jobs /\ job.result \in Results /\ base \in ImplBaseType
        /\ job.gen \in Nat /\ TypeOK /\ WorkerNeverOutlivesImpl
    BY JobFields DEF Always, TypeOK
  <1>b. worker = "report" /\ job.result # ""
    BY DEF WorkerReport, Always, Outcome
  <1>1. CASE job.result # "OK"
    BY <1>1, <1>a, <1>b, ReportKeeps
  <1>2. CASE base' = SetError(base, "GetInfoFailed", job.gen)
    BY <1>a, <1>2 DEF SetError, ImplBaseType, Failed, NoError
  <1>3. CASE /\ job.result = "OK"
             /\ \E code \in ResponseCodes :
                  base' = [base EXCEPT !.status = [code |-> StatusFor(code), of |-> job.gen]]
    <2>1. curl = job.curl /\ job.curl \in Handles
      BY <1>3, <1>a, <1>b DEF Status, Transferring, WorkerNeverOutlivesImpl, Running
    <2>2. job.curl # "gopher" => \A code \in ResponseCodes : StatusFor(code) # 0
      BY <2>1 DEF Status, ResponseCodes, StatusFor, Handles
    <2>3. PICK code \in ResponseCodes :
            base' = [base EXCEPT !.status = [code |-> StatusFor(code), of |-> job.gen]]
      BY <1>3
    <2>4. base'.status.code = StatusFor(code)
      BY <1>a, <2>3 DEF ImplBaseType
    <2>5. QED
      BY <2>2, <2>3, <2>4
  <1>4. QED
    BY <1>1, <1>2, <1>3 DEF WorkerReport

\* A step that leaves the answer, the handle and the worker's result alone.
LEMMA StatusKept ==
    ASSUME Status, curl' = curl \/ curl' = "null", UNCHANGED << isFile, phase >>,
           job'.curl = job.curl,
           job'.result = job.result, base'.status = base.status,
           base'.error = base.error,
           base'.usingSchemeResolver = base.usingSchemeResolver,
           worker' \in Transferring => worker' = worker
    PROVE  Status'
  BY DEF Status, Failed, Transferring

LEMMA StatusStep ==
    ASSUME Always, Status, [Next]_vars
    PROVE  Status'
  <1>a. /\ job \in Jobs /\ job.result \in Results /\ base \in ImplBaseType
        /\ gen \in Nat /\ curl \in Handles \cup {"null", "bare"}
        /\ TypeOK /\ Flow /\ WorkerNeverOutlivesImpl
    BY JobFields DEF Always, TypeOK
  <1>c. curl = "file" => isFile
    BY DEF Status
  \* Of a diverted request there is nothing to say but what the worker has.
  <1>d. ASSUME base'.usingSchemeResolver, UNCHANGED << curl, isFile, worker, job >>
        PROVE  Status'
    BY <1>d DEF Status
  <1>1. CASE OpenDiverted
    <2>1. base'.usingSchemeResolver
      BY <1>a, <1>1, DivertedIsEmpty DEF OpenDiverted
    <2>2. QED
      BY <1>1, <1>d, <2>1 DEF OpenDiverted
  <1>2. CASE \/ \E url \in UrlKinds : OpenCall(url)
             \/ \E type \in Sinks : SetResponseType(type)
             \/ Abort \/ ClientRelease \/ LeaveToContinuation
             \/ DestroyBody \/ ContinuationReturns
    <2>1. UNCHANGED << base, job, isFile, phase >> /\ (curl' = curl \/ curl' = "null")
      BY <1>2 DEF OpenCall, SetResponseType, Abort, ClientRelease,
                  LeaveToContinuation, DestroyBody, ContinuationReturns
    <2>2. worker' = worker \/ worker' \in {"none", "exited"}
      BY <1>2 DEF OpenCall, SetResponseType, Abort, ClientRelease,
                  LeaveToContinuation, DestroyBody, ContinuationReturns
    <2>3. QED
      BY <2>1, <2>2, StatusKept DEF Transferring
  <1>4. CASE SendResolved
    <2>1. base'.usingSchemeResolver
      BY <1>4, <1>a, SendResolvedKeeps DEF SendResolved
    <2>2. QED
      BY <1>4, <1>d, <2>1 DEF SendResolved
  <1>5. CASE SendTransport
    <2>1. /\ base'.status = base.status /\ base'.error = base.error
          /\ base'.usingSchemeResolver = base.usingSchemeResolver
      BY <1>5, <1>a DEF SendTransport, ImplBaseType
    <2>2. UNCHANGED << curl, isFile >> /\ curl # "null"
      BY <1>5 DEF SendTransport
    <2>3. CASE thread
      <3>1. UNCHANGED << worker, job, phase >>
        BY <1>5, <2>3 DEF SendTransport
      <3>2. QED
        BY <2>1, <2>2, <3>1, StatusKept
    <2>4. CASE ~thread
      <3>1. job'.result = "" /\ job'.curl # "null"
        BY <1>5, <1>a, <2>2, <2>4, NewJob
      <3>2. phase' = "sent" /\ worker' = "start"
        BY <1>5, <2>4 DEF SendTransport
      <3>3. QED
        BY <1>c, <2>2, <3>1, <3>2 DEF Status
    <2>5. QED
      BY <2>3, <2>4
  <1>6. CASE OpenBody
    <2>1. worker' = "none" /\ phase' = "opened"
      BY <1>6 DEF OpenBody
    <2>2. curl' = "file" => isFile'
      BY <1>6 DEF OpenBody, HandleOutcomes
    <2>3. QED
      BY <2>1, <2>2 DEF Status, Transferring
  <1>9. CASE WorkerStart \/ WorkerCheck \/ WorkerPerform
    <2>1. \E pc \in {"check", "perform", "report"}, result \in Results :
            /\ Reaches(pc, result)
            /\ result = "OK" => worker = "perform" /\ curl # "bare"
      BY <1>9 DEF WorkerStart, WorkerCheck, WorkerPerform, Results
    <2>2. /\ job'.curl = job.curl /\ UNCHANGED << base, phase, curl, isFile >>
          /\ worker' \in {"check", "perform", "report"}
          /\ job'.result = "OK" => worker = "perform" /\ curl # "bare"
      BY <1>9, <1>a, <2>1, JobResult DEF Reaches, WorkerStart, WorkerCheck, WorkerPerform
    <2>3. worker \in Transferring
      BY <1>9 DEF WorkerStart, WorkerCheck, WorkerPerform, Transferring
    <2>4. job'.result = "OK" => job'.curl \in Handles
      <3>1. worker = "perform" => curl = job.curl
        BY <1>a DEF WorkerNeverOutlivesImpl, Running
      <3>2. job.curl # "null"
        BY <2>3 DEF Status
      <3>3. QED
        BY <1>a, <2>2, <3>1, <3>2
    <2>5. ~base.usingSchemeResolver => phase' = "sent"
      BY <1>a, <2>2, <2>3 DEF Flow
    <2>6. job'.curl # "null"
      BY <2>2, <2>3 DEF Status
    <2>7. QED
      BY <1>c, <2>2, <2>4, <2>5, <2>6 DEF Status
  <1>10. CASE StatusLine \/ HeaderLine \/ BodyPiece
    <2>1. /\ base'.status = base.status /\ base'.error = base.error
          /\ base'.usingSchemeResolver = base.usingSchemeResolver
      BY <1>a, <1>10 DEF StatusLine, HeaderLine, BodyPiece, ImplBaseType
    <2>2. job'.curl = job.curl /\ job'.result = job.result
      BY <1>a, <1>10 DEF StatusLine, HeaderLine, BodyPiece, Jobs
    <2>3. UNCHANGED << curl, isFile, phase, worker >>
      BY <1>10 DEF StatusLine, HeaderLine, BodyPiece, CallingBack
    <2>4. QED
      BY <2>1, <2>2, <2>3, StatusKept
  <1>11. CASE WorkerReport
    <2>1. Reaches("complete", job.result) /\ worker = "report"
      BY <1>11 DEF WorkerReport
    <2>2. /\ job'.curl = job.curl /\ job'.result = job.result
          /\ UNCHANGED << curl, isFile, phase >>
      BY <1>a, <2>1, JobResult DEF Reaches
    <2>3. job.curl # "null" /\ (job.result = "OK" => job.curl \in Handles)
      BY <2>1 DEF Status, Transferring
    <2>4. job.curl # "gopher" /\ base'.status.code = 0 => Failed(base')
      BY <1>11, ReportHasStatus
    <2>5. QED
      BY <1>c, <2>2, <2>3, <2>4 DEF Status, Failed
  <1>12. CASE WorkerComplete
    <2>1. /\ worker = "complete" /\ worker' = "continuation"
          /\ UNCHANGED << base, job, curl, isFile >>
      BY <1>12 DEF WorkerComplete
    <2>2. QED
      BY <2>1 DEF Status, Transferring, Failed
  <1>13. CASE UNCHANGED vars
    BY <1>13, StatusKept DEF vars
  <1>14. QED
    BY NextCases, <1>1, <1>2, <1>4, <1>5, <1>6, <1>9, <1>10,
       <1>11, <1>12, <1>13

-----------------------------------------------------------------------------
\* A success shows every piece that libcurl handed over, in the body that was
\* asked for when it was sent, and nothing in the other one, for any client that
\* opens before it sends: an old worker fills the bodies of a diverted request
\* at most, and those the next Open() of a transport clears.
THEOREM BodiesAreComplete ==
    ASSUME "Resend" \notin ClientMay PROVE Spec => []BodyIsComplete
  <1>1. Init => Body
    BY FreshResponseIsEmpty DEF Init, FreshResponse, Body
  <1>2. Always /\ Body /\ [Next]_vars => Body'
    BY BodyStep
  <1>3. Body => BodyIsComplete
    BY DEF Body, Holds, Delivered, BodyIsComplete
  <1>4. QED
    BY <1>1, <1>2, <1>3, AlwaysInvariance, PTL DEF Spec

\* Whatever the client does, a transfer that settles without a status settles
\* with an error, wherever it broke off and however Open() failed.
THEOREM ZeroIsExplained == Spec => []ZeroStatusIsExplained
  <1>1. Init => Status
    BY DEF Init, Status, Transferring
  <1>2. Always /\ Status /\ [Next]_vars => Status'
    BY StatusStep
  <1>3. Status => ZeroStatusIsExplained
    BY DEF Status, ZeroStatusIsExplained
  <1>4. QED
    BY <1>1, <1>2, <1>3, AlwaysInvariance, PTL DEF Spec
=============================================================================
