------------------------ MODULE UrlRequestUnixProofs ------------------------
(***************************************************************************)
(* Proofs about UrlRequestUnix, for any bounds.                            *)
(***************************************************************************)
EXTENDS UrlRequestUnix, ImplBaseProofs

\* Every step of the specification, one disjunct per action, so that a proof
\* about Next can name them.
LEMMA NextCases ==
    ASSUME [Next]_vars
    PROVE  \/ OpenDiverted
           \/ \E url \in UrlKinds : OpenCall(url)
           \/ \E type \in Sinks : SetResponseType(type)
           \/ Abort
           \/ SendResolved
           \/ SendTransport
           \/ ClientRelease
           \/ LeaveToContinuation
           \/ OpenBody
           \/ DestroyBody
           \/ WorkerStart
           \/ WorkerCheck
           \/ StatusLine
           \/ HeaderLine
           \/ BodyPiece
           \/ WorkerPerform
           \/ WorkerReport
           \/ WorkerComplete
           \/ ContinuationReturns
           \/ UNCHANGED vars
  BY DEF Next, ClientNext, WorkerNext, Ended

\* No job is a job, and the fields of a job have their types.
LEMMA JobFields ==
    /\ NoJob \in Jobs
    /\ NoJob.gen = 0 /\ ~NoJob.doomed /\ NoJob.received = 0 /\ NoJob.result = ""
    /\ \A j \in Jobs : /\ j.gen \in Nat /\ j.doomed \in BOOLEAN
                       /\ j.received \in Nat /\ j.result \in Results
                       /\ j.sink \in Sinks
                       /\ j.curl \in Handles \cup {"null", "bare"}
  BY DEF NoJob, Jobs, Handles, Sinks, Results

\* What SendTransport hands to the new thread.
LEMMA NewJob ==
    ASSUME TypeOK, SendTransport, ~thread
    PROVE  /\ job' \in Jobs
           /\ job'.gen = gen /\ job'.curl = curl /\ job'.sink = responseType
           /\ job'.doomed = cancelled /\ job'.received = 0 /\ job'.result = ""
  <1>1. job' = [NoJob EXCEPT !.gen = gen, !.curl = curl,
                             !.sink = responseType, !.doomed = cancelled]
    BY DEF SendTransport
  <1>2. /\ gen \in Nat /\ curl \in Handles \cup {"null", "bare"}
        /\ responseType \in Sinks /\ cancelled \in BOOLEAN
    BY DEF TypeOK
  <1>3. NoJob \in Jobs /\ NoJob.received = 0 /\ NoJob.result = ""
    BY JobFields
  <1>4. QED
    BY <1>1, <1>2, <1>3 DEF Jobs

\* The worker writes the result of its job, and no other part of it.
LEMMA JobResult ==
    ASSUME TypeOK, NEW pc, NEW result \in Results, Reaches(pc, result)
    PROVE  /\ job' \in Jobs
           /\ job'.gen = job.gen /\ job'.curl = job.curl
           /\ job'.sink = job.sink /\ job'.doomed = job.doomed
           /\ job'.received = job.received /\ job'.result = result
           /\ worker' = pc
  BY DEF TypeOK, Reaches, Jobs

\* The worker records an error with a symbol of its own, or a status.
LEMMA ReportCases ==
    ASSUME TypeOK, WorkerReport
    PROVE  \/ \E symbol \in ErrorSymbols :
                /\ base' = SetError(base, symbol, job.gen)
                /\ job.result # "" => symbol # ""
           \/ \E code \in StatusCodes :
                /\ base' = [base EXCEPT !.status = [code |-> code, of |-> job.gen]]
                /\ job.result = "OK"
  <1>1. job.result \in Results
    BY JobFields DEF TypeOK
  <1>2. CASE job.result # "OK"
    <2>1. base' = SetError(base, job.result, job.gen)
      BY <1>2 DEF WorkerReport
    <2>2. job.result \in ErrorSymbols
      BY <1>1, <1>2 DEF Results, ErrorSymbols
    <2>3. QED
      BY <2>1, <2>2
  <1>3. CASE base' = SetError(base, "GetInfoFailed", job.gen)
    BY <1>3 DEF ErrorSymbols
  <1>4. CASE /\ job.result = "OK"
             /\ \E code \in ResponseCodes :
                  base' = [base EXCEPT !.status = [code |-> StatusFor(code), of |-> job.gen]]
    <2>1. \A code \in ResponseCodes : StatusFor(code) \in StatusCodes
      BY DEF ResponseCodes, StatusFor, StatusCodes
    <2>2. QED
      BY <1>4, <2>1
  <1>5. QED
    BY <1>2, <1>3, <1>4 DEF WorkerReport

\* What that leaves of the response, in terms of its invariants.
LEMMA ReportKeeps ==
    ASSUME TypeOK, WorkerReport
    PROVE  /\ OnlyFrom(base, job.gen) => OnlyFrom(base', job.gen)
           /\ base.status = NoStatus /\ ~Failed(base) =>
                  (Failed(base') => base'.status = NoStatus)
           /\ job.result \notin {"", "OK"} => Failed(base')
           /\ job.gen \in {base'.status.of, base'.error.of}
           /\ base'.usingSchemeResolver = base.usingSchemeResolver
           /\ base'.pendingResolver = base.pendingResolver
  <1>1. base \in ImplBaseType /\ job.gen \in Nat
    BY JobFields DEF TypeOK
  <1>2. ASSUME NEW symbol \in ErrorSymbols, base' = SetError(base, symbol, job.gen),
               job.result # "" => symbol # ""
        PROVE  /\ OnlyFrom(base, job.gen) => OnlyFrom(base', job.gen)
               /\ base'.status = base.status
               /\ base'.error.of = job.gen
               /\ job.result # "" => Failed(base')
               /\ base'.usingSchemeResolver = base.usingSchemeResolver
               /\ base'.pendingResolver = base.pendingResolver
    BY <1>1, <1>2 DEF SetError, ImplBaseType, OnlyFrom, Failed, NoError
  <1>3. ASSUME NEW code \in StatusCodes, job.result = "OK",
               base' = [base EXCEPT !.status = [code |-> code, of |-> job.gen]]
        PROVE  /\ OnlyFrom(base, job.gen) => OnlyFrom(base', job.gen)
               /\ base'.error = base.error
               /\ base'.status.of = job.gen
               /\ base'.usingSchemeResolver = base.usingSchemeResolver
               /\ base'.pendingResolver = base.pendingResolver
    <2>1. base'.status.of = job.gen
      BY <1>1, <1>3 DEF ImplBaseType
    <2>2. QED
      BY <1>1, <1>3, <2>1, SetStatusWrites
  <1>4. CASE \E symbol \in ErrorSymbols :
                /\ base' = SetError(base, symbol, job.gen)
                /\ job.result # "" => symbol # ""
    BY <1>2, <1>4
  <1>5. CASE \E code \in StatusCodes :
                /\ base' = [base EXCEPT !.status = [code |-> code, of |-> job.gen]]
                /\ job.result = "OK"
    BY <1>3, <1>5 DEF Failed
  <1>6. QED
    BY <1>4, <1>5, ReportCases

\* SendAsync() of a diverted request, in terms of the invariants.
LEMMA SendResolvedKeeps ==
    ASSUME TypeOK, SendResolved
    PROVE  /\ OnlyFrom(base, gen) => OnlyFrom(base', gen)
           /\ base.status = NoStatus /\ ~Failed(base) =>
                  (Failed(base') => base'.status = NoStatus)
           /\ base'.usingSchemeResolver = base.usingSchemeResolver
           /\ base'.pendingResolver = NoResolver
           /\ base.pendingResolver = NoResolver => base' = base
  <1>1. base \in ImplBaseType /\ gen \in Nat
    BY DEF TypeOK
  <1>2. CASE base.pendingResolver = NoResolver
    BY <1>2 DEF SendResolved
  <1>3. CASE base.pendingResolver # NoResolver
    <2>1. PICK result \in ResolverResults :
            base' = AcceptResult(TakeResolver(base, gen), result, responseType, gen)
      BY <1>3 DEF SendResolved
    <2>2. OnlyFrom(base, gen) => OnlyFrom(base', gen)
      BY <1>1, <2>1, ResolutionWrites
    <2>3. base.status = NoStatus /\ ~Failed(base) =>
              (Failed(base') => base'.status = NoStatus)
      BY <1>1, <2>1, ResolutionWrites
    <2>4. /\ base'.usingSchemeResolver = base.usingSchemeResolver
          /\ base'.pendingResolver = NoResolver
      BY <1>1, <2>1, ResolutionWrites
    <2>5. QED
      BY <1>3, <2>2, <2>3, <2>4
  <1>4. QED
    BY <1>2, <1>3

-----------------------------------------------------------------------------
(* Type correctness.                                                       *)

LEMMA TypeInit == Init => TypeOK
  BY FreshResponseIsEmpty, JobFields
     DEF Init, TypeOK, Sinks, WorkerStates, UrlKinds, Phases

LEMMA TypeStep == TypeOK /\ [Next]_vars => TypeOK'
  <1> SUFFICES ASSUME TypeOK, [Next]_vars PROVE TypeOK'
    OBVIOUS
  <1>a. /\ job \in Jobs /\ job.gen \in Nat /\ job.received \in Nat
        /\ job.result \in Results /\ base \in ImplBaseType
    BY JobFields DEF TypeOK
  <1> USE DEF TypeOK
  <1>1. CASE OpenDiverted
    <2>1. base' \in ImplBaseType
      BY <1>1, DivertedIsEmpty DEF OpenDiverted
    <2>2. QED
      BY <1>1, <2>1 DEF OpenDiverted, Phases
  <1>2. CASE \E url \in UrlKinds : OpenCall(url)
    BY <1>2 DEF OpenCall
  <1>3. CASE \E type \in Sinks : SetResponseType(type)
    BY <1>3 DEF SetResponseType
  <1>4. CASE Abort
    BY <1>4 DEF Abort
  <1>5. CASE SendResolved
    <2>1. base' \in ImplBaseType
      BY <1>5, ResolutionWrites DEF SendResolved
    <2>2. QED
      BY <1>5, <2>1 DEF SendResolved, Phases
  <1>6. CASE SendTransport
    <2>1. base' \in ImplBaseType
      BY <1>6 DEF SendTransport, ImplBaseType
    <2>2. job' \in Jobs
      <3>1. CASE thread
        BY <1>6, <3>1 DEF SendTransport
      <3>2. CASE ~thread
        BY <1>6, <3>2, NewJob
      <3>3. QED
        BY <3>1, <3>2
    <2>3. responseBuffer' \subseteq Nat \X Nat
      BY <1>6 DEF SendTransport
    <2>4. /\ thread' \in BOOLEAN /\ worker' \in WorkerStates
          /\ phase' \in Phases /\ alive' \in BOOLEAN
      BY <1>6 DEF SendTransport, Phases, WorkerStates, Running
    <2>5. QED
      BY <1>6, <2>1, <2>2, <2>3, <2>4 DEF SendTransport
  <1>7. CASE ClientRelease
    BY <1>7 DEF ClientRelease
  <1>8. CASE LeaveToContinuation
    BY <1>8 DEF LeaveToContinuation
  <1>9. CASE OpenBody
    <2>1. base' \in ImplBaseType /\ job' \in Jobs
      BY <1>9, FreshResponseIsEmpty, JobFields DEF OpenBody, ResetForOpen
    <2>2. HandleFor(target) \in Handles
      BY DEF HandleFor, Handles, UrlKinds
    <2>3. curl' \in Handles \cup {"null", "bare"} /\ isFile' \in BOOLEAN
      BY <1>9, <2>2 DEF OpenBody, HandleOutcomes
    <2>4. /\ client' = "idle" /\ gen' \in Nat /\ phase' \in Phases
          /\ responseBuffer' = {} /\ thread' = FALSE /\ worker' \in WorkerStates
      BY <1>9 DEF OpenBody, ThreadAfterCleanup, Phases, WorkerStates
    <2>5. UNCHANGED << responseType, cancelled, target, alive >>
      BY <1>9 DEF OpenBody
    <2>6. QED
      BY <2>1, <2>3, <2>4, <2>5
  <1>10. CASE DestroyBody
    BY <1>10 DEF DestroyBody, ThreadAfterCleanup, WorkerStates
  <1>11. CASE WorkerStart
    <2>1. \E pc \in {"check", "report"} : \E result \in Results : Reaches(pc, result)
      BY <1>11 DEF WorkerStart, Results
    <2>2. QED
      BY <1>11, <2>1, JobResult DEF WorkerStart, Reaches, WorkerStates, Running
  <1>12. CASE WorkerCheck
    <2>1. \E pc \in {"perform", "report"} : \E result \in Results : Reaches(pc, result)
      BY <1>12 DEF WorkerCheck, Results
    <2>2. QED
      BY <1>12, <2>1, JobResult DEF WorkerCheck, Reaches, WorkerStates, Running
  <1>13. CASE StatusLine
    <2>1. base' \in ImplBaseType
      BY <1>13, JobFields DEF StatusLine, ImplBaseType, NoOne
    <2>2. QED
      BY <1>13, <2>1 DEF StatusLine, CallingBack
  <1>14. CASE HeaderLine
    <2>1. base' \in ImplBaseType
      BY <1>14, JobFields DEF HeaderLine, ImplBaseType
    <2>2. QED
      BY <1>14, <2>1 DEF HeaderLine, CallingBack
  <1>15. CASE BodyPiece
    <2>1. job.gen \in Nat /\ job.received + 1 \in Nat
      BY <1>a
    <2>2. base' \in ImplBaseType /\ responseBuffer' \subseteq Nat \X Nat
      BY <1>15, <2>1 DEF BodyPiece, ImplBaseType
    <2>3. job' \in Jobs
      BY <1>15 DEF BodyPiece, Jobs
    <2>4. QED
      BY <1>15, <2>2, <2>3 DEF BodyPiece, CallingBack
  <1>20. CASE WorkerPerform
    <2>1. \E pc \in {"check", "report"} : \E result \in Results : Reaches(pc, result)
      BY <1>20 DEF WorkerPerform, Results
    <2>2. QED
      BY <1>20, <2>1, JobResult DEF WorkerPerform, Reaches, WorkerStates, Running
  <1>21. CASE WorkerReport
    <2>1. Reaches("complete", job.result) /\ UNCHANGED responseBuffer
      BY <1>21 DEF WorkerReport
    <2>2. job' \in Jobs /\ worker' \in WorkerStates
      BY <2>1, JobResult, JobFields DEF WorkerStates, Running
    <2>3. base' \in ImplBaseType
      <3>1. CASE \E symbol \in ErrorSymbols : base' = SetError(base, symbol, job.gen)
        BY <1>a, <3>1, SetErrorType
      <3>2. CASE \E code \in StatusCodes :
                   base' = [base EXCEPT !.status = [code |-> code, of |-> job.gen]]
        BY <1>a, <3>2, SetStatusWrites
      <3>3. QED
        BY <1>21, <3>1, <3>2, ReportCases
    <2>4. QED
      BY <2>1, <2>2, <2>3 DEF Reaches
  <1>16. CASE WorkerComplete
    BY <1>16 DEF WorkerComplete, WorkerStates, Running, Phases
  <1>17. CASE ContinuationReturns
    BY <1>17 DEF ContinuationReturns, WorkerStates
  <1>18. CASE UNCHANGED vars
    BY <1>18 DEF vars
  <1>19. QED
    BY NextCases, <1>1, <1>2, <1>3, <1>4, <1>5, <1>6, <1>7, <1>8, <1>9, <1>10,
       <1>11, <1>12, <1>13, <1>14, <1>15, <1>16, <1>17, <1>18, <1>20, <1>21

\* Every variable keeps its type, whatever the client does.
THEOREM TypeCorrect == Spec => []TypeOK
  BY TypeInit, TypeStep, PTL DEF Spec

-----------------------------------------------------------------------------
(* The worker and the memory it works on.                                  *)

\* A worker that reaches a place of its loop was running and stays on its job.
LEMMA ReachesKeeps ==
    ASSUME TypeOK, NEW pc, NEW result \in Results, Reaches(pc, result),
           worker \in Running, WorkerNeverOutlivesImpl
    PROVE  WorkerNeverOutlivesImpl'
  BY JobResult DEF WorkerNeverOutlivesImpl, Reaches

LEMMA OutlivesStep ==
    TypeOK /\ WorkerNeverOutlivesImpl /\ [Next]_vars => WorkerNeverOutlivesImpl'
  <1> SUFFICES ASSUME TypeOK, WorkerNeverOutlivesImpl, [Next]_vars
               PROVE  WorkerNeverOutlivesImpl'
    OBVIOUS
  <1>1. CASE OpenDiverted
    BY <1>1 DEF OpenDiverted, WorkerNeverOutlivesImpl
  <1>2. CASE \E url \in UrlKinds : OpenCall(url)
    BY <1>2 DEF OpenCall, WorkerNeverOutlivesImpl
  <1>3. CASE \E type \in Sinks : SetResponseType(type)
    BY <1>3 DEF SetResponseType, WorkerNeverOutlivesImpl
  <1>4. CASE Abort
    BY <1>4 DEF Abort, WorkerNeverOutlivesImpl
  <1>5. CASE SendResolved
    BY <1>5 DEF SendResolved, WorkerNeverOutlivesImpl
  \* A new thread gets the handle that is there; the old one, if there is one,
  \* goes on as before.
  <1>6. CASE SendTransport
    <2>1. CASE thread
      BY <1>6, <2>1 DEF SendTransport, WorkerNeverOutlivesImpl
    <2>2. CASE ~thread
      <3>1. job'.curl = curl
        BY <1>6, <2>2, NewJob
      <3>2. thread' = TRUE /\ client' = "idle" /\ curl' = curl
        BY <1>6, <2>2 DEF SendTransport, ClientCanCall
      <3>3. QED
        BY <3>1, <3>2 DEF WorkerNeverOutlivesImpl
    <2>3. QED
      BY <2>1, <2>2
  <1>7. CASE ClientRelease
    BY <1>7 DEF ClientRelease, WorkerNeverOutlivesImpl
  <1>8. CASE LeaveToContinuation
    BY <1>8 DEF LeaveToContinuation, WorkerNeverOutlivesImpl
  \* The join has returned: there is no worker any more.
  <1>9. CASE OpenBody
    BY <1>9 DEF OpenBody, WorkerNeverOutlivesImpl, Running
  <1>10. CASE DestroyBody
    BY <1>10 DEF DestroyBody, WorkerNeverOutlivesImpl, Running
  <1>11. CASE WorkerStart
    <2>1. /\ worker \in Running
          /\ \E pc, result : result \in Results /\ Reaches(pc, result)
      BY <1>11 DEF WorkerStart, Running, Results
    <2>2. QED
      BY <2>1, ReachesKeeps
  <1>12. CASE WorkerCheck
    <2>1. /\ worker \in Running
          /\ \E pc, result : result \in Results /\ Reaches(pc, result)
      BY <1>12 DEF WorkerCheck, Running, Results
    <2>2. QED
      BY <2>1, ReachesKeeps
  <1>13. CASE StatusLine \/ HeaderLine
    BY <1>13 DEF StatusLine, HeaderLine, CallingBack, WorkerNeverOutlivesImpl
  <1>14. CASE BodyPiece
    <2>1. job'.curl = job.curl
      BY <1>14 DEF BodyPiece, TypeOK, Jobs
    <2>2. QED
      BY <1>14, <2>1 DEF BodyPiece, CallingBack, WorkerNeverOutlivesImpl
  <1>15. CASE WorkerPerform
    <2>1. /\ worker \in Running
          /\ \E pc, result : result \in Results /\ Reaches(pc, result)
      BY <1>15 DEF WorkerPerform, Running, Results
    <2>2. QED
      BY <2>1, ReachesKeeps
  <1>16. CASE WorkerReport
    <2>1. worker \in Running /\ job.result \in Results /\ Reaches("complete", job.result)
      BY <1>16, JobFields DEF WorkerReport, Running, TypeOK
    <2>2. QED
      BY <2>1, ReachesKeeps
  <1>17. CASE WorkerComplete
    BY <1>17 DEF WorkerComplete, WorkerNeverOutlivesImpl, Running
  <1>18. CASE ContinuationReturns
    BY <1>18 DEF ContinuationReturns, WorkerNeverOutlivesImpl, Running
  <1>19. CASE UNCHANGED vars
    BY <1>19 DEF vars, WorkerNeverOutlivesImpl
  <1>20. QED
    BY NextCases, <1>1, <1>2, <1>3, <1>4, <1>5, <1>6, <1>7, <1>8, <1>9, <1>10,
       <1>11, <1>12, <1>13, <1>14, <1>15, <1>16, <1>17, <1>18, <1>19

\* The raw `this` that the worker works on is good for as long as it runs, for
\* every client: Cleanup joins before Open() and ~Impl touch what it uses.
THEOREM WorkerSafe == Spec => []WorkerNeverOutlivesImpl
  <1>1. Init => WorkerNeverOutlivesImpl
    BY DEF Init, WorkerNeverOutlivesImpl, Running
  <1>2. QED
    BY <1>1, OutlivesStep, TypeCorrect, PTL DEF Spec

-----------------------------------------------------------------------------
(* What holds whatever the client does.                                    *)
(*                                                                         *)
(* The first invariant ties the phase of the request to where the worker   *)
(* is, as far as the request goes to a transport: a diverted Open() may    *)
(* have left an old worker behind.  The second says what the worker has in *)
(* hand.                                                                   *)

Transferring == {"start", "check", "perform", "report", "complete"}

\* A transport's request is in flight exactly while the worker is in its
\* transfer; a thread is there from SendAsync() to the next join, and only then.
Flow ==
    /\ thread <=> worker # "none"
    /\ phase = "new" => curl = "null"
    /\ base.usingSchemeResolver => phase \in {"opened", "settled"}
    /\ ~base.usingSchemeResolver =>
          /\ phase = "sent" <=> worker \in Transferring
          /\ worker \in Transferring => job.gen = gen
          /\ phase \in {"new", "opened"} => ~thread
          /\ phase \in {"sent", "settled"} /\ client # "destroyed" => thread

\* A failure in hand is in the response before the task completes, and a
\* transfer sent after an Abort has nothing but a failure in hand.
Outcome ==
    /\ worker \in {"report", "complete"} => job.result # ""
    /\ worker = "complete" /\ job.result # "OK" /\ ~base.usingSchemeResolver =>
          Failed(base)
    /\ job.doomed => cancelled /\ worker # "perform"
    /\ DoomedSendFetchesNothing

Always == TypeOK /\ WorkerNeverOutlivesImpl /\ Flow /\ Outcome

\* A join that returns finds no transfer.
LEMMA JoinedMeansIdle ==
    ASSUME Flow, JoinReturns
    PROVE  worker \in {"none", "exited"} /\ phase # "sent"
  BY DEF Flow, JoinReturns, Transferring

\* A transport that is sent has a thread in its way or was just opened.
LEMMA SendCases ==
    ASSUME Always, SendTransport
    PROVE  /\ ~base.usingSchemeResolver
           /\ ~thread <=> phase = "opened"
           /\ ~thread => worker = "none"
  BY DEF Always, TypeOK, Phases, Flow, SendTransport, ClientCanCall

LEMMA FlowStep ==
    ASSUME Always, [Next]_vars
    PROVE  Flow'
  <1> USE DEF Always, Flow
  \* A diverted Open() leaves the old worker where it is.
  <1>1. CASE OpenDiverted
    <2>1. base'.usingSchemeResolver
      BY <1>1, DivertedIsEmpty DEF OpenDiverted, TypeOK
    <2>2. phase' = "opened" /\ UNCHANGED << thread, worker >>
      BY <1>1 DEF OpenDiverted
    <2>3. QED
      BY <2>1, <2>2
  <1>2. CASE \/ \E url \in UrlKinds : OpenCall(url)
             \/ ClientRelease \/ LeaveToContinuation
    <2>1. /\ UNCHANGED << base, curl, thread, worker, job, gen, phase >>
          /\ client # "destroyed"
      BY <1>2 DEF OpenCall, ClientRelease, LeaveToContinuation, ClientCanCall
    <2>2. QED
      BY <2>1
  <1>3. CASE \E type \in Sinks : SetResponseType(type)
    BY <1>3 DEF SetResponseType
  <1>4. CASE Abort
    BY <1>4 DEF Abort
  <1>5. CASE SendResolved
    <2>1. base.usingSchemeResolver /\ base'.usingSchemeResolver
      BY <1>5, SendResolvedKeeps DEF SendResolved
    <2>2. phase' = "settled" /\ UNCHANGED << worker, thread >>
      BY <1>5 DEF SendResolved
    <2>3. QED
      BY <2>1, <2>2
  <1>6. CASE SendTransport
    <2>1. base'.usingSchemeResolver = base.usingSchemeResolver
      BY <1>6 DEF SendTransport, TypeOK, ImplBaseType
    <2>2. CASE thread
      <3>1. UNCHANGED << curl, thread, worker, job, client, gen, phase >>
        BY <1>6, <2>2 DEF SendTransport
      <3>2. QED
        BY <2>1, <3>1
    <2>3. CASE ~thread
      <3>1. phase = "opened" /\ ~base.usingSchemeResolver
        BY <1>6, <2>3, SendCases
      <3>2. job'.gen = gen
        BY <1>6, <2>3, NewJob
      <3>3. thread' = TRUE /\ worker' = "start" /\ phase' = "sent" /\ gen' = gen
        BY <1>6, <2>3 DEF SendTransport
      <3>4. QED
        BY <2>1, <3>1, <3>2, <3>3 DEF Transferring
    <2>4. QED
      BY <2>2, <2>3
  <1>9. CASE OpenBody
    <2>1. /\ thread' = FALSE /\ worker' = "none" /\ phase' = "opened"
          /\ base' = FreshResponse
      BY <1>9 DEF OpenBody, ThreadAfterCleanup, ResetForOpen
    <2>2. QED
      BY <2>1, FreshResponseIsEmpty DEF Transferring
  <1>10. CASE DestroyBody
    <2>1. /\ thread' = FALSE /\ worker' = "none" /\ client' = "destroyed"
          /\ curl' = "null" /\ UNCHANGED << phase, base, job, gen >>
      BY <1>10 DEF DestroyBody, ThreadAfterCleanup
    <2>2. phase # "sent"
      BY <1>10, JoinedMeansIdle DEF DestroyBody
    <2>3. QED
      BY <2>1, <2>2 DEF Transferring
  \* Inside the loop nothing that Flow speaks of changes.
  <1>11. ASSUME NEW pc \in Transferring, NEW result \in Results,
                Reaches(pc, result), worker \in Transferring,
                base'.usingSchemeResolver = base.usingSchemeResolver
         PROVE  Flow'
    BY <1>11, JobResult DEF Reaches, Transferring
  <1>12. CASE WorkerStart \/ WorkerCheck \/ WorkerPerform
    <2>1. /\ worker \in Transferring /\ base' = base
          /\ \E pc \in Transferring, result \in Results : Reaches(pc, result)
      BY <1>12 DEF WorkerStart, WorkerCheck, WorkerPerform, Transferring, Results
    <2>2. QED
      BY <2>1, <1>11
  <1>13. CASE StatusLine \/ HeaderLine \/ BodyPiece
    <2>1. base'.usingSchemeResolver = base.usingSchemeResolver
      BY <1>13 DEF StatusLine, HeaderLine, BodyPiece, TypeOK, ImplBaseType
    <2>2. job'.gen = job.gen
      BY <1>13 DEF StatusLine, HeaderLine, BodyPiece, TypeOK, Jobs
    <2>3. QED
      BY <1>13, <2>1, <2>2 DEF StatusLine, HeaderLine, BodyPiece, CallingBack
  <1>14. CASE WorkerReport
    <2>1. base'.usingSchemeResolver = base.usingSchemeResolver
      BY <1>14, ReportKeeps
    <2>2. /\ worker \in Transferring /\ job.result \in Results
          /\ "complete" \in Transferring /\ Reaches("complete", job.result)
      BY <1>14, JobFields DEF WorkerReport, Transferring, TypeOK
    <2>3. QED
      BY <1>11, <2>1, <2>2
  <1>15. CASE WorkerComplete
    <2>1. /\ worker = "complete" /\ worker' = "continuation"
          /\ phase' = IF job.gen = gen THEN "settled" ELSE phase
          /\ UNCHANGED << base, curl, thread, job, client, gen >>
      BY <1>15 DEF WorkerComplete
    <2>2. QED
      BY <2>1 DEF Transferring
  <1>16. CASE ContinuationReturns
    <2>1. /\ worker = "continuation" /\ worker' \in {"continuation", "exited"}
          /\ UNCHANGED << base, curl, thread, job, client, gen, phase >>
      BY <1>16 DEF ContinuationReturns
    <2>2. QED
      BY <2>1 DEF Transferring
  <1>17. CASE UNCHANGED vars
    BY <1>17 DEF vars
  <1>18. QED
    BY NextCases, <1>1, <1>2, <1>3, <1>4, <1>5, <1>6, <1>9, <1>10,
       <1>12, <1>13, <1>14, <1>15, <1>16, <1>17

LEMMA OutcomeStep ==
    ASSUME Always, [Next]_vars
    PROVE  Outcome'
  <1> USE DEF Always, Outcome, DoomedSendFetchesNothing
  <1>a. job \in Jobs /\ job.result \in Results
    BY JobFields DEF TypeOK
  \* A step that leaves these alone leaves Outcome alone.
  <1>b. ASSUME UNCHANGED job, cancelled => cancelled',
               worker' = worker \/ worker' \notin {"perform", "report", "complete"},
               \/ base'.usingSchemeResolver
               \/ /\ base'.usingSchemeResolver = base.usingSchemeResolver
                  /\ base'.error = base.error
        PROVE  Outcome'
    BY <1>b DEF Failed
  <1>1. CASE OpenDiverted
    <2>1. base'.usingSchemeResolver
      BY <1>1, DivertedIsEmpty DEF OpenDiverted, TypeOK
    <2>2. UNCHANGED << job, cancelled, worker >>
      BY <1>1 DEF OpenDiverted
    <2>3. QED
      BY <1>b, <2>1, <2>2
  <1>2. CASE \/ \E url \in UrlKinds : OpenCall(url)
             \/ \E type \in Sinks : SetResponseType(type)
             \/ ClientRelease \/ LeaveToContinuation
    <2>1. UNCHANGED << job, cancelled, worker, base >>
      BY <1>2 DEF OpenCall, SetResponseType, ClientRelease, LeaveToContinuation
    <2>2. QED
      BY <1>b, <2>1
  <1>4. CASE Abort
    <2>1. cancelled' /\ UNCHANGED << job, worker, base >>
      BY <1>4 DEF Abort
    <2>2. QED
      BY <1>b, <2>1
  <1>5. CASE SendResolved
    <2>1. base'.usingSchemeResolver
      BY <1>5, SendResolvedKeeps DEF SendResolved
    <2>2. UNCHANGED << job, cancelled, worker >>
      BY <1>5 DEF SendResolved
    <2>3. QED
      BY <1>b, <2>1, <2>2
  <1>6. CASE SendTransport
    <2>1. CASE thread
      <3>1. /\ base'.usingSchemeResolver = base.usingSchemeResolver
            /\ base'.error = base.error
        BY <1>6 DEF SendTransport, TypeOK, ImplBaseType
      <3>2. UNCHANGED << job, cancelled, worker >>
        BY <1>6, <2>1 DEF SendTransport
      <3>3. QED
        BY <1>b, <3>1, <3>2
    <2>2. CASE ~thread
      <3>1. job'.doomed = cancelled /\ job'.received = 0 /\ job'.result = ""
        BY <1>6, <2>2, NewJob
      <3>2. worker' = "start" /\ cancelled' = cancelled
        BY <1>6, <2>2 DEF SendTransport
      <3>3. QED
        BY <3>1, <3>2
    <2>3. QED
      BY <2>1, <2>2
  <1>9. CASE OpenBody
    <2>1. worker' = "none" /\ job' = NoJob
      BY <1>9 DEF OpenBody
    <2>2. QED
      BY <2>1, JobFields
  <1>10. CASE DestroyBody
    <2>1. cancelled' /\ worker' = "none" /\ UNCHANGED << job, base >>
      BY <1>10 DEF DestroyBody
    <2>2. QED
      BY <1>b, <2>1
  <1>11. CASE WorkerStart
    <2>1. /\ UNCHANGED cancelled
          /\ \/ Reaches("check", "")
             \/ Reaches("report", "CURLE_OUT_OF_MEMORY")
             \/ Reaches("report", "CURLE_2")
      BY <1>11 DEF WorkerStart, Reaches
    <2>2. /\ job'.doomed = job.doomed /\ job'.received = job.received
          /\ \/ worker' = "check" /\ job'.result = ""
             \/ /\ worker' = "report"
                /\ job'.result \in {"CURLE_OUT_OF_MEMORY", "CURLE_2"}
      BY <2>1, JobResult DEF Results
    <2>3. QED
      BY <2>1, <2>2
  \* The test of the loop: a doomed transfer gets no further.
  <1>12. CASE WorkerCheck
    <2>1. /\ UNCHANGED cancelled
          /\ \/ cancelled /\ Reaches("report", "CURLE_ABORTED_BY_CALLBACK")
             \/ ~cancelled /\ Reaches("perform", "")
      BY <1>12 DEF WorkerCheck, Reaches
    <2>2. /\ job'.doomed = job.doomed /\ job'.received = job.received
          /\ \/ /\ worker' = "report"
                /\ job'.result = "CURLE_ABORTED_BY_CALLBACK"
             \/ ~cancelled /\ worker' = "perform" /\ job'.result = ""
      BY <2>1, JobResult DEF Results
    <2>3. QED
      BY <2>1, <2>2
  <1>13. CASE StatusLine \/ HeaderLine
    <2>1. UNCHANGED << job, cancelled, worker >> /\ worker = "perform"
      BY <1>13 DEF StatusLine, HeaderLine, CallingBack
    <2>2. QED
      BY <2>1
  <1>14. CASE BodyPiece
    <2>1. /\ worker' = "perform" /\ worker = "perform" /\ job'.doomed = job.doomed
      BY <1>a, <1>14 DEF BodyPiece, CallingBack, Jobs
    <2>2. QED
      BY <2>1
  <1>15. CASE WorkerPerform
    <2>1. /\ worker = "perform"
          /\ \E pc \in {"check", "report"}, result \in Results :
                /\ Reaches(pc, result)
                /\ pc = "report" => result # ""
      BY <1>15 DEF WorkerPerform, Results
    <2>2. /\ job'.doomed = job.doomed /\ worker' \in {"check", "report"}
          /\ worker' = "report" => job'.result # ""
      BY <2>1, JobResult
    <2>3. QED
      BY <2>1, <2>2
  <1>16. CASE WorkerReport
    <2>1. worker = "report" /\ Reaches("complete", job.result)
      BY <1>16 DEF WorkerReport
    <2>2. /\ job'.doomed = job.doomed /\ job'.received = job.received
          /\ job'.result = job.result /\ worker' = "complete"
          /\ UNCHANGED cancelled
      BY <1>a, <2>1, JobResult DEF Reaches
    <2>3. job.result # "OK" => Failed(base')
      BY <1>16, <2>1, ReportKeeps
    <2>4. QED
      BY <2>1, <2>2, <2>3
  <1>17. CASE WorkerComplete
    <2>1. worker' = "continuation" /\ UNCHANGED << job, cancelled, base >>
      BY <1>17 DEF WorkerComplete
    <2>2. QED
      BY <1>b, <2>1
  <1>18. CASE ContinuationReturns
    <2>1. /\ worker' = worker \/ worker' = "exited"
          /\ UNCHANGED << job, cancelled, base >>
      BY <1>18 DEF ContinuationReturns
    <2>2. QED
      BY <1>b, <2>1
  <1>19. CASE UNCHANGED vars
    BY <1>19, <1>b DEF vars
  <1>20. QED
    BY NextCases, <1>1, <1>2, <1>4, <1>5, <1>6, <1>9, <1>10,
       <1>11, <1>12, <1>13, <1>14, <1>15, <1>16, <1>17, <1>18, <1>19

LEMMA AlwaysInit == Init => Always
  <1> SUFFICES ASSUME Init PROVE Always
    OBVIOUS
  <1>1. TypeOK
    BY TypeInit
  <1>2. WorkerNeverOutlivesImpl
    BY DEF Init, WorkerNeverOutlivesImpl, Running
  <1>3. Flow
    BY FreshResponseIsEmpty DEF Init, Flow, Transferring
  <1>4. Outcome
    BY JobFields DEF Init, Outcome, DoomedSendFetchesNothing
  <1>5. QED
    BY <1>1, <1>2, <1>3, <1>4 DEF Always

LEMMA AlwaysStep == Always /\ [Next]_vars => Always'
  BY TypeStep, OutlivesStep, FlowStep, OutcomeStep DEF Always

LEMMA AlwaysInvariance == Spec => []Always
  BY AlwaysInit, AlwaysStep, PTL DEF Spec

\* Whatever the client does, nothing is fetched by a transfer sent after Abort(),
\* however much later: the next test of the source comes before the first byte.
THEOREM AbortIsForGood == Spec => []DoomedSendFetchesNothing
  <1>1. Always => DoomedSendFetchesNothing
    BY DEF Always, Outcome
  <1>2. QED
    BY <1>1, AlwaysInvariance, PTL

\* A client that opens before it sends, and keeps its copy until the task is
\* done, never makes m_thread be replaced or joined in a way that terminates,
\* not even by opening a resolver's URL while the worker runs.
THEOREM NeverTerminates ==
    ASSUME "Resend" \notin ClientMay, "DropInContinuation" \notin ClientMay
    PROVE  Spec => []NoTerminate
  <1> DEFINE Kept == alive /\ client # "gone"
  <1>1. Init => Kept
    BY DEF Init
  <1>2. Always /\ Kept /\ [Next]_vars => Kept'
    <2> SUFFICES ASSUME Always, Kept, [Next]_vars PROVE Kept'
      OBVIOUS
    <2>1. CASE SendTransport
      <3>1. ~thread
        BY <2>1, SendCases DEF SendTransport
      <3>2. QED
        BY <2>1, <3>1 DEF SendTransport
    <2>2. CASE LeaveToContinuation
      BY <2>2 DEF LeaveToContinuation
    <2>3. CASE ContinuationReturns
      BY <2>3 DEF ContinuationReturns
    <2>4. CASE \/ OpenDiverted \/ SendResolved \/ OpenBody \/ DestroyBody
               \/ \E url \in UrlKinds : OpenCall(url)
               \/ \E type \in Sinks : SetResponseType(type)
               \/ Abort \/ ClientRelease
      BY <2>4 DEF OpenDiverted, SendResolved, OpenBody, DestroyBody, OpenCall,
                  SetResponseType, Abort, ClientRelease
    <2>5. CASE \/ WorkerStart \/ WorkerCheck \/ StatusLine \/ HeaderLine
               \/ BodyPiece \/ WorkerPerform \/ WorkerReport \/ WorkerComplete
      BY <2>5 DEF WorkerStart, WorkerCheck, StatusLine, HeaderLine, BodyPiece,
                  WorkerPerform, WorkerReport, WorkerComplete, Reaches, CallingBack
    <2>6. CASE UNCHANGED vars
      BY <2>6 DEF vars
    <2>7. QED
      BY NextCases, <2>1, <2>2, <2>3, <2>4, <2>5, <2>6
  <1>3. Kept => NoTerminate
    BY DEF NoTerminate
  <1>4. QED
    BY <1>1, <1>2, <1>3, AlwaysInvariance, PTL DEF Spec

-----------------------------------------------------------------------------
(* What holds of a client that opens a resolver's URL only when no         *)
(* transfer is in flight ("DivertInFlight" \notin ClientMay), whatever     *)
(* else it does.                                                           *)

\* The transfer whose result the response holds, or is about to.
Answered == phase = "settled" /\ ~base.usingSchemeResolver

\* The response is written by the current request only; it has neither status
\* nor error until there is an outcome, then one of them, and never both.
Response ==
    /\ base.usingSchemeResolver => worker \notin Transferring
    /\ OnlyFrom(base, gen)
    /\ ~base.usingSchemeResolver => PiecesOf(responseBuffer, gen)
    /\ phase \in {"new", "opened"} \/ worker \in Transferring \ {"complete"} =>
          base.status = NoStatus /\ ~Failed(base)
    /\ worker = "complete" \/ Answered => gen \in {base.status.of, base.error.of}
    /\ base.pendingResolver # NoResolver =>
          phase = "opened" /\ base.usingSchemeResolver
    /\ ErrorMeansZeroStatus

Inv == Always /\ Response

\* Nothing is in flight when a diverted request is opened.
LEMMA DivertedWhenIdle ==
    ASSUME "DivertInFlight" \notin ClientMay, Inv, OpenDiverted
    PROVE  worker \notin Transferring /\ phase # "sent"
  BY DEF Inv, Always, Flow, Response, OpenDiverted

\* A transfer in flight is that of the current request.
LEMMA TransferIsCurrent ==
    ASSUME Inv, worker \in Transferring
    PROVE  job.gen = gen /\ ~base.usingSchemeResolver /\ phase = "sent"
  BY DEF Inv, Always, Flow, Response

LEMMA ResponseStep ==
    ASSUME "DivertInFlight" \notin ClientMay, Inv, [Next]_vars
    PROVE  Response'
  <1> USE DEF Response, ErrorMeansZeroStatus, Answered
  <1>a. base \in ImplBaseType /\ job \in Jobs /\ gen \in Nat /\ job.gen \in Nat
    BY JobFields DEF Inv, Always, TypeOK
  <1>r. Response /\ Flow /\ TypeOK
    BY DEF Inv, Always
  \* A step that leaves these alone leaves Response alone.
  <1>b. ASSUME UNCHANGED << base, responseBuffer, gen, phase >>,
               worker' = worker \/ worker' \notin Transferring
        PROVE  Response'
    BY <1>b, <1>r DEF Transferring
  <1>1. CASE OpenDiverted
    <2>0. base' = BeginSchemeResolution(base, 1)
      BY <1>1 DEF OpenDiverted
    <2>1. /\ OnlyFrom(base', gen')
          /\ base'.status = NoStatus /\ ~Failed(base')
          /\ base'.usingSchemeResolver
      BY <1>a, <2>0, DivertedIsEmpty
    <2>2. phase' = "opened" /\ worker' \notin Transferring
      BY <1>1, DivertedWhenIdle DEF OpenDiverted
    <2>3. worker' # "complete"
      BY <2>2 DEF Transferring
    <2>4. QED
      BY <2>1, <2>2, <2>3
  <1>2. CASE \/ \E url \in UrlKinds : OpenCall(url)
             \/ \E type \in Sinks : SetResponseType(type)
             \/ Abort \/ ClientRelease \/ LeaveToContinuation
    <2>1. UNCHANGED << base, responseBuffer, gen, phase, worker >>
      BY <1>2 DEF OpenCall, SetResponseType, Abort, ClientRelease,
                  LeaveToContinuation
    <2>2. QED
      BY <1>b, <2>1
  \* The resolver is called on a request that is open, so on an empty response.
  <1>5. CASE SendResolved
    <2>1. /\ phase' = "settled" /\ UNCHANGED << responseBuffer, gen, worker >>
          /\ base.usingSchemeResolver
      BY <1>5 DEF SendResolved
    <2>2. worker \notin Transferring
      BY <1>r, <2>1
    <2>3. /\ OnlyFrom(base', gen) /\ base'.usingSchemeResolver
          /\ base'.pendingResolver = NoResolver
      BY <1>5, <1>r, <2>1, SendResolvedKeeps
    <2>4. Failed(base') => base'.status = NoStatus
      <3>1. CASE base.pendingResolver = NoResolver
        BY <1>5, <1>r, <3>1, SendResolvedKeeps
      <3>2. CASE base.pendingResolver # NoResolver
        BY <1>5, <1>r, <3>2, SendResolvedKeeps
      <3>3. QED
        BY <3>1, <3>2
    <2>5. worker' # "complete" /\ worker' \notin Transferring
      BY <2>1, <2>2 DEF Transferring
    <2>6. QED
      BY <2>1, <2>3, <2>4, <2>5
  \* A second SendAsync() clears one body more and has no other effect.
  <1>6. CASE SendTransport
    <2>1. /\ base' = base \/ base' = [base EXCEPT !.responseString = {}]
          /\ responseBuffer' = responseBuffer \/ responseBuffer' = {}
          /\ gen' = gen
      BY <1>6 DEF SendTransport
    <2>2. ~base.usingSchemeResolver
      BY <1>6, SendCases DEF Inv
    <2>3. /\ OnlyFrom(base', gen) /\ PiecesOf(responseBuffer', gen)
          /\ base'.usingSchemeResolver = base.usingSchemeResolver
          /\ base'.pendingResolver = base.pendingResolver
          /\ base'.status = base.status /\ base'.error = base.error
      BY <1>a, <1>r, <2>1, <2>2 DEF ImplBaseType, OnlyFrom, PiecesOf
    <2>4. CASE thread
      <3>1. UNCHANGED << worker, phase >>
        BY <1>6, <2>4 DEF SendTransport
      <3>2. QED
        BY <1>r, <2>1, <2>2, <2>3, <3>1 DEF Failed
    <2>5. CASE ~thread
      <3>1. phase = "opened" /\ phase' = "sent" /\ worker' = "start"
        BY <1>6, <2>5, SendCases DEF SendTransport, Inv
      <3>2. base.status = NoStatus /\ ~Failed(base) /\ base.pendingResolver = NoResolver
        BY <1>r, <2>2, <3>1
      <3>3. QED
        BY <2>1, <2>2, <2>3, <3>1, <3>2 DEF Failed
    <2>6. QED
      BY <2>4, <2>5
  <1>9. CASE OpenBody
    <2>1. base' = FreshResponse /\ responseBuffer' = {} /\ worker' = "none"
          /\ phase' = "opened"
      BY <1>9 DEF OpenBody, ResetForOpen
    <2>2. QED
      BY <2>1, FreshResponseIsEmpty DEF PiecesOf, Transferring
  <1>10. CASE DestroyBody
    <2>1. UNCHANGED << base, responseBuffer, gen, phase >> /\ worker' = "none"
      BY <1>10 DEF DestroyBody
    <2>2. QED
      BY <1>b, <2>1 DEF Transferring
  \* What the worker writes it writes for its own request, which is the current.
  <1>c. worker \in Transferring => job.gen = gen /\ ~base.usingSchemeResolver
    BY TransferIsCurrent
  <1>11. CASE WorkerStart \/ WorkerCheck \/ WorkerPerform
    <2>1. /\ UNCHANGED << base, responseBuffer, gen, phase >>
          /\ worker \in Transferring \ {"complete"}
          /\ worker' \in Transferring \ {"complete"}
      BY <1>11 DEF WorkerStart, WorkerCheck, WorkerPerform, Reaches, Transferring
    <2>2. QED
      BY <1>r, <1>c, <2>1
  <1>12. CASE StatusLine \/ HeaderLine \/ BodyPiece
    <2>1. /\ worker = "perform" /\ UNCHANGED << gen, phase, worker >>
          /\ job.gen = gen /\ ~base.usingSchemeResolver
      BY <1>12, <1>c DEF StatusLine, HeaderLine, BodyPiece, CallingBack, Transferring
    <2>2. /\ base'.status = base.status /\ base'.error = base.error
          /\ base'.pendingResolver = base.pendingResolver
          /\ base'.usingSchemeResolver = base.usingSchemeResolver
      BY <1>a, <1>12 DEF StatusLine, HeaderLine, BodyPiece, ImplBaseType
    <2>3. OnlyFrom(base', gen)
      <3>1. CASE StatusLine \/ HeaderLine
        BY <1>a, <1>r, <2>1, <3>1 DEF StatusLine, HeaderLine, ImplBaseType, OnlyFrom
      <3>2. CASE BodyPiece
        BY <1>a, <1>r, <2>1, <3>2 DEF BodyPiece, ImplBaseType, OnlyFrom, PiecesOf
      <3>3. QED
        BY <1>12, <3>1, <3>2
    <2>4. PiecesOf(responseBuffer', gen)
      BY <1>12, <1>r, <2>1 DEF StatusLine, HeaderLine, BodyPiece, PiecesOf
    <2>5. base.status = NoStatus /\ ~Failed(base)
      BY <1>r, <2>1 DEF Transferring
    <2>6. QED
      BY <1>r, <2>1, <2>2, <2>3, <2>4, <2>5 DEF Failed
  <1>13. CASE WorkerReport
    <2>1. /\ worker = "report" /\ worker' = "complete" /\ UNCHANGED << gen, phase, responseBuffer >>
          /\ job.gen = gen /\ ~base.usingSchemeResolver
      BY <1>13, <1>c DEF WorkerReport, Reaches, Transferring
    <2>2. base.status = NoStatus /\ ~Failed(base)
      BY <1>r, <2>1 DEF Transferring
    <2>3. OnlyFrom(base', gen) /\ gen \in {base'.status.of, base'.error.of}
      BY <1>13, <1>r, <2>1, ReportKeeps
    <2>4. Failed(base') => base'.status = NoStatus
      BY <1>13, <1>r, <2>2, ReportKeeps
    <2>5. /\ base'.usingSchemeResolver = base.usingSchemeResolver
          /\ base'.pendingResolver = base.pendingResolver
      BY <1>13, <1>r, ReportKeeps
    <2>6. phase = "sent"
      BY <2>1, TransferIsCurrent DEF Transferring
    <2>7. QED
      BY <1>r, <2>1, <2>3, <2>4, <2>5, <2>6
  <1>14. CASE WorkerComplete
    <2>1. /\ UNCHANGED << base, responseBuffer, gen >> /\ worker' = "continuation"
          /\ worker = "complete" /\ phase' \in {"sent", "settled"}
      BY <1>14, TransferIsCurrent DEF WorkerComplete, Transferring
    <2>2. QED
      BY <1>r, <2>1, TransferIsCurrent DEF Transferring
  <1>15. CASE ContinuationReturns
    <2>1. /\ UNCHANGED << base, responseBuffer, gen, phase >>
          /\ worker' = worker \/ worker' = "exited"
      BY <1>15 DEF ContinuationReturns
    <2>2. QED
      BY <1>b, <2>1 DEF Transferring
  <1>16. CASE UNCHANGED vars
    BY <1>16, <1>b DEF vars
  <1>17. QED
    BY NextCases, <1>1, <1>2, <1>5, <1>6, <1>9, <1>10,
       <1>11, <1>12, <1>13, <1>14, <1>15, <1>16

LEMMA InvInit == Init => Inv
  <1> SUFFICES ASSUME Init PROVE Response
    BY AlwaysInit DEF Inv
  <1>1. QED
    BY FreshResponseIsEmpty
       DEF Init, Response, Answered, ErrorMeansZeroStatus, PiecesOf, Transferring

LEMMA InvStep ==
    ASSUME "DivertInFlight" \notin ClientMay PROVE Inv /\ [Next]_vars => Inv'
  <1> SUFFICES ASSUME Inv, [Next]_vars PROVE Inv'
    OBVIOUS
  <1>1. Always'
    BY AlwaysStep DEF Inv
  <1>2. QED
    BY <1>1, ResponseStep DEF Inv

LEMMA Invariance ==
    ASSUME "DivertInFlight" \notin ClientMay PROVE Spec => []Inv
  <1>1. Inv /\ [Next]_vars => Inv'
    BY InvStep
  <1>2. QED
    BY <1>1, InvInit, PTL DEF Spec

\* What the visible body of a diverted request holds is the resolver's.
LEMMA InvGivesNoLeak == Inv => NoLeakAcrossOpen
  <1> SUFFICES ASSUME Inv PROVE PiecesOf(VisibleBuffer, gen)
    BY DEF NoLeakAcrossOpen, Inv, Response
  <1>1. CASE ~base.usingSchemeResolver
    BY <1>1 DEF VisibleBuffer, Inv, Response
  <1>2. CASE base.usingSchemeResolver
    <2>1. base.resolvedBuffer \in {NoOne, gen}
      BY DEF Inv, Response, OnlyFrom
    <2>2. QED
      BY <1>2, <2>1 DEF VisibleBuffer, PiecesOf
  <1>3. QED
    BY <1>1, <1>2

\* Reusing a request never shows anything of an earlier one: Open() waits for
\* the worker before ResetForOpen, and a diverted Open() finds none in flight.
THEOREM NoLeak ==
    ASSUME "DivertInFlight" \notin ClientMay PROVE Spec => []NoLeakAcrossOpen
  BY Invariance, InvGivesNoLeak, PTL

\* An error symbol never comes with a status, from either way of answering.
THEOREM ErrorsHaveNoStatus ==
    ASSUME "DivertInFlight" \notin ClientMay PROVE Spec => []ErrorMeansZeroStatus
  <1>1. Inv => ErrorMeansZeroStatus
    BY DEF Inv, Response
  <1>2. QED
    BY <1>1, Invariance, PTL

\* Of a settled request only Open() changes the response: the worker is past its
\* last write, and a second SendAsync() has no resolver left to call.
LEMMA SettledStep ==
    ASSUME Inv, [Next]_vars, "DivertInFlight" \notin ClientMay, ~SendTransport,
           phase = "settled", phase' = "settled", gen' = gen
    PROVE  base' = base /\ responseBuffer' = responseBuffer
  <1>a. worker \notin Transferring /\ gen \in Nat
    BY TransferIsCurrent DEF Inv, Always, TypeOK
  <1>1. CASE OpenDiverted
    BY <1>1, <1>a DEF OpenDiverted
  <1>2. CASE \/ \E url \in UrlKinds : OpenCall(url)
            \/ \E type \in Sinks : SetResponseType(type)
    BY <1>2 DEF OpenCall, SetResponseType
  <1>3. CASE Abort \/ ClientRelease \/ LeaveToContinuation
    BY <1>3 DEF Abort, ClientRelease, LeaveToContinuation
  <1>4. CASE SendResolved
    <2>1. base.pendingResolver = NoResolver
      BY DEF Inv, Response
    <2>2. QED
      BY <1>4, <2>1 DEF SendResolved
  <1>6. CASE OpenBody
    BY <1>6, <1>a DEF OpenBody
  <1>7. CASE DestroyBody \/ WorkerComplete \/ ContinuationReturns
    BY <1>7 DEF DestroyBody, WorkerComplete, ContinuationReturns
  <1>8. CASE WorkerStart \/ WorkerCheck \/ WorkerPerform
    BY <1>8 DEF WorkerStart, WorkerCheck, WorkerPerform
  <1>9. CASE StatusLine \/ HeaderLine \/ BodyPiece \/ WorkerReport
    BY <1>9, <1>a DEF StatusLine, HeaderLine, BodyPiece, WorkerReport, CallingBack,
                      Transferring
  <1>10. CASE UNCHANGED vars
    BY <1>10 DEF vars
  <1>11. QED
    BY NextCases, <1>1, <1>2, <1>3, <1>4, <1>6, <1>7, <1>8, <1>9, <1>10

\* A response that has been handed out stays as it is until the next Open(), of
\* a client that opens before it sends and diverts no transfer in flight.
THEOREM SettledIsStable ==
    ASSUME "DivertInFlight" \notin ClientMay, "Resend" \notin ClientMay
    PROVE  Spec => SettledResponseIsStable
  <1>1. Inv /\ [Next]_vars =>
            [ phase = "settled" /\ phase' = "settled" /\ gen' = gen =>
                base' = base /\ responseBuffer' = responseBuffer ]_vars
    <2>1. phase = "settled" => ~SendTransport
      BY DEF SendTransport
    <2>2. QED
      BY <2>1, SettledStep
  <1>2. QED
    BY <1>1, Invariance, PTL DEF Spec, SettledResponseIsStable

-----------------------------------------------------------------------------
(* The libcurl backend implements RequestContract.                         *)

\* What a settled request shows is an answer the contract allows.
LEMMA AnswerIsAllowed ==
    ASSUME Inv PROVE Answer \in Contract!Answers(gen)
  <1>1. Writers \subseteq {gen}
    <2>1. {base.status.of, base.statusText, base.responseUrl, base.header,
           base.error.of, base.resolvedBuffer} \subseteq {NoOne, gen}
      BY DEF Inv, Response, OnlyFrom
    <2>2. \A piece \in base.responseString \cup VisibleBuffer : piece[1] = gen
      BY InvGivesNoLeak DEF NoLeakAcrossOpen, OnlyFrom, PiecesOf
    <2>3. QED
      BY <2>1, <2>2 DEF Writers
  <1>2. base.status.code \in {0, 200, 404}
    BY Fields DEF Inv, Always, TypeOK, StatusCodes
  <1>3. Failed(base) \in BOOLEAN
    BY DEF Failed
  <1>4. Failed(base) => base.status.code = 0
    BY DEF Inv, Response, ErrorMeansZeroStatus, NoStatus
  <1>5. QED
    BY <1>1, <1>2, <1>3, <1>4 DEF Contract!Answers, Answer

LEMMA AnswerIsAllowedNext == Inv' => (Answer \in Contract!Answers(gen))'
  <1>1. Inv => Answer \in Contract!Answers(gen)
    BY AnswerIsAllowed
  <1>2. QED
    BY <1>1, PTL

\* The initial states are initial in the contract.
LEMMA ContractInit == Init => Contract!Init
  BY JobFields DEF Init, Contract!Init, ContractPhase, ContractAnswer,
                   Contract!NoAnswer

\* The accessors read the response, its buffer and nothing else.
LEMMA AnswerKept ==
    ASSUME UNCHANGED << base, responseBuffer >>
    PROVE  Answer' = Answer
  BY DEF Answer, Writers, VisibleBuffer, Failed

\* A step that touches nothing the contract speaks of is a stutter of it.
LEMMA ContractStutter ==
    ASSUME UNCHANGED << gen, phase, cancelled >>, job'.doomed = job.doomed,
           phase = "settled" => Answer' = Answer
    PROVE  UNCHANGED Contract!contractVars
  BY DEF Contract!contractVars, ContractPhase, ContractAnswer

\* A transfer that has settled has written its status or its error, so clearing
\* a body takes no writer away.
LEMMA AnsweredByItself ==
    ASSUME Inv, Answered PROVE Writers = {gen} \ {NoOne}
  <1>1. {base.status.of, base.statusText, base.responseUrl, base.header,
         base.error.of, base.resolvedBuffer} \subseteq {NoOne, gen}
    BY DEF Inv, Response, OnlyFrom
  <1>2. \A piece \in base.responseString \cup VisibleBuffer : piece[1] = gen
    BY InvGivesNoLeak DEF Inv, NoLeakAcrossOpen, OnlyFrom, PiecesOf
  <1>3. gen \in {base.status.of, base.error.of}
    BY DEF Inv, Response
  <1>4. QED
    BY <1>1, <1>2, <1>3 DEF Writers

LEMMA AnsweredByItselfNext == Inv' /\ Answered' => Writers' = {gen'} \ {NoOne}
  <1>1. Inv /\ Answered => Writers = {gen} \ {NoOne}
    BY AnsweredByItself
  <1>2. (Inv /\ Answered => Writers = {gen} \ {NoOne})'
    BY <1>1, PTL
  <1>3. QED
    BY <1>2

\* A second SendAsync() ends the process; what it cleared shows in no accessor
\* that tells who answered.
LEMMA ResendStutters ==
    ASSUME Inv, Inv', SendTransport, phase # "opened"
    PROVE  UNCHANGED Contract!contractVars
  <1>1. thread /\ ~base.usingSchemeResolver
    BY SendCases DEF Inv
  <1>2. UNCHANGED << gen, phase, cancelled, job >>
    BY <1>1 DEF SendTransport
  <1>3. /\ base'.status = base.status /\ base'.error = base.error
        /\ base'.usingSchemeResolver = base.usingSchemeResolver
    BY DEF SendTransport, ImplBaseType, Inv, Always, TypeOK
  <1>4. ASSUME phase = "settled" PROVE Answer' = Answer
    <2>1. Writers = {gen} \ {NoOne} /\ Writers' = {gen} \ {NoOne}
      BY <1>1, <1>2, <1>3, <1>4, AnsweredByItself, AnsweredByItselfNext DEF Answered
    <2>2. QED
      BY <1>3, <2>1 DEF Answer, Failed
  <1>5. QED
    BY <1>2, <1>4, ContractStutter

LEMMA ContractStep ==
    ASSUME "DivertInFlight" \notin ClientMay, Inv, Inv', [Next]_vars
    PROVE  [Contract!Next]_Contract!contractVars
  <1>a. /\ job \in Jobs /\ job.result \in Results
        /\ TypeOK /\ Flow /\ Outcome
    BY JobFields DEF Inv, Always, TypeOK
  <1>b. worker \in Transferring => phase = "sent" /\ job.gen = gen
    BY TransferIsCurrent
  <1>1. CASE OpenDiverted
    <2>1. phase # "sent" /\ phase' = "opened" /\ gen' = gen + 1 /\ UNCHANGED cancelled
      BY <1>1, DivertedWhenIdle DEF OpenDiverted
    <2>2. Contract!Open
      BY <1>a, <2>1 DEF Contract!Open, Contract!InFlight, Contract!NoAnswer,
                  ContractPhase, ContractAnswer, TypeOK, Phases
    <2>3. QED
      BY <2>2 DEF Contract!Next
  <1>2. CASE OpenBody
    <2>1. phase # "sent" /\ phase' = "opened" /\ gen' = gen + 1 /\ UNCHANGED cancelled
      BY <1>2, <1>a, JoinedMeansIdle DEF OpenBody
    <2>2. Contract!Open
      BY <1>a, <2>1 DEF Contract!Open, Contract!InFlight, Contract!NoAnswer,
                  ContractPhase, ContractAnswer, TypeOK, Phases
    <2>3. QED
      BY <2>2 DEF Contract!Next
  <1>3. CASE SendTransport
    <2>1. CASE phase = "opened"
      <3>1. ~thread
        BY <1>3, <2>1, SendCases DEF Inv
      <3>2. phase' = "sent" /\ UNCHANGED << gen, cancelled >>
        BY <1>3, <3>1 DEF SendTransport
      <3>3. job'.doomed = cancelled
        BY <1>3, <1>a, <3>1, NewJob
      <3>4. Contract!Send
        BY <2>1, <3>2, <3>3 DEF Contract!Send, ContractPhase, ContractAnswer
      <3>5. QED
        BY <3>4 DEF Contract!Next
    <2>2. CASE phase # "opened"
      BY <1>3, <2>2, ResendStutters
    <2>3. QED
      BY <2>1, <2>2
  <1>4. CASE SendResolved
    <2>1. phase' = "settled" /\ UNCHANGED << gen, cancelled, job, responseBuffer >>
          /\ phase \in {"opened", "settled"}
      BY <1>4, <1>a DEF SendResolved, Flow
    <2>2. CASE phase = "opened"
      <3>1. ContractAnswer' \in Contract!Answers(gen)
        BY <2>1, AnswerIsAllowedNext DEF ContractAnswer
      <3>2. Contract!Resolve
        BY <2>1, <2>2, <3>1 DEF Contract!Resolve, ContractPhase
      <3>3. QED
        BY <3>2 DEF Contract!Next
    <2>3. CASE phase = "settled"
      <3>1. UNCHANGED base
        BY <1>4, <2>3 DEF SendResolved, Inv, Response
      <3>2. QED
        BY <2>1, <2>3, <3>1, AnswerKept, ContractStutter
    <2>4. QED
      BY <2>1, <2>2, <2>3
  <1>5. CASE WorkerComplete
    <2>1. /\ phase = "sent" /\ phase' = "settled" /\ UNCHANGED << gen, cancelled, job, base >>
      BY <1>5, <1>b DEF WorkerComplete, Transferring
    <2>2. ContractAnswer' \in Contract!Answers(gen)
      BY <2>1, AnswerIsAllowedNext DEF ContractAnswer
    <2>3. job.doomed => ContractAnswer'.failed
      <3>1. job.doomed => job.result # "OK"
        BY <1>a DEF Outcome, DoomedSendFetchesNothing
      <3>2. job.result # "OK" => Failed(base)
        BY <1>5, <1>a, TransferIsCurrent DEF WorkerComplete, Outcome, Transferring
      <3>3. ContractAnswer'.failed = Failed(base')
        BY <2>1 DEF ContractAnswer, Answer
      <3>4. QED
        BY <2>1, <3>1, <3>2, <3>3 DEF Failed
    <2>4. Contract!Settle
      BY <2>1, <2>2, <2>3 DEF Contract!Settle, Contract!InFlight, ContractPhase
    <2>5. QED
      BY <2>4 DEF Contract!Next
  <1>6. CASE Abort \/ DestroyBody
    <2>1. cancelled' = TRUE /\ UNCHANGED << gen, phase, job, base, responseBuffer >>
      BY <1>6 DEF Abort, DestroyBody
    <2>2. Contract!Abort
      BY <2>1, AnswerKept DEF Contract!Abort, ContractPhase, ContractAnswer
    <2>3. QED
      BY <2>2 DEF Contract!Next
  <1>7. CASE \/ \E url \in UrlKinds : OpenCall(url)
             \/ \E type \in Sinks : SetResponseType(type)
             \/ ClientRelease \/ LeaveToContinuation \/ ContinuationReturns
    <2>1. UNCHANGED << gen, phase, cancelled, job, base, responseBuffer >>
      BY <1>7 DEF OpenCall, SetResponseType, ClientRelease, LeaveToContinuation,
                  ContinuationReturns
    <2>2. QED
      BY <2>1, AnswerKept, ContractStutter
  <1>8. CASE WorkerStart \/ WorkerCheck \/ WorkerPerform \/ WorkerReport
    <2>1. \E pc \in Transferring, result \in Results : Reaches(pc, result)
      BY <1>a, <1>8 DEF WorkerStart, WorkerCheck, WorkerPerform, WorkerReport,
                        Results, Transferring
    <2>2. job'.doomed = job.doomed /\ UNCHANGED << gen, phase, cancelled >>
      BY <1>a, <2>1, JobResult DEF Reaches
    <2>3. phase = "sent"
      BY <1>8, <1>b DEF WorkerStart, WorkerCheck, WorkerPerform, WorkerReport,
                        Transferring
    <2>4. QED
      BY <2>2, <2>3, ContractStutter
  <1>9. CASE StatusLine \/ HeaderLine \/ BodyPiece
    <2>1. worker = "perform" /\ UNCHANGED << gen, phase, cancelled >>
      BY <1>9 DEF StatusLine, HeaderLine, BodyPiece, CallingBack
    <2>2. job'.doomed = job.doomed
      BY <1>a, <1>9 DEF StatusLine, HeaderLine, BodyPiece, Jobs
    <2>3. phase = "sent"
      BY <1>b, <2>1 DEF Transferring
    <2>4. QED
      BY <2>1, <2>2, <2>3, ContractStutter
  <1>10. CASE UNCHANGED vars
    <2>1. UNCHANGED << gen, phase, cancelled, job, base, responseBuffer >>
      BY <1>10 DEF vars
    <2>2. QED
      BY <2>1, AnswerKept, ContractStutter
  <1>11. QED
    BY NextCases, <1>1, <1>2, <1>3, <1>4, <1>5, <1>6, <1>7, <1>8, <1>9, <1>10

\* The whole request, dispatcher, client thread and worker, is a UrlRequest as
\* the contract has it, for any client that opens a resolver's URL only when no
\* transfer is in flight: answered once, by what belongs to it, and for good.
THEOREM Implements ==
    ASSUME "DivertInFlight" \notin ClientMay PROVE Spec => ImplementsContract
  <1>1. Inv /\ Inv' /\ [Next]_vars => [Contract!Next]_Contract!contractVars
    BY ContractStep
  <1>2. QED
    BY <1>1, ContractInit, Invariance, PTL
       DEF Spec, ImplementsContract, Contract!Spec
=============================================================================
