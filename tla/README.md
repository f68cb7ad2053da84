# UrlLib in TLA+

UrlLib is a small cross-platform library: HTTP(S) and file requests
(`UrlRequest`) and WebSockets (`WebSocket`), each a thin object around a
platform transport. There is little sequential logic in it that a unit test
would miss; what is hard are the threads. A transfer writes into the object
that the client reads, reopens and destroys; resolvers are application code
that runs inside the library; the end of a socket is noticed by several
callbacks at once. That is what is modelled here.

Paths are relative to the repository; `Shared.h`, `Base.h`, `Unix.cpp` and so
on stand for `src/Source/UrlRequest_*`.

## 1. Inventory

| component | state | operations | correct when |
|---|---|---|---|
| **Dispatcher** (`UrlRequest_Shared.h`) | a shared pointer to the `Impl` | `Open` (diverts to a resolver, or the backend), `SendAsync`, `Abort`, accessors; copies share the request | every call reaches either the resolver or the backend, never both |
| **Response state** (`UrlRequest::ImplBase`) | status, reason, URL, headers, body, error triple, pending resolver, cancellation source | `ResetForOpen`, `SetError`, `BeginSchemeResolution`, `ResolveScheme`, `Abort` | nothing of an earlier request shows in a later one; an error never comes with a status; `Abort` is for good |
| **Resolver registry** (`Base.h`, process-wide) | map from lower-cased scheme to resolver, a non-recursive mutex | register, unregister, look up and copy | an atomic table, whatever the threads and the case of schemes; the mutex is not held while a resolver runs |
| **libcurl transport** (`Unix.cpp`) | easy handle, URL handle, body buffer, `m_file`, one `std::thread` | `Open`, `SendAsync`, destructor; on the worker: poll loop, header and write callbacks, report, complete | the worker never outlives what it works on; the response is complete and final when the task is; an abort always ends it |
| **NSURLSession transport** (`Apple.mm`) | URL, body, cancellation ticket | `Open`, `SendAsync`, completion handler, listener | as above, with a completion handler that nothing joins |
| **WinRT transports** (`Windows_Shared.h`, `Win32.cpp`, `UWP.cpp`) | URI, body, file path | `Open`, `SendAsync` as chains of continuations that the cancellation source guards | as above; a task that is left in an error state still leaves status 0 |
| **Android transport** | URL, body | `Open`, `SendAsync` as one task of the thread pool | as above; Java exceptions at any point |
| **WebSocket facade** (`WebSocket_Shared.h`, `WebSocket_Base.h`) | URL, four callbacks | passes `Open`, `Send`, `Close` on | |
| **WebSocket on Apple** (`WebSocket_Apple_ObjC.m`) | session and task, under `@synchronized(self)` | `open`, `close`, `sendMessage`, receive loop, three delegate callbacks, the completion of a send | every end is reported, once, in order; nothing arrives after it |
| **WebSocket on Windows** | `MessageWebSocket`, atomic `m_closed`, shared cancellation source | `Open`, `Send`, `Close`, destructor, four continuations, two events | the same; no continuation enters a destroyed object |
| **WebSocket on Android / Linux** | none | forwards to a client in another repository / throws | |
| **arcana** (third party) | cancellation source, task completion source | used by all of the above | |

How they interact: the client calls the dispatcher; `Open` asks the registry
and diverts, or calls the backend, which resets the response state that it
inherits; `SendAsync` either calls the resolver on the caller's stack or starts
the transfer, whose callbacks write the response state from another thread; the
completion of the task is what tells the client that it may read. `Abort` sets
a flag that the transfer polls. Continuations attached to the task run inline
on the thread that completes it. There is no lock around a request: the join in
`Cleanup()` and the completion are all that orders the two threads.

What is hard, with the line where it bites, is listed as `hazards` in
`PROJECT.json`: a transfer and a reopened object (`Unix.cpp:285`,
`Shared.h:29`), the join (`Unix.cpp:182`, `:77`), sticky aborts (`Base.h:25`),
state left by a half-failed `Open` (`Unix.cpp:107`), resolvers that call back
(`Base.h:109`, `:86`), several reporters of one end (`ObjC.m:140`,
`WebSocket_Windows.cpp:136`), late callbacks (`ObjC.m:120`,
`WebSocket_Windows.cpp:42`); and on the backends that join nothing, handlers
that write through a raw `this` (`Apple.mm:139`), a status that is recorded
before the body is there (`Windows_Shared.h:117`, `Android.cpp:126`), and a task
that reads what to fetch only when it runs (`Android.cpp:94`).

## 2. Modules

    RequestContract  <--refines-- UrlRequestUnix      --EXTENDS--> ImplBase
                     <--refines-- UrlRequestDetached
                                    EXTENDS UrlRequestApple,
                                            UrlRequestWindows,
                                            UrlRequestAndroid,
                                      which EXTEND DetachedRequest --EXTENDS--> ImplBase
    ResolverContract <--refines-- SchemeResolvers     --EXTENDS--> ImplBase
    SocketContract   <--refines-- WebSocketApple
                     <--refines-- WebSocketWindows

    proofs: ImplBaseProofs, UrlRequestUnixProofs, UnixBodyProofs,
            UrlRequestDetachedProofs, SchemeResolversProofs,
            WebSocketAppleProofs, WebSocketWindowsProofs

`ImplBase` is the response record that all backends inherit, and the effect of
each member function on it. Data is abstracted to provenance: requests (calls
of `Open`) are numbered, and a field holds the number of the request that wrote
it, a body the set of its pieces `<<request, index>>`. That makes "leaks into a
later request" a formula.

`RequestContract` is what one `UrlRequest` promises: a request is opened, sent
and settled; a settled answer is written by that request alone, has no status
if it failed, and does not change; an aborted object never gets a transfer
through. `UrlRequestUnix` is the libcurl backend together with the dispatcher
in front of it. Its variables are the members (`base` is `ImplBase`,
`responseType`, `responseBuffer`, `curl` for `m_curl`, `isFile` for `m_file`,
`cancelled` for the source, `thread` for `m_thread`), the place of the worker,
what the worker captured (`job`), and the call the client is in. The actions
are the calls and the steps between which the other thread may run: `Open` is
split at the join (`OpenCall`, `OpenBody`), and so is the destructor
(`ClientRelease`, `DestroyBody`); the worker goes `WorkerStart`, `WorkerCheck`
(the cancellation test), `WorkerPerform` with `StatusLine`, `HeaderLine` and
`BodyPiece` as the callbacks inside it, `WorkerReport`, `WorkerComplete`,
`ContinuationReturns`. `ClientMay` says which misuses the client is allowed.

The other backends start a transfer in `SendAsync` and never join it, so
several transfers of one object may be on their way. `DetachedRequest` has what
they share: the response record, the members that the next send uses
(`requestHeader` for `m_requestHeaders`, `url` for `m_url`, `m_uri` and
`m_appPathOrUrl`, `cancelled` for the source, `ticket` for the listener that
`m_cancellationTicket` keeps), and `transfer`, indexed by request, because a
transfer has the number of the request it was sent for. A transfer has a place
(`pc`: the system has it, its callable is queued, the callable runs, it is
done), a `stage` (is the head or the body of the answer next), the URL and header
it was sent with, and what became of it: `stopped` (the system was told to
cancel it), `lost` (it failed on the way), `faulted` (its task ended in an
exception), `doomed` (it was sent after an `Abort`). `UrlRequestApple` adds
`Open` with its two ways to fail, `SendAsync` in the two steps between which the
session may already answer (`AppleSend`, `AppleListen`), and the completion handler.
`UrlRequestWindows` adds the chains of continuations of HTTP, of Win32 files
and of UWP files; each link is started by `Start`, which is where arcana
looks at the cancellation source. `UrlRequestAndroid` adds the one task of the
thread pool, which takes URL and headers from the object when it runs
(`AndroidConnect`), with a `Throwable` that may come wherever one leaves a mark.
`UrlRequestDetached` chooses the platform in `Init` and refines `RequestContract`:
a send that completes at once is the contract's `Resolve`; a task that ended in
an exception counts as a failed answer, since that is what its client sees; and on
Apple `aborted` maps to FALSE, because there the task is resumed before the source
is looked at, and an answer that wins that race is delivered.

`SchemeResolvers` is the registry and any number of requests of several
threads; an operation takes the mutex, works, and releases it in separate
steps. A resolver that runs is a frame on its thread's stack, and while it runs
the thread may register, unregister, open and send any of its requests, which is
what resolvers may do. That includes opening anew a request that is being resolved,
the resolver's own or one further down the stack; nothing in the code prevents it.
The calls of `Open` of all requests are numbered in one sequence (`opened`), so that
provenance tells requests apart as well as uses of one request: `gen` has the number
of the last `Open` of each request, `overtaken` those of its earlier ones whose
resolvers were still running then. `Renew` is what every `Open` does to its request.
`ResolverContract` is the atomic table. `OpenCopies` is where an `Open`
that finds a resolver takes effect, `OpenFindsNothing` where one that does not.

`SocketContract` says that the end of a connection is judged once and reported
once: `onError` for an abnormal code, then `onClose`. `WebSocketApple` has an
activity for each client thread and for each callback of each connection; a
`@synchronized` section is one step. `WebSocketWindows` has client threads,
continuations and events around the atomic exchange in `CloseOnce`. In both,
`verdict` is the close code that won and `reports` what the application was
told.

`MC*` modules hold values for TLC and, where a comment claims something the
code does not keep, that claim.

## 3. Runs

| run | question | bounds | distinct states |
|---|---|---|---|
| `unix_disciplined` | Is a client that opens before every send served as promised, and does an abort always end the transfer and release who waits in `Open` or the destructor? | 3 requests on one object, 2 pieces of body | 324,352 |
| `unix_any_client` | What holds of the worker, of a status of 0 and of aborts whatever the client does? | 3 requests, 1 piece, all misuses | 1,092,240 |
| `unix_divert_in_flight` | Can a diverted `Open` during a transfer be trusted? No. | 2 requests | violation |
| `unix_stale_file_flag` | Does `m_file` leak into later requests? Yes. | 2 requests | violation |
| `detached` | The same for Apple, Win32, UWP and Android. | 2 requests on one object | 77,110 |
| `detached_any_client` | What holds there if the client opens during a transfer, or sends after an `Open` that threw? | 2 requests, both misuses | 497,778 |
| `detached_truncated` | Does a failed transfer settle on status 0? Not on Android. | 1 request | violation |
| `resolvers` | Is the registry atomic, a resolver called once, and its answer kept to the request it was asked for? | 2 threads, 3 requests, 3 calls of `Open` among them, 2 registrations, 1 scheme in 2 spellings | 350,710 |
| `apple_socket` | Is every end reported? | 1 connection, 2 client threads, 2 messages | 3,217 |
| `apple_socket_reopen` | Is it reported once, and never overlooked, with late callbacks of one connection arriving during the next? | 2 connections, overlapping or not, 1 client, 1 message | 1,088,508 |
| `apple_socket_reconnect` | Can the end of one connection be reported as that of the next? Yes. | 2 connections | violation |
| `windows_socket` | The same for Windows, with the object destroyed at any time. | 1 connection, 2 client threads, 2 messages | 39,152 |

Why these bounds: two requests are what it takes for one to leak into the next,
a third lets an object go transport, resolver, transport, so that state left by
the first has to survive the second. On the detached backends there is nothing
for a third to meet: each `Open` resets what the one before left, and a transfer is
late for the current request however many came between (with three the model has
more than two million states, and the theorems of section 4 hold for any number).
The violation on Android needs one. Two pieces of body are enough to split a
body between sinks or to lose its end. A registration can replace or be
replaced once with two; three requests give a resolver another request of its
thread to work on while a second thread competes for the mutex, and the calls of
`Open` go to them in any way: three are enough to open a second request from within
the resolver of the first and then the first again from within either resolver. A
resolver that throws does to the response what one that disowns the URL does, so
here only the latter is among the results; the libcurl and detached runs have both.
Two connections
let a late callback hit the next connection; two client threads can call
`Close` at the same time.

What the properties say is in a comment above each. The ones that carry the
most: `ImplementsContract` in each component (refinement, so nothing may happen
that the contract does not allow, in any order); `NoLeakAcrossOpen`,
`SettledResponseIsStable`, `BodyIsComplete` and `OkHasItsBody` for the response;
`WorkerNeverOutlivesImpl` for the thread; `AbortStopsTheLast` and `AbortKeepsOut`
for aborts on the detached backends, where a misused object has several transfers; `ResolvingRequestIsUntouched` for
re-entrant resolvers; for sockets `NoEndGoesUnnoticed`, which says in every state who
is still to judge an end or to report it, and `EveryEndIsReported`, that they do.

`CHECK_DEADLOCK FALSE` appears in `WindowsSocket.cfg` only: once the object is
destroyed and the continuations have run there is nothing left to do. In
`UrlRequestUnix` the same situation is the action `Ended`; on the detached
backends `Abort` is always possible.

### Fairness

- libcurl: weak fairness of the worker and of `WorkerPerform`
  (`curl_multi_perform` does not block, `curl_multi_poll` has a timeout), and of
  a caller whose join can return. Nothing is assumed of the peer: the liveness
  properties hold even if it never says a word.
- detached backends: threads go on (the thread that is in `SendAsync`, the queue of
  the session, the thread pool), and NSURLSession completes a task that was
  cancelled. Nothing is assumed of the peer and nothing of WinRT, so
  `AbortSettles` promises an end on Apple wherever the abort falls, and on
  Windows and Android only for a transfer that waits for a thread: nothing there
  interrupts a WinRT operation or a blocking Java call.
- registry: a thread in the critical section runs. The mutex is not assumed to
  be fair, and resolvers are not assumed to return.
- Apple sockets: threads go on, and NSURLSession completes every task that has
  ended. Windows sockets: threads go on, an attempt to connect that was given up
  completes, and the `Closed` event is raised for an open connection that ended.

### Where the code and its comments disagree

Shown by a run (`findings` in `PROJECT.json`):

1. `Shared.h:29`: a diverted `Open` returns before the backend is reached, so a
   transfer in flight is not joined and writes into the new request.
2. `Unix.cpp:307`: `m_file` is never reset, so after one file every transfer
   without a response code settles with 200.
3. `WebSocket_Apple_ObjC.m:120`: `didCompleteWithError` ends whatever session the
   object has now. After `Close`, `onClose` and a new `Open` the completion of
   the cancelled first task closes the second connection.
4. `Android.cpp:187`: a connection that is lost while the body is read leaves the
   status written at line 126, with no error and no body; `README.md:9` and the
   comment at `Android.cpp:189` promise 0.

Noticed while reading, without a run: the WinRT backends record the status at
`Windows_Shared.h:117` too, so a body that cannot be read leaves it in place, but
there the task faults and says so (although `Base.h:345` says that failures
are not faulted tasks); on Windows and Android an `Open` that throws has reset the
response and kept the old URL, which a send would fetch; the task on
Android reads the URL when it runs (`Android.cpp:94`), so of two transfers in flight
both may fetch the later URL; `README.md:45` says Windows always
reports empty errors, `Win32.cpp:49` sets one; `Tests/UrlRequestErrorReporting.cpp:104`
says that `Abort` interrupts the Windows backend only; `HeaderCallback`
(`Unix.cpp:408`) keeps the first header of a name over a redirect chain;
response headers are stored as spelled on Linux and Windows and looked up in
lower case; `UrlRequest::GetURL` is declared (`UrlLib.h:155`) and not defined.

A resolver that opens anew the request it resolves, its own or one further down the
stack, has its answer written into the new response, since `ResolveScheme` writes
through `this` when the resolver returns (`Base.h:128`), although `ResetForOpen` is
there for reuse "without leaking prior status / URL / body / headers"
(`Base.h:364-366`). The model does as the code does, and in the run `resolvers` it
happens. `AnswersStayWithTheirOpen` states what is left of the promise: a response
shows what was answered to the last `Open` of its request, or to one that this `Open`
overtook (`overtaken`), and nothing that was answered to another request. Without
`\cup overtaken[r]` TLC finds it violated, by an `Open` made from inside the resolver,
which then returns.

## 4. Proofs

TLAPS checks the theorems below for every value of the constants. What they
assume of the constants is the named assumption of each module
(`UnixAssumption`, `DetachedAssumption` and so on: bounds are natural numbers,
kinds come from the sets the model knows), and for some a condition on
`ClientMay`, the misuses a client is capable of. None of these conditions is
stronger than it has to be: with any misuse that a theorem excludes, TLC finds its
property violated within two requests. Every proof has the same shape: an inductive
invariant, one step per action (or kind of action) for each of its conjuncts, and a
last temporal step.

### libcurl (`UrlRequestUnixProofs`, `UnixBodyProofs`)

| theorem | property | the client may not |
|---|---|---|
| `TypeCorrect`, `WorkerSafe`, `AbortIsForGood`, `ZeroIsExplained` | `TypeOK`, `WorkerNeverOutlivesImpl`, `DoomedSendFetchesNothing`, `ZeroStatusIsExplained` | (anything goes) |
| `NoLeak`, `ErrorsHaveNoStatus`, `Implements` | `NoLeakAcrossOpen`, `ErrorMeansZeroStatus`, `ImplementsContract` | divert in flight |
| `BodiesAreComplete` | `BodyIsComplete` | send twice |
| `SettledIsStable` | `SettledResponseIsStable` | divert in flight, send twice |
| `NeverTerminates` | `NoTerminate` | send twice, drop the last copy in a continuation |

The invariant of `WorkerSafe` is inductive with `TypeOK`: the only steps that free
or replace what the worker uses are behind the join, or behind the test that turns
a second send into `std::terminate`. With it, for any client,

    Always == TypeOK /\ WorkerNeverOutlivesImpl /\ Flow /\ Outcome

is inductive. `Flow` ties the phase of a transport's request to the place of the
worker: it is in phase "sent" exactly while the worker of that request runs, and a
thread is there from the send to the next join. Of a diverted request it says
nothing of the worker, since an `Open` in flight may have left one behind. `Outcome`
ties the result of the job to what was fetched, to the abort and to the error in the
response. If nothing is diverted in flight,

    Inv == Always /\ Response

is inductive too. `Response` says what each field may hold in each phase, so that a
status is never written where an error is, or the other way round. Neither
`Outcome` nor `Response` is inductive without `Flow`.

- `BodiesAreComplete` rests on `Body`, which follows the pieces into the one sink
  that the worker was started for, whatever the response type is changed to
  meanwhile; `ZeroIsExplained` on `Status`: nothing succeeds without a URL, a file
  is known to be one, and what is reported as a success has a status unless its
  transport has none. Both are inductive with `Always`, so a diverted `Open` in
  flight does not spoil them.
- `Implements`: every behaviour, through the refinement mapping at the end of
  `UrlRequestUnix`, is one of `RequestContract`; each step is shown to be a step
  of the contract or a stutter, from `Inv` and `Inv'`. That includes clients that
  send twice or drop their last copy on the worker.

### Apple, Windows and Android (`UrlRequestDetachedProofs`)

The three backends have some thirty actions. The first part shows that each of
them is a step of one of a few kinds (`Opening`, `Sending`, `AtOnce`, and a
transfer that `Proceeds` silently, with an error, with a head or with a body),
told apart by what they write; the invariants are then proved for the kinds, once
for all platforms.

| theorem | property | the client |
|---|---|---|
| `TypeCorrect`, `NoStaleUrl`, `AbortStops`, `AbortKeeps` | `TypeOK`, `AppleSendsNoStaleUrl`, `AbortStopsTheLast`, `AbortKeepsOut` | any |
| `HeadersOnce` | `HeadersAreNotResent` (at most once: a header set for a file or a diverted request goes out with the next HTTP request) | any on Windows; on Android one that awaits its tasks |
| `ErrorsHaveNoStatus`, `SettledIsStable` | `ErrorMeansZeroStatus`, `SettledResponseIsStable` | `Patient` |
| `NoLeak`, `BodiesAreThere`, `Implements` | `NoLeakAcrossOpen`, `OkHasItsBody`, `ImplementsContract` | `Careful` |

A `Patient` client awaits a task before it opens again. A `Careful` one sends
nothing after an `Open` that threw either, except on Apple, where `Open` has
assigned the URL by then; on the others such a send fetches the URL of an earlier
request, which is what `NoLeakAcrossOpen` forbids.

- Any client, from `Loose == TypeOK /\ Numbers /\ Addresses /\ Tickets`. `Numbers`
  says that a transfer has the number of a request that was sent; `Addresses` that
  on Apple the URL to send is the current request's, and `Tickets` that the ticket
  is that of the current transfer, once there is a listener. `AbortKeeps`: the set
  of aborted transfers that have not passed their last test never gets into the
  handler with the answer (`KeptOut` is stable). `Headers`: headers go out in the
  order in which they were set, so one that is still set is newer than all that
  were sent.
- A patient client, from `Ordered == Loose /\ Flow /\ Status /\ Doomed`. `Flow`:
  only the transfer of the current request is under way, and only while that
  request is sent. `Status`: until the status is written there is none, and no
  error ever beside it. `Doomed`: a send after an abort is one that `KeptOut`
  speaks of, so it can only end in an exception, which is what the contract asks
  of it.
- A careful client, from `Inv == Ordered /\ Sources /\ Written /\ Bodies`. `Sources`:
  what a transfer fetches is the URL of the current request, on Android when it
  comes to run. `Written`: the response is the current request's. `Bodies`: there is
  no body before the last step, and then one.

### Registry (`SchemeResolversProofs`)

For any number of threads, requests, schemes, registrations and calls of `Open`:
`TypeCorrect`, `FoundStays`, `MutexHeldInside`, `ResolvingUntouched`,
`NumbersNameRequests`, `AnswersAreKeptApart`, `UnregisterEffective`, and `Implements`
(`ResolverContract`), from

    Inv == Types /\ Mutex /\ NumbersAreTheirs /\ Stack /\ Calls /\ AnswersStayWithTheirOpen

`Mutex`: a thread holds the mutex exactly while it is between `Lock` and `Unlock`,
and what it found is still in the table. `NumbersAreTheirs`: no two requests share
the number of an `Open`, be it their last or an overtaken one, which is what makes
the number in a field name one request (theorem `NumbersNameRequests`). `Stack`: the
resolvers that run on one thread run for different calls of `Open`, each for a
request of that thread, and each of these calls is the last one of its request or
one of those it overtook. `Calls`: a request with a resolver to
call is as its `Open` left it, and one whose resolver runs as the call left it,
which is why a resolver that calls back cannot disturb the request it works for.
`AnswersStayWithTheirOpen` (theorem `AnswersAreKeptApart`) needs the stack: what a
resolver returns is written for the `Open` that its frame was pushed for, and by
`Stack` that is the request's last or one it overtook. It is needed by none of the
others.

### Sockets (`WebSocketWindowsProofs`, `WebSocketAppleProofs`)

Assumed is also that the names of client threads are not those of the
platform's activities.

- Windows, any set of threads: `TypeCorrect`, `TheDeadAreLeftAlone`, `Implements`
  (`SocketContract`). The invariant says what the continuations can do before
  `Open` (nothing), what each brings to `CloseOnce`, that the judgement and
  `m_closed` agree, that one activity at most is the reporter, and that what it has
  still to say and what was said make up the report. `NoEndIsLost` adds `Await`:
  a socket that connects has its continuation waiting (`Attempt`), the `Closed`
  event comes for a connection that was open and has ended, so it is still to come
  for one that ends now (`Raised`), an end that is not judged has an activity on
  its way to `CloseOnce`, or one of these two to bring it (`Owed`), and what is
  judged and not told has its reporter (`Unfinished`).
- Apple, any number of connections and threads: `TypeCorrect`, `NothingAfterClose`,
  `Implements`, from the types and `Sessions` (the session there is has not been
  judged, and what was not judged was not reported), `Reporter` and `Reported` as
  above for each connection, and `Over` (the session is invalidated before anything
  is reported). `NoEndIsLost` adds that nothing has been heard of a connection not
  yet opened (`Beyond`), that whoever hears of the end takes the session, so that
  while it is there its delegate callbacks are to come (`Pending`), that a client
  which waits for `onClose` has no other connection without a verdict (`Latest`),
  and `Unfinished` for each connection.

`NoEndGoesUnnoticed` is the part of `EveryEndIsReported` that is about states. What
is left of it for the runs is that those named by it do go on, which is fairness.

### Only model-checked

Liveness, which is out of the prover's reach: `AbortSettles` (both), `AbortUnblocksJoin`,
`MutexIsReleased`, `EveryEndIsReported`. (The states that the last two start from
are described by theorems, `MutexHeldInside` and `NoEndIsLost`.) The runs that
expect a violation are counterexamples and need no proof. Every other property of a passing run is
a theorem; the types of `WebSocketApple` are a theorem and in no run.

## 5. Not modelled, and why

- What strings look like: percent encoding, error texts, reason phrases, header
  syntax, Apple's chain of underlying errors.
- Request bodies, which are passed on as they are where they are sent at all;
  the libcurl backend ignores request headers and bodies.
- What an `Open` made by an inline continuation of the libcurl backend does: it runs
  on the worker and joins its own thread, so that `join()` throws `std::system_error`
  (`Unix.cpp:182`). In the model that call waits for the worker like any other.
- Captured state of resolvers. It is application code that is copied by an `Open`
  that finds the resolver, and destroyed when the resolver is replaced or erased,
  under the mutex (`Base.h:85`, `:54`, `:63`); `MutexIsReleased` takes it to return and not
  to call the registry.
- A failing `AAsset_read` (`Android.cpp:27`), whose result the code ignores.
- The destruction of a request object with a transfer in flight on the detached
  backends, and of a WebSocket with callbacks outstanding on Apple: the handlers
  hold a raw pointer, and the code leaves it to the client to keep the object. On
  Windows, events raised after the destructor, and failures that are not a
  `std::exception`.
- On the detached backends: success codes other than 200 (WinRT overwrites
  them with Ok, `Windows_Shared.h:146`), and on Windows a send of an object that never had
  a URL.
- `WebSocket` on Android (a forwarder to code of another repository) and on
  Linux (a stub that throws).

## 6. Plan

Done, in this order: `ImplBase`, `RequestContract`, `UrlRequestUnix` with its
runs, their proofs, `ResolverContract` and `SchemeResolvers`, `SocketContract`,
`WebSocketApple`, `WebSocketWindows`; then `DetachedRequest` with the Apple,
Windows and Android backends, and the proofs about all of these.

Left, in this order:

1. Header lines, redirect chains and scheme extraction as operators checked
   against a reference definition over bounded inputs, with more than one value of
   a header in a request (`Unix.cpp:408`).
2. The lifetime of objects with callbacks outstanding: `WebSocket` on Apple
   (`WebSocket_Apple.mm:12`), requests on the detached backends.
3. An account of the `Open` that a resolver was called for, so that its late answer
   can be dropped (`Base.h:128`), once the code has one: `overtaken` can then go from
   `AnswersStayWithTheirOpen`.
