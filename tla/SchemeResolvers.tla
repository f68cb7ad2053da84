-------------------------- MODULE SchemeResolvers ---------------------------
(***************************************************************************)
(* Custom-scheme resolvers: the process-wide registry and its mutex, and   *)
(* requests on several threads that are opened against it, diverted, and   *)
(* resolved (UrlRequest_Base.h, dispatched by UrlRequest_Shared.h).        *)
(*                                                                         *)
(* A resolver is code of the application that runs inside SendAsync(), on  *)
(* the caller's stack.  While it runs it may itself call the library: send *)
(* the request it is resolving again, open and send another request of its *)
(* thread, register and unregister, and even open anew a request that is   *)
(* being resolved, its own or one further down the stack, which the code   *)
(* does not guard against: what the overtaken resolver then returns is     *)
(* written into the response of the new request (ResolveScheme writes      *)
(* through `this` and keeps no account of the Open() it was called for).   *)
(*                                                                         *)
(* The Open() calls of all requests are numbered in one sequence, so that  *)
(* the number in a response field says which request it was written for as *)
(* well as which use of that request.                                      *)
(*                                                                         *)
(* A request that is not diverted goes to a backend; here it is enough     *)
(* that the backend's Open() resets the response.                          *)
(***************************************************************************)
EXTENDS ImplBase, Sequences, FiniteSets

CONSTANTS
    Threads, NoThread,
    Requests,
    Owner,             \* request -> the thread that uses it
    Names,             \* schemes, regardless of case
    Results,           \* what resolvers answer
    MaxOpens,          \* bound on the number of Open() calls
    MaxRegistrations   \* bound on the number of registrations

ResolversAssumption ==
    /\ NoThread \notin Threads
    /\ Owner \in [Requests -> Threads]
    /\ Results \subseteq ResolverResults
    /\ MaxOpens \in Nat
    /\ MaxRegistrations \in Nat

ASSUME ResolversAssumption

VARIABLES
    resolvers,   \* registry.resolvers: key -> registration, 0 for none
    holder,      \* who holds registry.mutex
    pc,          \* thread -> "free", or its place in a registry operation
    op,          \* thread -> that operation
    frames,      \* thread -> the resolver calls on its stack, innermost first:
                 \* the request, its resolver, and (history) its Open() call
    base,        \* request -> its ImplBase record
    opened,      \* history: the number of Open() calls that have returned
    gen,         \* history: request -> the number of its last Open(), 0 for none
    overtaken,   \* history: request -> its earlier Open() calls whose resolvers
                 \* were still running at the last one
    bound,       \* history: request -> registration found by its last Open()
    called,      \* history: request -> resolver calls since
    registered   \* history: the number of registrations so far

registryVars == << resolvers, holder >>
openVars == << opened, gen, overtaken >>
requestVars == << base, openVars, bound, called >>
vars == << resolvers, holder, pc, op, frames, base, opened, gen, overtaken, bound,
           called, registered >>

\* A scheme as it is spelled by the application, and as a key.
Spellings == Names \X {"lower", "mixed"}
Keys == Names \X {"lower"}

\* ToLower that is handed the scheme with its colon.
WithColon(s) == <<s[1], "lower:">>

ToLower(s) == <<s[1], "lower">>

\* The scheme in front of a URL's colon, taken as it is.
SchemeAsSpelled(s) == s

\* The key of a URL whose scheme is spelled s.
SchemeOf(s) == ToLower(s)

\* The key of UnregisterSchemeResolver, taken as it is.
KeyAsSpelled(s) == s

\* The key that UnregisterSchemeResolver erases.
UnregisterKey(s) == ToLower(s)

\* std::unordered_map::find.
Find(key) == IF key \in DOMAIN resolvers THEN resolvers[key] ELSE NoResolver

Free(t) == pc[t] = "free"

Resolving(t) == {frames[t][i].request : i \in DOMAIN frames[t]}

\* The Open() calls of the request whose resolvers have not returned.
Running(r) ==
    {frames[Owner[r]][i].gen :
        i \in {j \in DOMAIN frames[Owner[r]] : frames[Owner[r]][j].request = r}}

\* Open() leaves the request with this response and this resolver.
Renew(r, response, resolver) ==
    /\ base' = [base EXCEPT ![r] = response]
    /\ bound' = [bound EXCEPT ![r] = resolver]
    /\ called' = [called EXCEPT ![r] = [times |-> 0, who |-> 0]]
    /\ opened' = opened + 1
    /\ gen' = [gen EXCEPT ![r] = opened + 1]
    /\ overtaken' = [overtaken EXCEPT ![r] = Running(r)]

NoOp == [kind |-> "none"]

Begin(t, operation) ==
    /\ pc' = [pc EXCEPT ![t] = "waiting"]
    /\ op' = [op EXCEPT ![t] = operation]
    /\ UNCHANGED << resolvers, holder, frames >>

-----------------------------------------------------------------------------
(* Registry operations, called by the application or by a resolver.  A null *)
(* resolver and an empty scheme are rejected before anything happens.       *)

RegisterCall(t, s) ==
    /\ Free(t)
    /\ registered < MaxRegistrations
    /\ registered' = registered + 1
    /\ Begin(t, [kind |-> "register", key |-> ToLower(s), registration |-> registered + 1])
    /\ UNCHANGED requestVars

UnregisterCall(t, s) ==
    /\ Free(t)
    /\ Begin(t, [kind |-> "unregister", key |-> UnregisterKey(s), name |-> s[1]])
    /\ UNCHANGED << requestVars, registered >>

\* Open() of a URL with a scheme: BeginSchemeResolution, up to the lock.
OpenCall(r, s) ==
    LET t == Owner[r] IN
    /\ Free(t)
    /\ opened + Cardinality({u \in Threads : op[u].kind = "open"}) < MaxOpens
    /\ Begin(t, [kind |-> "open", key |-> SchemeOf(s), request |-> r])
    /\ UNCHANGED << requestVars, registered >>

\* Registry operations without the lock_guard.
LockRegardless(t) ==
    /\ pc[t] = "waiting"
    /\ holder' = t
    /\ pc' = [pc EXCEPT ![t] = "locked"]
    /\ UNCHANGED << resolvers, op, frames, requestVars, registered >>

\* std::lock_guard takes the mutex.
Lock(t) ==
    /\ pc[t] = "waiting"
    /\ holder = NoThread
    /\ holder' = t
    /\ pc' = [pc EXCEPT ![t] = "locked"]
    /\ UNCHANGED << resolvers, op, frames, requestVars, registered >>

\* The operation is over and lock_guard lets go of the mutex.
Unlock(t) ==
    /\ holder' = NoThread
    /\ pc' = [pc EXCEPT ![t] = "free"]
    /\ op' = [op EXCEPT ![t] = NoOp]
    /\ UNCHANGED << frames, registered >>

Register(t) ==
    /\ pc[t] = "locked" /\ op[t].kind = "register"
    /\ resolvers' = [key \in DOMAIN resolvers \cup {op[t].key} |->
                        IF key = op[t].key THEN op[t].registration ELSE resolvers[key]]
    /\ Unlock(t)
    /\ UNCHANGED requestVars

Unregister(t) ==
    /\ pc[t] = "locked" /\ op[t].kind = "unregister"
    /\ resolvers' = [key \in DOMAIN resolvers \ {op[t].key} |-> resolvers[key]]
    /\ Unlock(t)
    /\ UNCHANGED requestVars

\* find: a scheme nobody registered leaves BeginSchemeResolution with false, and
\* the backend's Open() resets the response.
OpenFindsNothing(t) ==
    /\ pc[t] = "locked" /\ op[t].kind = "open"
    /\ Find(op[t].key) = NoResolver
    /\ LET r == op[t].request IN Renew(r, ResetForOpen(base[r]), NoResolver)
    /\ Unlock(t)
    /\ UNCHANGED resolvers

\* find: an entry, which the next step copies while the mutex is still held.
OpenFinds(t) ==
    /\ pc[t] = "locked" /\ op[t].kind = "open"
    /\ Find(op[t].key) # NoResolver
    /\ pc' = [pc EXCEPT ![t] = "found"]
    /\ UNCHANGED << resolvers, holder, op, frames, requestVars, registered >>

\* OpenCopies that keeps the mutex for as long as the resolver may be needed.
OpenCopiesUnderLock(t) ==
    LET r == op[t].request
        resolver == Find(op[t].key)
    IN  /\ pc[t] = "found"
        /\ Renew(r, BeginSchemeResolution(base[r], resolver), resolver)
        /\ pc' = [pc EXCEPT ![t] = "free"]
        /\ op' = [op EXCEPT ![t] = NoOp]
        /\ UNCHANGED << resolvers, holder, frames, registered >>

\* The copy, then the release, then what only this thread sees.
OpenCopies(t) ==
    LET r == op[t].request
        resolver == Find(op[t].key)
    IN  /\ pc[t] = "found"
        /\ Renew(r, BeginSchemeResolution(base[r], resolver), resolver)
        /\ Unlock(t)
        /\ UNCHANGED resolvers

-----------------------------------------------------------------------------
(* SendAsync() of a diverted request.                                      *)

\* The resolver is taken out of the request and called.
SendCallsResolver(r) ==
    LET t == Owner[r]
        resolver == base[r].pendingResolver
    IN  /\ Free(t)
        /\ base[r].usingSchemeResolver
        /\ resolver # NoResolver
        /\ base' = [base EXCEPT ![r] = TakeResolver(@, gen[r])]
        /\ frames' = [frames EXCEPT ![t] =
               <<[request |-> r, resolver |-> resolver, gen |-> gen[r]]>> \o @]
        /\ called' = [called EXCEPT ![r] = [times |-> @.times + 1, who |-> resolver]]
        /\ UNCHANGED << resolvers, holder, pc, op, openVars, bound, registered >>

\* The innermost resolver answers or throws.
ResolverReturns(t) ==
    /\ Free(t)
    /\ frames[t] # <<>>
    /\ LET frame == Head(frames[t]) IN
       \E result \in Results :
          base' = [base EXCEPT ![frame.request] =
                       AcceptResult(@, result, "Buffer", frame.gen)]
    /\ frames' = [frames EXCEPT ![t] = Tail(@)]
    /\ UNCHANGED << resolvers, holder, pc, op, openVars, bound, called, registered >>

-----------------------------------------------------------------------------
Init ==
    /\ resolvers = [key \in {} |-> NoResolver]
    /\ holder = NoThread
    /\ pc = [t \in Threads |-> "free"]
    /\ op = [t \in Threads |-> NoOp]
    /\ frames = [t \in Threads |-> <<>>]
    /\ base = [r \in Requests |-> FreshResponse]
    /\ opened = 0
    /\ gen = [r \in Requests |-> 0]
    /\ overtaken = [r \in Requests |-> {}]
    /\ bound = [r \in Requests |-> NoResolver]
    /\ called = [r \in Requests |-> [times |-> 0, who |-> 0]]
    /\ registered = 0

CriticalSection(t) ==
    Register(t) \/ Unregister(t) \/ OpenFindsNothing(t) \/ OpenFinds(t) \/ OpenCopies(t)

Next ==
    \/ \E t \in Threads :
          \/ \E s \in Spellings : RegisterCall(t, s) \/ UnregisterCall(t, s)
          \/ Lock(t)
          \/ CriticalSection(t)
          \/ ResolverReturns(t)
    \/ \E r \in Requests :
          \/ \E s \in Spellings : OpenCall(r, s)
          \/ SendCallsResolver(r)

Spec == Init /\ [][Next]_vars

\* A thread inside the critical section runs.  Nothing says when the application
\* calls, when a resolver returns or which waiter gets the mutex.
FairSpec == Spec /\ \A t \in Threads : WF_vars(CriticalSection(t))

-----------------------------------------------------------------------------
(* Properties.                                                             *)

TypeOK ==
    /\ DOMAIN resolvers \subseteq Keys
    /\ \A key \in DOMAIN resolvers : resolvers[key] \in 1 .. MaxRegistrations
    /\ holder \in Threads \cup {NoThread}
    /\ pc \in [Threads -> {"free", "waiting", "locked", "found"}]
    /\ \A t \in Threads : Free(t) <=> op[t] = NoOp
    /\ \A t \in Threads : Resolving(t) \subseteq {r \in Requests : Owner[r] = t}
    /\ base \in [Requests -> ImplBaseType]

\* The find and the copy of an Open() are one step as far as other threads can
\* tell: the entry found is still there when it is copied.
FoundIsStillThere ==
    \A t \in Threads : pc[t] = "found" => Find(op[t].key) # NoResolver

\* Who holds the mutex is at work on the registry: nobody waits for it, answers
\* a call of the application or runs a resolver with the mutex taken.
MutexIsHeldInside ==
    \A t \in Threads : holder = t <=> pc[t] \in {"locked", "found"}

\* While a request is being resolved its response is the one Open() left, plus
\* the URL, whatever the resolver calls: a second SendAsync() neither runs the
\* resolver again nor touches the response.  Only the answer of a resolver that
\* the Open() overtook may be there already.
ResolvingRequestIsUntouched ==
    \A t \in Threads : \A i \in DOMAIN frames[t] :
        LET r == frames[t][i].request IN
        frames[t][i].gen = gen[r] =>
            /\ base[r].pendingResolver = NoResolver
            /\ base[r].responseUrl = gen[r]
            /\ overtaken[r] = {} => base[r].status = NoStatus /\ ~Failed(base[r])
            /\ called[r] = [times |-> 1, who |-> bound[r]]

\* However the resolvers of a thread are nested, and however often requests are
\* opened again meanwhile, what a response shows was answered to the last Open()
\* of its own request.  The one exception is an Open() made while resolvers of
\* earlier calls for the same request are still running: their answers may show,
\* and nobody else's.
AnswersStayWithTheirOpen ==
    \A r \in Requests : OnlyFromThese(base[r], {gen[r]} \cup overtaken[r])

\* When UnregisterSchemeResolver returns, no spelling of the scheme is diverted
\* any more.
UnregisterTakesEffect ==
    [][ \A t \in Threads :
          (op[t].kind = "unregister" /\ pc[t] = "locked" /\ pc'[t] = "free") =>
              \A s \in Spellings : s[1] = op[t].name => Find(SchemeOf(s))' = NoResolver
      ]_vars

\* The mutex never stays taken: nobody calls a resolver, or waits, under it.  (What
\* a resolver captures is copied by an Open() that finds it, and destroyed when it
\* is replaced or erased, under the mutex: that is taken to return, and to keep off
\* the registry.)
MutexIsReleased == (holder # NoThread) ~> (holder = NoThread)

Contract == INSTANCE ResolverContract WITH
    Registrations <- 1 .. MaxRegistrations,
    table <- [name \in Names |-> Find(<<name, "lower">>)]

\* The registry behaves like one atomic table, the resolver of a request is the
\* one in force when it was opened, and it is called once.
ImplementsContract == Contract!Spec
=============================================================================
