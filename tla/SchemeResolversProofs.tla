----------------------- MODULE SchemeResolversProofs ------------------------
(***************************************************************************)
(* Proofs about SchemeResolvers, for any number of threads, requests,      *)
(* schemes and registrations.                                              *)
(***************************************************************************)
EXTENDS SchemeResolvers, ImplBaseProofs, SequenceTheorems

\* Every step of the specification, one disjunct per action.
LEMMA NextCases ==
    ASSUME [Next]_vars
    PROVE  \/ \E t \in Threads, s \in Spellings : RegisterCall(t, s)
           \/ \E t \in Threads, s \in Spellings : UnregisterCall(t, s)
           \/ \E r \in Requests, s \in Spellings : OpenCall(r, s)
           \/ \E t \in Threads : Lock(t)
           \/ \E t \in Threads : Register(t)
           \/ \E t \in Threads : Unregister(t)
           \/ \E t \in Threads : OpenFindsNothing(t)
           \/ \E t \in Threads : OpenFinds(t)
           \/ \E t \in Threads : OpenCopies(t)
           \/ \E r \in Requests : SendCallsResolver(r)
           \/ \E t \in Threads : ResolverReturns(t)
           \/ UNCHANGED vars
  BY DEF Next, CriticalSection

-----------------------------------------------------------------------------
(* The inductive invariant.                                                *)

RegisterOps ==
    [kind : {"register"}, key : Keys, registration : 1 .. MaxRegistrations]
UnregisterOps == [kind : {"unregister"}, key : Keys, name : Names]
OpenOps == [kind : {"open"}, key : Keys, request : Requests]
Ops == {NoOp} \cup RegisterOps \cup UnregisterOps \cup OpenOps

Frame == [request : Requests, resolver : Nat, gen : Nat]

Types ==
    /\ DOMAIN resolvers \subseteq Keys
    /\ \A key \in DOMAIN resolvers : resolvers[key] \in 1 .. MaxRegistrations
    /\ holder \in Threads \cup {NoThread}
    /\ pc \in [Threads -> {"free", "waiting", "locked", "found"}]
    /\ op \in [Threads -> Ops]
    /\ frames \in [Threads -> Seq(Frame)]
    /\ base \in [Requests -> ImplBaseType]
    /\ opened \in Nat
    /\ gen \in [Requests -> Nat]
    /\ overtaken \in [Requests -> SUBSET Nat]
    /\ bound \in [Requests -> Nat]
    /\ called \in [Requests -> [times : Nat, who : Nat]]
    /\ registered \in 0 .. MaxRegistrations

\* Who works on the registry holds its mutex, on an operation of its own; what
\* an Open() has found stays, because to change it one would need the mutex.
Mutex ==
    /\ MutexIsHeldInside
    /\ \A t \in Threads :
        /\ pc[t] = "free" <=> op[t].kind = "none"
        /\ pc[t] = "found" => op[t].kind = "open"
        /\ pc[t] = "found" => Find(op[t].key) # NoResolver
        /\ op[t].kind = "unregister" => op[t].key = <<op[t].name, "lower">>

\* The Open() calls that a request may show an answer to.
Numbers(r) == {gen[r]} \cup overtaken[r]

\* A number is that of one Open(), and so of one request.
NumbersAreTheirs ==
    /\ \A r \in Requests : Numbers(r) \subseteq 0 .. opened
    /\ \A q, r \in Requests : q # r => Numbers(q) \cap Numbers(r) \subseteq {NoOne}

\* The resolvers on a thread's stack are those of different Open() calls, all of
\* them that thread's, and each is of the last Open() of its request or of one
\* that was overtaken.
Stack ==
    \A t \in Threads :
        /\ \A i \in 1 .. Len(frames[t]) :
              /\ Owner[frames[t][i].request] = t
              /\ frames[t][i].gen \in Numbers(frames[t][i].request)
        /\ \A i, j \in 1 .. Len(frames[t]) :
              /\ frames[t][i].request = frames[t][j].request
              /\ frames[t][i].gen = frames[t][j].gen
              => i = j

\* The resolver of the request, as it is now, runs.
OnStack(r) ==
    \E t \in Threads : \E i \in 1 .. Len(frames[t]) :
        frames[t][i].request = r /\ frames[t][i].gen = gen[r]

\* A request that has a resolver to call is as Open() left it.
Callable(r) ==
    base[r].pendingResolver # NoResolver =>
        /\ overtaken[r] = {} => base[r].status = NoStatus /\ ~Failed(base[r])
        /\ bound[r] = base[r].pendingResolver
        /\ called[r] = [times |-> 0, who |-> 0]

\* One whose resolver runs is as the call of the resolver left it.
Untouched(r) ==
    /\ base[r].pendingResolver = NoResolver
    /\ base[r].responseUrl = gen[r]
    /\ overtaken[r] = {} => base[r].status = NoStatus /\ ~Failed(base[r])
    /\ called[r] = [times |-> 1, who |-> bound[r]]

Calls == \A r \in Requests : Callable(r) /\ (OnStack(r) => Untouched(r))

Inv ==
    Types /\ Mutex /\ NumbersAreTheirs /\ Stack /\ Calls /\ AnswersStayWithTheirOpen

-----------------------------------------------------------------------------
(* Helpers.                                                                *)

\* What can be known of an operation from its kind.
LEMMA OpKinds ==
    ASSUME NEW o \in Ops
    PROVE  /\ o.kind \in {"none", "register", "unregister", "open"}
           /\ o.kind = "none" <=> o = NoOp
           /\ o.kind = "register" => o.key \in Keys /\ o.registration \in 1 .. MaxRegistrations
           /\ o.kind = "unregister" => o.key \in Keys /\ o.name \in Names
           /\ o.kind = "open" => o.key \in Keys /\ o.request \in Requests
  BY DEF Ops, NoOp, RegisterOps, UnregisterOps, OpenOps

LEMMA NewOps ==
    /\ \A s \in Spellings : ToLower(s) \in Keys /\ ToLower(s) = <<s[1], "lower">> /\ s[1] \in Names
    /\ \A s \in Spellings, n \in 1 .. MaxRegistrations :
          [kind |-> "register", key |-> ToLower(s), registration |-> n] \in Ops
    /\ \A s \in Spellings :
          [kind |-> "unregister", key |-> UnregisterKey(s), name |-> s[1]] \in Ops
    /\ \A s \in Spellings, r \in Requests :
          [kind |-> "open", key |-> SchemeOf(s), request |-> r] \in Ops
    /\ NoOp \in Ops /\ NoOp.kind = "none"
  BY DEF Ops, RegisterOps, UnregisterOps, OpenOps, ToLower, SchemeOf, UnregisterKey,
         Spellings, Keys, NoOp

\* A registration number is what a lookup finds, or nothing.
LEMMA FindType == Types => \A key : Find(key) \in 0 .. MaxRegistrations /\ Find(key) \in Nat
  BY ResolversAssumption DEF Types, Find, NoResolver, ResolversAssumption

\* The requests that are being resolved, by their place on the stack.
LEMMA ResolvingIs ==
    ASSUME Types, NEW t \in Threads
    PROVE  Resolving(t) = {frames[t][i].request : i \in 1 .. Len(frames[t])}
  <1>1. DOMAIN frames[t] = 1 .. Len(frames[t])
    BY DEF Types
  <1>2. QED
    BY <1>1 DEF Resolving

\* What is in a frame.
LEMMA FrameAt ==
    ASSUME Types, NEW t \in Threads, NEW i \in 1 .. Len(frames[t])
    PROVE  /\ frames[t][i].request \in Requests /\ frames[t][i].gen \in Nat
           /\ gen[frames[t][i].request] \in Nat
  <1>1. frames[t] \in Seq(Frame)
    BY DEF Types
  <1>2. frames[t][i] \in Frame
    BY <1>1
  <1>3. QED
    BY <1>2 DEF Frame, Types

\* The Open() calls of a request that are being resolved, likewise.
LEMMA RunningIs ==
    ASSUME Types, NEW r \in Requests
    PROVE  \A n : n \in Running(r) <=>
              \E i \in 1 .. Len(frames[Owner[r]]) :
                  frames[Owner[r]][i].request = r /\ frames[Owner[r]][i].gen = n
  <1>1. Owner[r] \in Threads
    BY ResolversAssumption DEF ResolversAssumption
  <1>2. DOMAIN frames[Owner[r]] = 1 .. Len(frames[Owner[r]])
    BY <1>1 DEF Types
  <1>3. QED
    BY <1>2 DEF Running

LEMMA RunningType ==
    ASSUME Types, NEW r \in Requests
    PROVE  Running(r) \subseteq Nat
  <1>1. Owner[r] \in Threads
    BY ResolversAssumption DEF ResolversAssumption
  <1>2. SUFFICES ASSUME NEW n \in Running(r) PROVE n \in Nat
    OBVIOUS
  <1>3. PICK i \in 1 .. Len(frames[Owner[r]]) : frames[Owner[r]][i].gen = n
    BY RunningIs
  <1>4. QED
    BY <1>1, <1>3, FrameAt

\* An Open() renews one request, and knows which.
LEMMA OpensItsRequest ==
    ASSUME Types, Mutex, NEW t \in Threads, OpenFindsNothing(t) \/ OpenCopies(t)
    PROVE  /\ op[t].request \in Requests /\ Unlock(t) /\ UNCHANGED resolvers
           /\ \/ /\ OpenFindsNothing(t) /\ Find(op[t].key) = NoResolver
                 /\ Renew(op[t].request, ResetForOpen(base[op[t].request]), NoResolver)
              \/ /\ OpenCopies(t)
                 /\ Renew(op[t].request,
                          BeginSchemeResolution(base[op[t].request], Find(op[t].key)),
                          Find(op[t].key))
  <1>1. op[t].kind = "open"
    BY DEF OpenFindsNothing, OpenCopies, Mutex
  <1>2. op[t].request \in Requests
    BY <1>1, OpKinds DEF Types
  <1>3. QED
    BY <1>2 DEF OpenFindsNothing, OpenCopies

-----------------------------------------------------------------------------
(* Types.                                                                  *)

LEMMA TypesStep ==
    ASSUME Types, Mutex, [Next]_vars
    PROVE  Types'
  <1> USE DEF Types
  <1>a. /\ NoThread \notin Threads /\ Owner \in [Requests -> Threads]
        /\ Results \subseteq ResolverResults /\ MaxRegistrations \in Nat
    BY ResolversAssumption DEF ResolversAssumption
  <1>1. CASE \E t \in Threads, s \in Spellings : RegisterCall(t, s)
    <2>1. PICK t \in Threads, s \in Spellings : RegisterCall(t, s)
      BY <1>1
    <2>2. registered + 1 \in 1 .. MaxRegistrations
      BY <1>a, <2>1 DEF RegisterCall
    <2>3. [kind |-> "register", key |-> ToLower(s), registration |-> registered + 1] \in Ops
      BY <2>2, NewOps
    <2>4. QED
      BY <1>a, <2>1, <2>2, <2>3 DEF RegisterCall, Begin, requestVars, openVars
  <1>2. CASE \E t \in Threads, s \in Spellings : UnregisterCall(t, s)
    <2>1. PICK t \in Threads, s \in Spellings : UnregisterCall(t, s)
      BY <1>2
    <2>2. [kind |-> "unregister", key |-> UnregisterKey(s), name |-> s[1]] \in Ops
      BY NewOps
    <2>3. QED
      BY <2>1, <2>2 DEF UnregisterCall, Begin, requestVars, openVars
  <1>3. CASE \E r \in Requests, s \in Spellings : OpenCall(r, s)
    <2>1. PICK r \in Requests, s \in Spellings : OpenCall(r, s)
      BY <1>3
    <2>2. [kind |-> "open", key |-> SchemeOf(s), request |-> r] \in Ops
      BY NewOps
    <2>3. QED
      BY <1>a, <2>1, <2>2 DEF OpenCall, Begin, requestVars, openVars
  <1>4. CASE \E t \in Threads : Lock(t)
    BY <1>4 DEF Lock, requestVars, openVars
  <1>5. CASE \E t \in Threads : Register(t)
    <2>1. PICK t \in Threads : Register(t)
      BY <1>5
    <2>2. op[t].key \in Keys /\ op[t].registration \in 1 .. MaxRegistrations
      BY <2>1, OpKinds DEF Register
    <2>3. /\ DOMAIN resolvers' \subseteq Keys
          /\ \A key \in DOMAIN resolvers' : resolvers'[key] \in 1 .. MaxRegistrations
      BY <2>1, <2>2 DEF Register
    <2>4. QED
      BY <2>1, <2>3, NewOps DEF Register, Unlock, requestVars, openVars
  <1>6. CASE \E t \in Threads : Unregister(t)
    <2>1. PICK t \in Threads : Unregister(t)
      BY <1>6
    <2>2. /\ DOMAIN resolvers' \subseteq Keys
          /\ \A key \in DOMAIN resolvers' : resolvers'[key] \in 1 .. MaxRegistrations
      BY <2>1 DEF Unregister
    <2>3. QED
      BY <2>1, <2>2, NewOps DEF Unregister, Unlock, requestVars, openVars
  <1>b. ASSUME NEW t \in Threads, OpenFindsNothing(t) \/ OpenCopies(t)
        PROVE  Types'
    <2>1. PICK b \in ImplBaseType, n \in Nat : Renew(op[t].request, b, n)
      <3>1. op[t].request \in Requests
        BY <1>b, OpensItsRequest
      <3>2. /\ ResetForOpen(base[op[t].request]) \in ImplBaseType /\ NoResolver \in Nat
            /\ Find(op[t].key) \in Nat
            /\ BeginSchemeResolution(base[op[t].request], Find(op[t].key)) \in ImplBaseType
        BY <3>1, FindType, FreshResponseIsEmpty, DivertedIsEmpty
           DEF ResetForOpen, NoResolver
      <3>3. QED
        BY <1>b, <3>2, OpensItsRequest
    <2>2. op[t].request \in Requests /\ Unlock(t) /\ UNCHANGED resolvers
      BY <1>b, OpensItsRequest
    <2>3. Running(op[t].request) \in SUBSET Nat
      BY <2>2, RunningType
    <2>4. QED
      BY <2>1, <2>2, <2>3, NewOps DEF Renew, Unlock
  <1>7. CASE \E t \in Threads : OpenFindsNothing(t)
    BY <1>7, <1>b
  <1>8. CASE \E t \in Threads : OpenFinds(t)
    BY <1>8 DEF OpenFinds, requestVars, openVars
  <1>9. CASE \E t \in Threads : OpenCopies(t)
    BY <1>9, <1>b
  <1>10. CASE \E r \in Requests : SendCallsResolver(r)
    <2>1. PICK r \in Requests : SendCallsResolver(r)
      BY <1>10
    <2>2. TakeResolver(base[r], gen[r]) \in ImplBaseType
      BY TakeResolverWrites
    <2>3. /\ base[r].pendingResolver \in Nat /\ gen[r] \in Nat
          /\ Owner[r] \in Threads
      BY <1>a, Fields
    <2>4. [request |-> r, resolver |-> base[r].pendingResolver, gen |-> gen[r]] \in Frame
      BY <2>3 DEF Frame
    <2>5. frames' \in [Threads -> Seq(Frame)]
      BY <2>1, <2>3, <2>4 DEF SendCallsResolver
    <2>6. /\ UNCHANGED << resolvers, holder, pc, op, opened, gen, overtaken, bound, registered >>
          /\ base' = [base EXCEPT ![r] = TakeResolver(@, gen[r])]
          /\ called' = [called EXCEPT ![r] = [times |-> @.times + 1,
                                              who |-> base[r].pendingResolver]]
      BY <2>1 DEF SendCallsResolver, openVars
    <2>7. QED
      BY <2>2, <2>3, <2>5, <2>6
  <1>11. CASE \E t \in Threads : ResolverReturns(t)
    <2>1. PICK t \in Threads : ResolverReturns(t)
      BY <1>11
    <2>2. frames[t] \in Seq(Frame) /\ frames[t] # <<>>
      BY <2>1 DEF ResolverReturns
    <2>3. Head(frames[t]) \in Frame /\ Tail(frames[t]) \in Seq(Frame)
      BY <2>2, HeadTailProperties
    <2>4. Head(frames[t]).request \in Requests /\ Head(frames[t]).gen \in Nat
      BY <2>3 DEF Frame
    <2>5. PICK result \in Results :
            base' = [base EXCEPT ![Head(frames[t]).request] =
                       AcceptResult(@, result, "Buffer", Head(frames[t]).gen)]
      BY <2>1 DEF ResolverReturns
    <2>6. AcceptResult(base[Head(frames[t]).request], result, "Buffer",
                       Head(frames[t]).gen) \in ImplBaseType
      BY <1>a, <2>4, AnswerWrites
    <2>7. QED
      BY <2>1, <2>3, <2>4, <2>5, <2>6 DEF ResolverReturns, openVars
  <1>12. CASE UNCHANGED vars
    BY <1>12 DEF vars, openVars
  <1>13. QED
    BY NextCases, <1>1, <1>2, <1>3, <1>4, <1>5, <1>6, <1>7, <1>8, <1>9, <1>10,
       <1>11, <1>12

-----------------------------------------------------------------------------
(* Mutual exclusion.                                                       *)

\* An operation that is called is not in the critical section yet.
LEMMA BeginKeepsMutex ==
    ASSUME Types, Mutex, NEW t \in Threads, NEW o \in Ops, Begin(t, o),
           pc[t] = "free", o.kind # "none",
           o.kind = "unregister" => o.key = <<o.name, "lower">>
    PROVE  Mutex'
  <1>1. pc[t] = "free" => holder # t
    BY DEF Mutex, MutexIsHeldInside
  <1>2. QED
    BY <1>1 DEF Types, Mutex, MutexIsHeldInside, Begin, Find

\* An operation that ends leaves nobody in the critical section.
LEMMA UnlockKeepsMutex ==
    ASSUME Types, Mutex, NEW t \in Threads, pc[t] \in {"locked", "found"}, Unlock(t)
    PROVE  Mutex'
  <1>1. \A u \in Threads \ {t} : pc[u] \notin {"locked", "found"}
    BY DEF Mutex, MutexIsHeldInside
  <1>2. NoThread \notin Threads
    BY ResolversAssumption DEF ResolversAssumption
  <1>3. QED
    BY <1>1, <1>2, NewOps DEF Types, Mutex, MutexIsHeldInside, Unlock

LEMMA MutexStep ==
    ASSUME Types, Mutex, [Next]_vars
    PROVE  Mutex'
  <1>a. Owner \in [Requests -> Threads] /\ NoThread \notin Threads
    BY ResolversAssumption DEF ResolversAssumption
  <1>1. CASE \E t \in Threads, s \in Spellings : RegisterCall(t, s)
    <2>1. PICK t \in Threads, s \in Spellings : RegisterCall(t, s)
      BY <1>1
    <2>2. registered + 1 \in 1 .. MaxRegistrations
      BY <2>1, ResolversAssumption DEF RegisterCall, ResolversAssumption, Types
    <2>3. [kind |-> "register", key |-> ToLower(s), registration |-> registered + 1] \in Ops
      BY <2>2, NewOps
    <2>4. QED
      BY <2>1, <2>3, BeginKeepsMutex DEF RegisterCall, Free
  <1>2. CASE \E t \in Threads, s \in Spellings : UnregisterCall(t, s)
    <2>1. PICK t \in Threads, s \in Spellings : UnregisterCall(t, s)
      BY <1>2
    <2>2. /\ [kind |-> "unregister", key |-> UnregisterKey(s), name |-> s[1]] \in Ops
          /\ UnregisterKey(s) = <<s[1], "lower">>
      BY NewOps DEF UnregisterKey
    <2>3. QED
      BY <2>1, <2>2, BeginKeepsMutex DEF UnregisterCall, Free
  <1>3. CASE \E r \in Requests, s \in Spellings : OpenCall(r, s)
    <2>1. PICK r \in Requests, s \in Spellings : OpenCall(r, s)
      BY <1>3
    <2>2. [kind |-> "open", key |-> SchemeOf(s), request |-> r] \in Ops
      BY NewOps
    <2>3. QED
      BY <1>a, <2>1, <2>2, BeginKeepsMutex DEF OpenCall, Free
  <1>4. CASE \E t \in Threads : Lock(t)
    <2>1. PICK t \in Threads : Lock(t)
      BY <1>4
    <2>2. \A u \in Threads : pc[u] \notin {"locked", "found"}
      BY <1>a, <2>1 DEF Lock, Mutex, MutexIsHeldInside
    <2>3. QED
      BY <2>1, <2>2 DEF Lock, Types, Mutex, MutexIsHeldInside, Find
  <1>5. CASE \E t \in Threads : Register(t)
    BY <1>5, UnlockKeepsMutex DEF Register
  <1>6. CASE \E t \in Threads : Unregister(t)
    BY <1>6, UnlockKeepsMutex DEF Unregister
  <1>7. CASE \E t \in Threads : OpenFindsNothing(t)
    BY <1>7, UnlockKeepsMutex DEF OpenFindsNothing
  <1>8. CASE \E t \in Threads : OpenFinds(t)
    BY <1>8 DEF OpenFinds, Types, Mutex, MutexIsHeldInside, Find
  <1>9. CASE \E t \in Threads : OpenCopies(t)
    BY <1>9, UnlockKeepsMutex DEF OpenCopies
  <1>10. CASE \E r \in Requests : SendCallsResolver(r)
    BY <1>10 DEF SendCallsResolver, Mutex, MutexIsHeldInside, Find
  <1>11. CASE \E t \in Threads : ResolverReturns(t)
    BY <1>11 DEF ResolverReturns, Mutex, MutexIsHeldInside, Find
  <1>12. CASE UNCHANGED vars
    BY <1>12 DEF vars, Mutex, MutexIsHeldInside, Find
  <1>13. QED
    BY NextCases, <1>1, <1>2, <1>3, <1>4, <1>5, <1>6, <1>7, <1>8, <1>9, <1>10,
       <1>11, <1>12

-----------------------------------------------------------------------------
(* The stacks.                                                             *)

\* What the call of a resolver puts on the stack, and what its return leaves.
LEMMA Pushed ==
    ASSUME NEW S, NEW e \in S, NEW s \in Seq(S)
    PROVE  /\ Len(<<e>> \o s) = Len(s) + 1
           /\ (<<e>> \o s)[1] = e
           /\ \A i \in 2 .. Len(s) + 1 : i - 1 \in 1 .. Len(s) /\ (<<e>> \o s)[i] = s[i - 1]
  OBVIOUS

LEMMA Popped ==
    ASSUME NEW S, NEW s \in Seq(S), s # <<>>
    PROVE  /\ Len(s) \in Nat /\ Len(s) > 0 /\ Head(s) = s[1]
           /\ Len(Tail(s)) = Len(s) - 1
           /\ \A i \in 1 .. Len(s) - 1 : i + 1 \in 2 .. Len(s) /\ Tail(s)[i] = s[i + 1]
  OBVIOUS

\* A step that neither calls nor returns nor opens.
LEMMA StackStays ==
    ASSUME Stack, UNCHANGED << frames, openVars >>
    PROVE  Stack'
  BY DEF Stack, Numbers, openVars

\* The resolvers that run for a request are of Open() calls that are accounted for.
LEMMA RunningIsNumbered ==
    ASSUME Types, Stack, NEW r \in Requests
    PROVE  Running(r) \subseteq Numbers(r)
  <1>1. Owner[r] \in Threads
    BY ResolversAssumption DEF ResolversAssumption
  <1>2. QED
    BY <1>1, RunningIs DEF Stack

\* An Open() gives its request a number that no request had, and leaves it those
\* of the resolvers that run for it.
LEMMA NumbersOfRenewed ==
    ASSUME Types, NEW r \in Requests, NEW b, NEW n, Renew(r, b, n)
    PROVE  /\ opened' = opened + 1 /\ gen'[r] = opened + 1
           /\ Numbers(r)' = {opened + 1} \cup Running(r)
           /\ \A q \in Requests : q # r => Numbers(q)' = Numbers(q) /\ gen'[q] = gen[q]
  BY DEF Types, Renew, Numbers

LEMMA NumbersOpen ==
    ASSUME Types, NumbersAreTheirs, Stack, NEW r \in Requests, NEW b, NEW n, Renew(r, b, n)
    PROVE  NumbersAreTheirs'
  <1>1. opened \in Nat /\ opened' = opened + 1
    BY NumbersOfRenewed DEF Types
  <1>2. Numbers(r)' \subseteq {opened + 1} \cup Numbers(r)
    BY NumbersOfRenewed, RunningIsNumbered
  <1>3. \A q \in Requests : q # r => Numbers(q)' = Numbers(q)
    BY NumbersOfRenewed
  <1>4. \A q \in Requests : Numbers(q) \subseteq 0 .. opened
    BY DEF NumbersAreTheirs
  <1>5. \A q \in Requests : Numbers(q)' \subseteq 0 .. opened'
    <2>1. {opened + 1} \cup 0 .. opened \subseteq 0 .. opened + 1
      BY <1>1
    <2>2. QED
      BY <1>1, <1>2, <1>3, <1>4, <2>1
  <1>6. ASSUME NEW p \in Requests, NEW q \in Requests, p # q
        PROVE  Numbers(p)' \cap Numbers(q)' \subseteq {NoOne}
    <2>1. Numbers(p) \cap Numbers(q) \subseteq {NoOne}
      BY <1>6 DEF NumbersAreTheirs
    <2>2. opened + 1 \notin Numbers(p) /\ opened + 1 \notin Numbers(q)
      BY <1>1, <1>4
    <2>3. CASE p = r
      BY <1>2, <1>3, <1>6, <2>1, <2>2, <2>3
    <2>4. CASE q = r
      BY <1>2, <1>3, <1>6, <2>1, <2>2, <2>4
    <2>5. CASE p # r /\ q # r
      BY <1>3, <2>1, <2>5
    <2>6. QED
      BY <2>3, <2>4, <2>5
  <1>7. QED
    BY <1>5, <1>6 DEF NumbersAreTheirs

\* An Open() overtakes the resolvers that run for its request.
LEMMA StackOpen ==
    ASSUME Types, Stack, NEW r \in Requests, NEW b, NEW n, Renew(r, b, n), UNCHANGED frames
    PROVE  Stack'
  <1>1. ASSUME NEW u \in Threads, NEW i \in 1 .. Len(frames[u])
        PROVE  /\ Owner[frames[u][i].request] = u
               /\ frames[u][i].gen \in Numbers(frames[u][i].request)'
    <2>1. /\ Owner[frames[u][i].request] = u
          /\ frames[u][i].gen \in Numbers(frames[u][i].request)
          /\ frames[u][i].request \in Requests
      BY <1>1, FrameAt DEF Stack
    <2>2. CASE frames[u][i].request # r
      BY <2>1, <2>2, NumbersOfRenewed
    <2>3. CASE frames[u][i].request = r
      <3>1. frames[u][i].gen \in Running(r)
        BY <2>1, <2>3, RunningIs
      <3>2. QED
        BY <2>1, <2>3, <3>1, NumbersOfRenewed
    <2>4. QED
      BY <2>2, <2>3
  <1>2. \A u \in Threads : \A i, j \in 1 .. Len(frames[u]) :
           /\ frames[u][i].request = frames[u][j].request
           /\ frames[u][i].gen = frames[u][j].gen
           => i = j
    BY DEF Stack
  <1>3. QED
    BY <1>1, <1>2 DEF Stack

\* A stack that differs from the one before in the thread t only.
LEMMA StackOf ==
    ASSUME Stack, NEW t \in Threads, UNCHANGED openVars,
           \A u \in Threads \ {t} : frames'[u] = frames[u],
           \A i \in 1 .. Len(frames'[t]) :
              /\ Owner[frames'[t][i].request] = t
              /\ frames'[t][i].gen \in Numbers(frames'[t][i].request),
           \A i, j \in 1 .. Len(frames'[t]) :
              /\ frames'[t][i].request = frames'[t][j].request
              /\ frames'[t][i].gen = frames'[t][j].gen
              => i = j
    PROVE  Stack'
  <1>1. \A r : Numbers(r)' = Numbers(r)
    BY DEF Numbers, openVars
  <1>2. SUFFICES ASSUME NEW u \in Threads
                 PROVE  /\ \A i \in 1 .. Len(frames'[u]) :
                              /\ Owner[frames'[u][i].request] = u
                              /\ frames'[u][i].gen \in Numbers(frames'[u][i].request)
                        /\ \A i, j \in 1 .. Len(frames'[u]) :
                              /\ frames'[u][i].request = frames'[u][j].request
                              /\ frames'[u][i].gen = frames'[u][j].gen
                              => i = j
    BY <1>1 DEF Stack
  <1>3. CASE u = t
    BY <1>3
  <1>4. CASE u # t
    BY <1>4 DEF Stack
  <1>5. QED
    BY <1>3, <1>4

LEMMA StackStep ==
    ASSUME Types, Mutex, Stack, Calls, [Next]_vars
    PROVE  Stack'
  <1>a. Owner \in [Requests -> Threads] /\ NoThread \notin Threads
    BY ResolversAssumption DEF ResolversAssumption
  <1>b. ASSUME NEW t \in Threads, OpenFindsNothing(t) \/ OpenCopies(t)
        PROVE  Stack'
    BY <1>b, OpensItsRequest, StackOpen DEF Unlock
  <1>1. CASE \E t \in Threads, s \in Spellings : RegisterCall(t, s)
    BY <1>1, StackStays DEF RegisterCall, Begin, requestVars
  <1>2. CASE \E t \in Threads, s \in Spellings : UnregisterCall(t, s)
    BY <1>2, StackStays DEF UnregisterCall, Begin, requestVars
  <1>3. CASE \E r \in Requests, s \in Spellings : OpenCall(r, s)
    BY <1>3, StackStays DEF OpenCall, Begin, requestVars
  <1>4. CASE \E t \in Threads : Lock(t)
    BY <1>4, StackStays DEF Lock, requestVars
  <1>5. CASE \E t \in Threads : Register(t)
    BY <1>5, StackStays DEF Register, Unlock, requestVars
  <1>6. CASE \E t \in Threads : Unregister(t)
    BY <1>6, StackStays DEF Unregister, Unlock, requestVars
  <1>7. CASE \E t \in Threads : OpenFindsNothing(t)
    BY <1>7, <1>b
  <1>8. CASE \E t \in Threads : OpenFinds(t)
    BY <1>8, StackStays DEF OpenFinds, requestVars
  <1>9. CASE \E t \in Threads : OpenCopies(t)
    BY <1>9, <1>b
  <1>10. CASE \E r \in Requests : SendCallsResolver(r)
    <2>1. PICK r \in Requests : SendCallsResolver(r)
      BY <1>10
    <2> DEFINE t == Owner[r]
               e == [request |-> r, resolver |-> base[r].pendingResolver, gen |-> gen[r]]
    <2>2. t \in Threads /\ e \in Frame /\ e.request = r /\ e.gen = gen[r] /\ gen[r] \in Nat
      BY <1>a, Fields DEF Types, Frame
    <2>3. /\ frames' = [frames EXCEPT ![t] = <<e>> \o @]
          /\ UNCHANGED openVars
      BY <2>1, <2>2 DEF SendCallsResolver
    <2>4. \A i \in 1 .. Len(frames[t]) : frames[t][i].request = r => frames[t][i].gen # gen[r]
      <3>1. base[r].pendingResolver # NoResolver
        BY <2>1 DEF SendCallsResolver
      <3>2. ~OnStack(r)
        BY <3>1 DEF Calls, Untouched
      <3>3. QED
        BY <2>2, <3>2 DEF OnStack
    <2>5. /\ frames'[t] = <<e>> \o frames[t] /\ Len(frames[t]) \in Nat
          /\ \A u \in Threads \ {t} : frames'[u] = frames[u]
      BY <2>2, <2>3 DEF Types
    <2>6. /\ Len(frames'[t]) = Len(frames[t]) + 1
          /\ frames'[t][1] = e
          /\ \A i \in 2 .. Len(frames[t]) + 1 :
                i - 1 \in 1 .. Len(frames[t]) /\ frames'[t][i] = frames[t][i - 1]
      <3>1. frames[t] \in Seq(Frame)
        BY <2>2 DEF Types
      <3>2. QED
        BY <2>2, <2>5, <3>1, Pushed
    <2> HIDE DEF e
    <2>7. \A i \in 1 .. Len(frames'[t]) :
             /\ Owner[frames'[t][i].request] = t
             /\ frames'[t][i].gen \in Numbers(frames'[t][i].request)
      <3>1. TAKE i \in 1 .. Len(frames'[t])
      <3>2. CASE i = 1
        BY <2>2, <2>6, <3>2 DEF Numbers
      <3>3. CASE i \in 2 .. Len(frames[t]) + 1
        <4>1. i - 1 \in 1 .. Len(frames[t]) /\ frames'[t][i] = frames[t][i - 1]
          BY <2>6, <3>3
        <4>2. /\ Owner[frames[t][i - 1].request] = t
              /\ frames[t][i - 1].gen \in Numbers(frames[t][i - 1].request)
          BY <2>2, <4>1 DEF Stack
        <4>3. QED
          BY <4>1, <4>2
      <3>4. QED
        BY <2>5, <2>6, <3>2, <3>3
    <2>8. \A i, j \in 1 .. Len(frames'[t]) :
             /\ frames'[t][i].request = frames'[t][j].request
             /\ frames'[t][i].gen = frames'[t][j].gen
             => i = j
      <3>1. SUFFICES ASSUME NEW i \in 1 .. Len(frames'[t]), NEW j \in 1 .. Len(frames'[t]),
                            frames'[t][i].request = frames'[t][j].request,
                            frames'[t][i].gen = frames'[t][j].gen
                     PROVE  i = j
        OBVIOUS
      <3>2. /\ i = 1 \/ i \in 2 .. Len(frames[t]) + 1
            /\ j = 1 \/ j \in 2 .. Len(frames[t]) + 1
        BY <2>5, <2>6
      <3>3. CASE i = 1 /\ j \in 2 .. Len(frames[t]) + 1
        <4>1. j - 1 \in 1 .. Len(frames[t]) /\ frames'[t][j] = frames[t][j - 1]
          BY <2>6, <3>3
        <4>2. frames[t][j - 1].request = r /\ frames[t][j - 1].gen = gen[r]
          BY <2>2, <2>6, <3>1, <3>3, <4>1
        <4>3. QED
          BY <2>4, <4>1, <4>2
      <3>4. CASE j = 1 /\ i \in 2 .. Len(frames[t]) + 1
        <4>1. i - 1 \in 1 .. Len(frames[t]) /\ frames'[t][i] = frames[t][i - 1]
          BY <2>6, <3>4
        <4>2. frames[t][i - 1].request = r /\ frames[t][i - 1].gen = gen[r]
          BY <2>2, <2>6, <3>1, <3>4, <4>1
        <4>3. QED
          BY <2>4, <4>1, <4>2
      <3>5. CASE i \in 2 .. Len(frames[t]) + 1 /\ j \in 2 .. Len(frames[t]) + 1
        <4>1. i - 1 = j - 1
          <5>1. /\ i - 1 \in 1 .. Len(frames[t]) /\ frames'[t][i] = frames[t][i - 1]
                /\ j - 1 \in 1 .. Len(frames[t]) /\ frames'[t][j] = frames[t][j - 1]
            BY <2>6, <3>5
          <5>2. /\ frames[t][i - 1].request = frames[t][j - 1].request
                /\ frames[t][i - 1].gen = frames[t][j - 1].gen
            BY <3>1, <5>1
          <5>3. QED
            BY <2>2, <5>1, <5>2 DEF Stack
        <4>2. QED
          BY <2>5, <3>5, <4>1
      <3>6. QED
        BY <3>2, <3>3, <3>4, <3>5
    <2>9. QED
      BY <2>2, <2>3, <2>5, <2>7, <2>8, StackOf
  <1>11. CASE \E t \in Threads : ResolverReturns(t)
    <2>1. PICK t \in Threads : ResolverReturns(t)
      BY <1>11
    <2>2. /\ frames' = [frames EXCEPT ![t] = Tail(@)] /\ UNCHANGED openVars
          /\ frames[t] # <<>>
      BY <2>1 DEF ResolverReturns
    <2>3. /\ frames'[t] = Tail(frames[t]) /\ frames[t] \in Seq(Frame)
          /\ \A u \in Threads \ {t} : frames'[u] = frames[u]
      BY <2>2 DEF Types
    <2>4. /\ Len(frames[t]) \in Nat /\ Len(frames'[t]) = Len(frames[t]) - 1
          /\ \A i \in 1 .. Len(frames[t]) - 1 :
                i + 1 \in 2 .. Len(frames[t]) /\ frames'[t][i] = frames[t][i + 1]
      BY <2>2, <2>3, Popped
    <2>5. \A i \in 1 .. Len(frames'[t]) :
             /\ Owner[frames'[t][i].request] = t
             /\ frames'[t][i].gen \in Numbers(frames'[t][i].request)
      <3>1. TAKE i \in 1 .. Len(frames'[t])
      <3>2. i + 1 \in 1 .. Len(frames[t]) /\ frames'[t][i] = frames[t][i + 1]
        BY <2>4
      <3>3. /\ Owner[frames[t][i + 1].request] = t
            /\ frames[t][i + 1].gen \in Numbers(frames[t][i + 1].request)
        BY <3>2 DEF Stack
      <3>4. QED
        BY <3>2, <3>3
    <2>6. \A i, j \in 1 .. Len(frames'[t]) :
             /\ frames'[t][i].request = frames'[t][j].request
             /\ frames'[t][i].gen = frames'[t][j].gen
             => i = j
      <3>1. SUFFICES ASSUME NEW i \in 1 .. Len(frames'[t]), NEW j \in 1 .. Len(frames'[t]),
                            frames'[t][i].request = frames'[t][j].request,
                            frames'[t][i].gen = frames'[t][j].gen
                     PROVE  i = j
        OBVIOUS
      <3>2. i + 1 = j + 1
        <4>1. /\ i + 1 \in 1 .. Len(frames[t]) /\ frames'[t][i] = frames[t][i + 1]
              /\ j + 1 \in 1 .. Len(frames[t]) /\ frames'[t][j] = frames[t][j + 1]
          BY <2>4
        <4>2. /\ frames[t][i + 1].request = frames[t][j + 1].request
              /\ frames[t][i + 1].gen = frames[t][j + 1].gen
          BY <3>1, <4>1
        <4>3. QED
          BY <4>1, <4>2 DEF Stack
      <3>3. QED
        BY <2>4, <3>2
    <2>7. QED
      BY <2>2, <2>3, <2>5, <2>6, StackOf
  <1>12. CASE UNCHANGED vars
    BY <1>12, StackStays DEF vars, openVars
  <1>13. QED
    BY NextCases, <1>1, <1>2, <1>3, <1>4, <1>5, <1>6, <1>7, <1>8, <1>9, <1>10,
       <1>11, <1>12

\* Nothing but an Open() gives out numbers.
LEMMA NumbersStep ==
    ASSUME Types, Mutex, NumbersAreTheirs, Stack, [Next]_vars
    PROVE  NumbersAreTheirs'
  <1>1. ASSUME UNCHANGED openVars PROVE NumbersAreTheirs'
    BY <1>1 DEF NumbersAreTheirs, Numbers, openVars
  <1>2. ASSUME NEW t \in Threads, OpenFindsNothing(t) \/ OpenCopies(t)
        PROVE  NumbersAreTheirs'
    BY <1>2, OpensItsRequest, NumbersOpen
  <1>3. QED
    BY NextCases, <1>1, <1>2
       DEF RegisterCall, UnregisterCall, OpenCall, Begin, Lock, Register, Unregister,
           OpenFinds, SendCallsResolver, ResolverReturns, requestVars, vars, openVars

-----------------------------------------------------------------------------
(* The calls.                                                              *)

\* What the steps that leave the stacks alone leave alone with them.
LEMMA StackKept ==
    ASSUME UNCHANGED << frames, gen >>, NEW r
    PROVE  OnStack(r)' <=> OnStack(r)
  BY DEF OnStack

\* A request that has just been opened has no resolver running for it.
LEMMA RenewedIsOffStack ==
    ASSUME Types, NumbersAreTheirs, Stack, NEW q \in Requests, NEW b, NEW n,
           Renew(q, b, n), UNCHANGED frames
    PROVE  /\ ~OnStack(q)'
           /\ \A r \in Requests : r # q => (OnStack(r)' <=> OnStack(r))
  <1>1. ASSUME NEW u \in Threads, NEW i \in 1 .. Len(frames[u]),
               frames[u][i].request = q, frames[u][i].gen = gen'[q]
        PROVE  FALSE
    <2>1. gen'[q] = opened + 1 /\ opened \in Nat
      BY NumbersOfRenewed DEF Types
    <2>2. frames[u][i].gen \in 0 .. opened
      BY <1>1 DEF Stack, NumbersAreTheirs
    <2>3. QED
      BY <1>1, <2>1, <2>2
  <1>2. ~OnStack(q)'
    BY <1>1 DEF OnStack
  <1>3. \A r \in Requests : r # q => (OnStack(r)' <=> OnStack(r))
    BY NumbersOfRenewed DEF OnStack
  <1>4. QED
    BY <1>2, <1>3

\* No Open() has two resolvers on one stack.
LEMMA OncePerCall ==
    ASSUME Stack, NEW t \in Threads,
           NEW i \in 1 .. Len(frames[t]), NEW j \in 1 .. Len(frames[t]),
           frames[t][i].request = frames[t][j].request,
           frames[t][i].gen = frames[t][j].gen
    PROVE  i = j
  BY DEF Stack

\* A step that touches neither a response nor a stack.
LEMMA CallsStay ==
    ASSUME Calls, UNCHANGED << requestVars, frames >>
    PROVE  Calls'
  BY StackKept DEF Calls, Callable, Untouched, requestVars, openVars

\* A step that renews the response of one request.
LEMMA CallsRenew ==
    ASSUME Types, NumbersAreTheirs, Stack, Calls, NEW q \in Requests, NEW b, NEW n,
           Renew(q, b, n), UNCHANGED frames,
           b.pendingResolver # NoResolver =>
              b.status = NoStatus /\ ~Failed(b) /\ n = b.pendingResolver
    PROVE  Calls'
  <1>1. ~OnStack(q)' /\ \A r \in Requests : r # q => (OnStack(r)' <=> OnStack(r))
    BY RenewedIsOffStack
  <1>2. Callable(q)'
    BY DEF Types, Renew, Callable
  <1>3. ASSUME NEW r \in Requests, r # q
        PROVE  Callable(r)' /\ (OnStack(r)' => Untouched(r)')
    BY <1>1, <1>3 DEF Types, Renew, Calls, Callable, Untouched
  <1>4. QED
    BY <1>1, <1>2, <1>3 DEF Calls

LEMMA CallsStep ==
    ASSUME Types, Mutex, NumbersAreTheirs, Stack, Calls, [Next]_vars
    PROVE  Calls'
  <1>a. Owner \in [Requests -> Threads] /\ Results \subseteq ResolverResults
    BY ResolversAssumption DEF ResolversAssumption
  <1>b. ASSUME NEW t \in Threads, OpenFindsNothing(t) \/ OpenCopies(t)
        PROVE  Calls'
    <2>1. op[t].request \in Requests /\ UNCHANGED frames
      BY <1>b, OpensItsRequest DEF Unlock
    <2>2. /\ ResetForOpen(base[op[t].request]).pendingResolver = NoResolver
          /\ base[op[t].request] \in ImplBaseType /\ Find(op[t].key) \in Nat
      BY <2>1, FreshResponseIsEmpty, FindType DEF ResetForOpen, Types
    <2> DEFINE b == BeginSchemeResolution(base[op[t].request], Find(op[t].key))
    <2>3. b.pendingResolver = Find(op[t].key) /\ b.status = NoStatus /\ ~Failed(b)
      BY <2>2, DivertedIsEmpty
    <2>4. \/ Renew(op[t].request, ResetForOpen(base[op[t].request]), NoResolver)
          \/ Renew(op[t].request, b, Find(op[t].key))
      BY <1>b, OpensItsRequest
    <2> HIDE DEF b
    <2>5. QED
      BY <2>1, <2>2, <2>3, <2>4, CallsRenew
  <1>1. CASE \E t \in Threads, s \in Spellings : RegisterCall(t, s)
    BY <1>1, CallsStay DEF RegisterCall, Begin
  <1>2. CASE \E t \in Threads, s \in Spellings : UnregisterCall(t, s)
    BY <1>2, CallsStay DEF UnregisterCall, Begin
  <1>3. CASE \E r \in Requests, s \in Spellings : OpenCall(r, s)
    BY <1>3, CallsStay DEF OpenCall, Begin
  <1>4. CASE \E t \in Threads : Lock(t)
    BY <1>4, CallsStay DEF Lock
  <1>5. CASE \E t \in Threads : Register(t)
    BY <1>5, CallsStay DEF Register, Unlock
  <1>6. CASE \E t \in Threads : Unregister(t)
    BY <1>6, CallsStay DEF Unregister, Unlock
  <1>7. CASE \E t \in Threads : OpenFindsNothing(t)
    BY <1>7, <1>b
  <1>8. CASE \E t \in Threads : OpenFinds(t)
    BY <1>8, CallsStay DEF OpenFinds
  <1>9. CASE \E t \in Threads : OpenCopies(t)
    BY <1>9, <1>b
  <1>10. CASE \E r \in Requests : SendCallsResolver(r)
    <2>1. PICK r \in Requests : SendCallsResolver(r)
      BY <1>10
    <2> DEFINE t == Owner[r]
               e == [request |-> r, resolver |-> base[r].pendingResolver, gen |-> gen[r]]
               b == TakeResolver(base[r], gen[r])
    <2>2. /\ t \in Threads /\ e \in Frame /\ e.request = r
          /\ base[r] \in ImplBaseType /\ gen[r] \in Nat
          /\ frames[t] \in Seq(Frame)
      BY <1>a, Fields DEF Types, Frame
    <2>3. /\ b.pendingResolver = NoResolver /\ b.responseUrl = gen[r]
          /\ b.status = base[r].status /\ b.error = base[r].error
      BY <2>2, TakeResolverWrites DEF TakeResolver, ImplBaseType
    <2>4. /\ overtaken[r] = {} => base[r].status = NoStatus /\ ~Failed(base[r])
          /\ bound[r] = base[r].pendingResolver
          /\ called[r] = [times |-> 0, who |-> 0]
      BY <2>1 DEF SendCallsResolver, Calls, Callable
    <2>5. /\ base' = [base EXCEPT ![r] = b]
          /\ frames' = [frames EXCEPT ![t] = <<e>> \o @]
          /\ called' = [called EXCEPT ![r] = [times |-> @.times + 1,
                                              who |-> base[r].pendingResolver]]
          /\ UNCHANGED << gen, overtaken, bound >>
      BY <2>1 DEF SendCallsResolver, openVars
    <2>6. base'[r] = b /\ called'[r] = [times |-> 1, who |-> bound[r]]
      BY <2>4, <2>5 DEF Types
    <2> HIDE DEF e, b
    <2>7. Untouched(r)' /\ Callable(r)'
      BY <2>3, <2>4, <2>5, <2>6 DEF Untouched, Callable, Failed
    <2>8. ASSUME NEW q \in Requests, q # r, OnStack(q)'
          PROVE  OnStack(q)
      <3>1. PICK u \in Threads : \E i \in 1 .. Len(frames'[u]) :
               frames'[u][i].request = q /\ frames'[u][i].gen = gen'[q]
        BY <2>8 DEF OnStack
      <3>2. PICK i \in 1 .. Len(frames'[u]) :
               frames'[u][i].request = q /\ frames'[u][i].gen = gen[q]
        BY <2>5, <3>1
      <3>3. CASE u # t
        BY <2>5, <3>2, <3>3 DEF OnStack, Types
      <3>4. CASE u = t
        <4>1. frames'[u] = <<e>> \o frames[t]
          BY <2>2, <2>5, <3>4 DEF Types
        <4>2. /\ Len(frames'[u]) = Len(frames[t]) + 1 /\ Len(frames[t]) \in Nat
              /\ frames'[u][1] = e
              /\ i \in 2 .. Len(frames[t]) + 1 =>
                    i - 1 \in 1 .. Len(frames[t]) /\ frames'[u][i] = frames[t][i - 1]
          BY <2>2, <4>1, Pushed
        <4>3. i # 1
          BY <2>2, <2>8, <3>2, <4>2
        <4>4. i - 1 \in 1 .. Len(frames[t]) /\ frames'[u][i] = frames[t][i - 1]
          BY <4>2, <4>3
        <4>5. QED
          BY <2>2, <3>2, <4>4 DEF OnStack
      <3>5. QED
        BY <3>3, <3>4
    <2>9. ASSUME NEW q \in Requests, q # r
          PROVE  Callable(q)' /\ (OnStack(q)' => Untouched(q)')
      BY <2>5, <2>8, <2>9 DEF Calls, Callable, Untouched, Types
    <2>10. QED
      BY <2>7, <2>9 DEF Calls
  <1>11. CASE \E t \in Threads : ResolverReturns(t)
    <2>1. PICK t \in Threads : ResolverReturns(t)
      BY <1>11
    <2> DEFINE r == frames[t][1].request
               n == frames[t][1].gen
    <2>2. /\ frames[t] \in Seq(Frame) /\ frames[t] # <<>>
          /\ Head(frames[t]) = frames[t][1] /\ 1 \in 1 .. Len(frames[t])
      <3>1. frames[t] \in Seq(Frame) /\ frames[t] # <<>>
        BY <2>1 DEF ResolverReturns, Types
      <3>2. QED
        BY <3>1, Popped
    <2>3. r \in Requests /\ n \in Nat /\ base[r] \in ImplBaseType
      BY <2>2, FrameAt DEF Types
    <2>4. PICK result \in Results :
             base' = [base EXCEPT ![r] = AcceptResult(@, result, "Buffer", n)]
      BY <2>1, <2>2 DEF ResolverReturns
    <2>5. /\ frames' = [frames EXCEPT ![t] = Tail(@)]
          /\ UNCHANGED << gen, overtaken, bound, called >>
      BY <2>1 DEF ResolverReturns, openVars
    <2>6. /\ base'[r].pendingResolver = base[r].pendingResolver
          /\ base'[r].responseUrl = base[r].responseUrl
      <3>1. base'[r] = AcceptResult(base[r], result, "Buffer", n)
        BY <2>3, <2>4 DEF Types
      <3>2. QED
        BY <1>a, <2>3, <3>1, AnswerWrites, AnswerKeepsUrl
    <2>7. \A q \in Requests : q # r => base'[q] = base[q]
      BY <2>4 DEF Types
    <2>8. n = gen[r] => OnStack(r)
      BY <2>2 DEF OnStack
    <2>9. n # gen[r] => overtaken[r] # {}
      BY <2>2 DEF Stack, Numbers
    <2>10. ASSUME NEW q \in Requests, OnStack(q)'
           PROVE  OnStack(q) /\ (q = r => n # gen[r])
      <3>1. PICK u \in Threads : \E i \in 1 .. Len(frames'[u]) :
               frames'[u][i].request = q /\ frames'[u][i].gen = gen'[q]
        BY <2>10 DEF OnStack
      <3>2. PICK i \in 1 .. Len(frames'[u]) :
               frames'[u][i].request = q /\ frames'[u][i].gen = gen[q]
        BY <2>5, <3>1
      <3>3. CASE u # t
        <4>1. frames'[u] = frames[u]
          BY <2>5, <3>3 DEF Types
        <4>2. i \in 1 .. Len(frames[u]) /\ frames[u][i].request = q /\ frames[u][i].gen = gen[q]
          BY <3>2, <4>1
        <4>3. Owner[q] = u /\ Owner[r] = t
          BY <2>2, <4>2 DEF Stack
        <4>4. QED
          BY <3>3, <4>2, <4>3 DEF OnStack
      <3>4. CASE u = t
        <4>1. frames'[u] = Tail(frames[t])
          BY <2>5, <3>4 DEF Types
        <4>2. i + 1 \in 2 .. Len(frames[t]) /\ frames'[u][i] = frames[t][i + 1]
          BY <2>2, <4>1, Popped
        <4>3. /\ i + 1 \in 1 .. Len(frames[t]) /\ i + 1 # 1
              /\ frames[t][i + 1].request = q /\ frames[t][i + 1].gen = gen[q]
          BY <2>2, <3>2, <4>2
        <4>4. ~(frames[t][1].request = q /\ frames[t][1].gen = gen[q])
          <5>1. 1 \in 1 .. Len(frames[t])
            BY <2>2
          <5>2. frames[t][1].request = frames[t][i + 1].request
                /\ frames[t][1].gen = frames[t][i + 1].gen => i + 1 = 1
            BY <4>3, <5>1, OncePerCall
          <5>3. QED
            BY <4>3, <5>2
        <4>5. QED
          BY <4>3, <4>4 DEF OnStack
      <3>5. QED
        BY <3>3, <3>4
    <2> HIDE DEF r, n
    <2>11. ASSUME NEW q \in Requests
           PROVE  Callable(q)' /\ (OnStack(q)' => Untouched(q)')
      <3>1. Callable(q)'
        BY <2>5, <2>6, <2>7, <2>8, <2>9 DEF Calls, Callable, Untouched
      <3>2. OnStack(q)' => Untouched(q)'
        BY <2>5, <2>6, <2>7, <2>9, <2>10 DEF Calls, Untouched
      <3>3. QED
        BY <3>1, <3>2
    <2>12. QED
      BY <2>11 DEF Calls
  <1>12. CASE UNCHANGED vars
    BY <1>12, CallsStay DEF vars, requestVars, openVars
  <1>13. QED
    BY NextCases, <1>1, <1>2, <1>3, <1>4, <1>5, <1>6, <1>7, <1>8, <1>9, <1>10,
       <1>11, <1>12

-----------------------------------------------------------------------------
(* The answers.                                                            *)

\* What changes the response of one request, if at all, changes it within the
\* numbers that the request may show.
LEMMA AnswersOf ==
    ASSUME Types, AnswersStayWithTheirOpen, NEW r \in Requests, NEW b,
           base' = [base EXCEPT ![r] = b], UNCHANGED openVars,
           OnlyFromThese(base[r], Numbers(r)) => OnlyFromThese(b, Numbers(r))
    PROVE  AnswersStayWithTheirOpen'
  <1>1. SUFFICES ASSUME NEW q \in Requests
                 PROVE  OnlyFromThese(base'[q], Numbers(q)')
    BY DEF AnswersStayWithTheirOpen, Numbers
  <1>2. Numbers(q)' = Numbers(q) /\ OnlyFromThese(base[q], Numbers(q))
    BY DEF AnswersStayWithTheirOpen, Numbers, openVars
  <1>3. base'[q] = IF q = r THEN b ELSE base[q]
    BY DEF Types
  <1>4. QED
    BY <1>2, <1>3

\* An Open() leaves an empty response.
LEMMA AnswersRenew ==
    ASSUME Types, AnswersStayWithTheirOpen, NEW r \in Requests, NEW b, NEW n,
           Renew(r, b, n), \A reqs : OnlyFromThese(b, reqs)
    PROVE  AnswersStayWithTheirOpen'
  <1>1. SUFFICES ASSUME NEW q \in Requests
                 PROVE  OnlyFromThese(base'[q], Numbers(q)')
    BY DEF AnswersStayWithTheirOpen, Numbers
  <1>2. CASE q = r
    BY <1>2 DEF Renew, Types
  <1>3. CASE q # r
    <2>1. base'[q] = base[q] /\ Numbers(q)' = Numbers(q)
      BY <1>3, NumbersOfRenewed DEF Renew, Types
    <2>2. QED
      BY <2>1 DEF AnswersStayWithTheirOpen, Numbers
  <1>4. QED
    BY <1>2, <1>3

LEMMA AnswersStep ==
    ASSUME Types, Mutex, Stack, AnswersStayWithTheirOpen, [Next]_vars
    PROVE  AnswersStayWithTheirOpen'
  <1>1. ASSUME UNCHANGED << base, openVars >>
        PROVE  AnswersStayWithTheirOpen'
    BY <1>1 DEF AnswersStayWithTheirOpen, openVars
  <1>2. ASSUME NEW t \in Threads, OpenFindsNothing(t) \/ OpenCopies(t)
        PROVE  AnswersStayWithTheirOpen'
    <2>1. op[t].request \in Requests
      BY <1>2, OpensItsRequest
    <2>2. base[op[t].request] \in ImplBaseType /\ Find(op[t].key) \in Nat
      BY <2>1, FindType DEF Types
    <2>3. PICK b, n : Renew(op[t].request, b, n) /\ \A reqs : OnlyFromThese(b, reqs)
      BY <1>2, <2>2, OpensItsRequest, OpenedIsFromNobody
    <2>4. QED
      BY <2>1, <2>3, AnswersRenew
  <1>3. ASSUME NEW r \in Requests, SendCallsResolver(r)
        PROVE  AnswersStayWithTheirOpen'
    <2>1. base' = [base EXCEPT ![r] = TakeResolver(base[r], gen[r])] /\ UNCHANGED openVars
      BY <1>3 DEF SendCallsResolver
    <2>2. base[r] \in ImplBaseType /\ gen[r] \in Numbers(r)
      BY DEF Types, Numbers
    <2>3. OnlyFromThese(base[r], Numbers(r)) =>
             OnlyFromThese(TakeResolver(base[r], gen[r]), Numbers(r))
      BY <2>2, TakeResolverFromThese
    <2>4. QED
      BY <2>1, <2>3, AnswersOf
  <1>4. ASSUME NEW t \in Threads, ResolverReturns(t)
        PROVE  AnswersStayWithTheirOpen'
    <2> DEFINE r == frames[t][1].request
               n == frames[t][1].gen
    <2>1. Head(frames[t]) = frames[t][1] /\ 1 \in 1 .. Len(frames[t])
      <3>1. frames[t] \in Seq(Frame) /\ frames[t] # <<>>
        BY <1>4 DEF ResolverReturns, Types
      <3>2. QED
        BY <3>1, Popped
    <2>2. r \in Requests /\ base[r] \in ImplBaseType /\ n \in Numbers(r)
      BY <2>1, FrameAt DEF Types, Stack
    <2>3. PICK result \in Results :
             base' = [base EXCEPT ![r] = AcceptResult(base[r], result, "Buffer", n)]
      BY <1>4, <2>1 DEF ResolverReturns
    <2>4. result \in ResolverResults
      BY ResolversAssumption DEF ResolversAssumption
    <2>5. UNCHANGED openVars
      BY <1>4 DEF ResolverReturns
    <2> HIDE DEF r, n
    <2>6. OnlyFromThese(base[r], Numbers(r)) =>
             OnlyFromThese(AcceptResult(base[r], result, "Buffer", n), Numbers(r))
      BY <2>2, <2>4, AnswerFromThese
    <2>7. QED
      BY <2>2, <2>3, <2>5, <2>6, AnswersOf
  <1>5. QED
    BY NextCases, <1>1, <1>2, <1>3, <1>4
       DEF RegisterCall, UnregisterCall, OpenCall, Begin, Lock, Register, Unregister,
           OpenFinds, requestVars, vars, openVars

-----------------------------------------------------------------------------
(* The results.                                                            *)

LEMMA InvInit == Init => Inv
  <1> SUFFICES ASSUME Init PROVE Inv
    OBVIOUS
  <1>1. Types
    <2>1. /\ NoOp \in Ops /\ FreshResponse \in ImplBaseType /\ NoResolver \in Nat
          /\ 0 \in 0 .. MaxRegistrations
      BY NewOps, FreshResponseIsEmpty, ResolversAssumption
         DEF ResolversAssumption, NoResolver
    <2>2. \A t \in Threads : <<>> \in Seq(Frame)
      OBVIOUS
    <2>3. QED
      BY <2>1, <2>2 DEF Init, Types
  <1>2. Mutex
    BY NewOps, ResolversAssumption
       DEF Init, Mutex, MutexIsHeldInside, ResolversAssumption
  <1>3. \A t \in Threads : Len(frames[t]) = 0 /\ op[t].kind = "none"
    BY NewOps DEF Init
  <1>4. Stack
    BY <1>3 DEF Stack
  <1>5. Calls
    BY <1>3, FreshResponseIsEmpty DEF Init, Calls, Callable, OnStack
  <1>6. AnswersStayWithTheirOpen
    BY FreshResponseIsEmpty, OpenedIsFromNobody DEF Init, AnswersStayWithTheirOpen, NoResolver
  <1>7. NumbersAreTheirs
    BY DEF Init, NumbersAreTheirs, Numbers, NoOne
  <1>8. QED
    BY <1>1, <1>2, <1>4, <1>5, <1>6, <1>7 DEF Inv

LEMMA InvStep == Inv /\ [Next]_vars => Inv'
  BY TypesStep, MutexStep, NumbersStep, StackStep, CallsStep, AnswersStep DEF Inv

LEMMA Invariance == Spec => []Inv
  BY InvInit, InvStep, PTL DEF Spec

\* The types of the registry, of the stacks and of the responses.
THEOREM TypeCorrect == Spec => []TypeOK
  <1>1. Inv => TypeOK
    <2>1. ASSUME Inv, NEW t \in Threads
          PROVE  /\ Free(t) <=> op[t] = NoOp
                 /\ Resolving(t) \subseteq {r \in Requests : Owner[r] = t}
      <3>1. Free(t) <=> op[t] = NoOp
        BY <2>1, OpKinds DEF Inv, Types, Mutex, Free
      <3>2. Resolving(t) \subseteq {r \in Requests : Owner[r] = t}
        <4>1. \A r \in Resolving(t) : r \in Requests
          BY <2>1, ResolvingIs, FrameAt DEF Inv
        <4>2. QED
          BY <2>1, <4>1, ResolvingIs DEF Inv, Stack
      <3>3. QED
        BY <3>1, <3>2
    <2>2. QED
      BY <2>1 DEF Inv, Types, TypeOK
  <1>2. QED
    BY <1>1, Invariance, PTL

\* What find() returned is still in the map when it is copied: between the two
\* the lock_guard of BeginSchemeResolution keeps every other operation out.
THEOREM FoundStays == Spec => []FoundIsStillThere
  <1>1. Inv => FoundIsStillThere
    BY DEF Inv, Mutex, FoundIsStillThere
  <1>2. QED
    BY <1>1, Invariance, PTL

\* No call of the application, and no resolver, ever runs with the mutex of the
\* registry taken: a resolver may register, unregister and open without deadlock.
THEOREM MutexHeldInside == Spec => []MutexIsHeldInside
  <1>1. Inv => MutexIsHeldInside
    BY DEF Inv, Mutex
  <1>2. QED
    BY <1>1, Invariance, PTL

\* Whatever a resolver calls, sending again or opening anew the request it
\* resolves included, it runs once, and the response it is about to fill is as
\* ResolveScheme() left it for it.
THEOREM ResolvingUntouched == Spec => []ResolvingRequestIsUntouched
  <1>1. ASSUME Inv, NEW t \in Threads, NEW i \in DOMAIN frames[t],
               frames[t][i].gen = gen[frames[t][i].request]
        PROVE  Untouched(frames[t][i].request)
    <2>1. frames[t] \in Seq(Frame)
      BY <1>1 DEF Inv, Types
    <2>2. i \in 1 .. Len(frames[t])
      BY <1>1, <2>1
    <2>3. frames[t][i].request \in Requests /\ OnStack(frames[t][i].request)
      BY <1>1, <2>2, FrameAt DEF Inv, OnStack
    <2>4. QED
      BY <1>1, <2>3 DEF Inv, Calls
  <1>2. Inv => ResolvingRequestIsUntouched
    BY <1>1 DEF Untouched, ResolvingRequestIsUntouched
  <1>3. QED
    BY <1>2, Invariance, PTL

\* The number that a response field holds names one Open() of one request.
THEOREM NumbersNameRequests == Spec => []NumbersAreTheirs
  <1>1. Inv => NumbersAreTheirs
    BY DEF Inv
  <1>2. QED
    BY <1>1, Invariance, PTL

\* However deep the resolvers of a thread are nested, and whatever they open, open
\* anew and send, a response shows what was answered to the last Open() of its own
\* request, or to one whose resolver that Open() overtook.  By NumbersNameRequests
\* no answer to another request can pass for one of these.
THEOREM AnswersAreKeptApart == Spec => []AnswersStayWithTheirOpen
  <1>1. Inv => AnswersStayWithTheirOpen
    BY DEF Inv
  <1>2. QED
    BY <1>1, Invariance, PTL

\* An operation that ends is that of the thread that holds the mutex.
LEMMA UnregisterStep ==
    ASSUME Inv, [Next]_vars, NEW t \in Threads,
           op[t].kind = "unregister", pc[t] = "locked", pc'[t] = "free",
           NEW s \in Spellings, s[1] = op[t].name
    PROVE  Find(SchemeOf(s))' = NoResolver
  <1>a. Owner \in [Requests -> Threads] /\ pc \in [Threads -> {"free", "waiting", "locked", "found"}]
    BY ResolversAssumption DEF ResolversAssumption, Inv, Types
  <1>b. SchemeOf(s) = op[t].key
    BY NewOps DEF SchemeOf, Inv, Mutex
  <1>1. Unregister(t)
    <2>1. ASSUME \/ \E u \in Threads, z \in Spellings : RegisterCall(u, z)
                 \/ \E u \in Threads, z \in Spellings : UnregisterCall(u, z)
                 \/ \E r \in Requests, z \in Spellings : OpenCall(r, z)
          PROVE  FALSE
      BY <1>a, <2>1 DEF RegisterCall, UnregisterCall, OpenCall, Begin, Free
    <2>2. ASSUME \/ \E u \in Threads : Lock(u)
                 \/ \E u \in Threads : OpenFinds(u)
          PROVE  FALSE
      BY <1>a, <2>2 DEF Lock, OpenFinds
    <2>3. ASSUME \/ \E r \in Requests : SendCallsResolver(r)
                 \/ \E u \in Threads : ResolverReturns(u)
                 \/ UNCHANGED vars
          PROVE  FALSE
      BY <1>a, <2>3 DEF SendCallsResolver, ResolverReturns, vars
    <2>4. ASSUME \/ \E u \in Threads : Register(u)
                 \/ \E u \in Threads : OpenFindsNothing(u)
                 \/ \E u \in Threads : OpenCopies(u)
          PROVE  FALSE
      BY <1>a, <2>4 DEF Register, OpenFindsNothing, OpenCopies, Unlock
    <2>5. ASSUME NEW u \in Threads, Unregister(u)
          PROVE  u = t
      BY <1>a, <2>5 DEF Unregister, Unlock
    <2>6. QED
      BY NextCases, <2>1, <2>2, <2>3, <2>4, <2>5
  <1>2. op[t].key \notin DOMAIN resolvers'
    BY <1>1 DEF Unregister
  <1>3. SchemeOf(s)' = SchemeOf(s)
    BY DEF SchemeOf, ToLower
  <1>4. QED
    BY <1>b, <1>2, <1>3 DEF Find

\* When UnregisterSchemeResolver returns, the scheme is gone in every spelling,
\* whoever waits for the mutex meanwhile.
THEOREM UnregisterEffective == Spec => UnregisterTakesEffect
  <1>1. Inv /\ [Next]_vars =>
          [ \A t \in Threads :
              (op[t].kind = "unregister" /\ pc[t] = "locked" /\ pc'[t] = "free") =>
                  \A s \in Spellings : s[1] = op[t].name => Find(SchemeOf(s))' = NoResolver
          ]_vars
    BY UnregisterStep
  <1>2. QED
    BY <1>1, Invariance, PTL DEF Spec, UnregisterTakesEffect

-----------------------------------------------------------------------------
(* The registry and the requests implement ResolverContract.               *)

\* A key is that of one name.
LEMMA KeyOf ==
    ASSUME NEW key \in Keys
    PROVE  \E name \in Names : \A other \in Names : <<other, "lower">> = key <=> other = name
  BY DEF Keys

LEMMA ContractInit == Init => Contract!Init
  <1> SUFFICES ASSUME Init PROVE Contract!Init
    OBVIOUS
  <1>1. \A name \in Names : Find(<<name, "lower">>) = 0
    BY DEF Init, Find, NoResolver
  <1>2. QED
    BY <1>1 DEF Init, Contract!Init, Contract!NotCalled, NoResolver

LEMMA ContractStep ==
    ASSUME Inv, [Next]_vars
    PROVE  [Contract!Next]_Contract!tableVars
  <1> USE DEF Inv
  <1>a. ASSUME UNCHANGED << resolvers, bound, called >>
        PROVE  UNCHANGED Contract!tableVars
    <2>1. \A name \in Names : Find(<<name, "lower">>)' = Find(<<name, "lower">>)
      BY <1>a DEF Find
    <2>2. QED
      BY <1>a, <2>1 DEF Contract!tableVars
  <1>1. CASE \E t \in Threads, s \in Spellings : RegisterCall(t, s)
    BY <1>1, <1>a DEF RegisterCall, Begin, requestVars
  <1>2. CASE \E t \in Threads, s \in Spellings : UnregisterCall(t, s)
    BY <1>2, <1>a DEF UnregisterCall, Begin, requestVars
  <1>3. CASE \E r \in Requests, s \in Spellings : OpenCall(r, s)
    BY <1>3, <1>a DEF OpenCall, Begin, requestVars
  <1>4. CASE \E t \in Threads : Lock(t)
    BY <1>4, <1>a DEF Lock, requestVars
  <1>5. CASE \E t \in Threads : Register(t)
    <2>1. PICK t \in Threads : Register(t)
      BY <1>5
    <2>2. op[t].key \in Keys /\ op[t].registration \in 1 .. MaxRegistrations
      BY <2>1, OpKinds DEF Register, Types
    <2>3. PICK name \in Names :
             \A other \in Names : <<other, "lower">> = op[t].key <=> other = name
      BY <2>2, KeyOf
    <2>4. \A other \in Names : Find(<<other, "lower">>)' =
             IF other = name THEN op[t].registration ELSE Find(<<other, "lower">>)
      BY <2>1, <2>3 DEF Register, Find
    <2>5. Contract!Register(name, op[t].registration)
      BY <2>1, <2>4 DEF Contract!Register, Register, requestVars
    <2>6. QED
      BY <2>2, <2>5 DEF Contract!Next
  <1>6. CASE \E t \in Threads : Unregister(t)
    <2>1. PICK t \in Threads : Unregister(t)
      BY <1>6
    <2>2. op[t].key \in Keys
      BY <2>1, OpKinds DEF Unregister, Types
    <2>3. PICK name \in Names :
             \A other \in Names : <<other, "lower">> = op[t].key <=> other = name
      BY <2>2, KeyOf
    <2>4. \A other \in Names : Find(<<other, "lower">>)' =
             IF other = name THEN 0 ELSE Find(<<other, "lower">>)
      BY <2>1, <2>3 DEF Unregister, Find, NoResolver
    <2>5. Contract!Unregister(name)
      BY <2>1, <2>4 DEF Contract!Unregister, Unregister, requestVars
    <2>6. QED
      BY <2>5 DEF Contract!Next
  <1>b. ASSUME NEW t \in Threads, op[t].kind = "open",
               bound' = [bound EXCEPT ![op[t].request] = Find(op[t].key)],
               called' = [called EXCEPT ![op[t].request] = [times |-> 0, who |-> 0]],
               UNCHANGED resolvers
        PROVE  Contract!Next
    <2>1. op[t].key \in Keys /\ op[t].request \in Requests
      BY <1>b, OpKinds DEF Types
    <2>2. PICK name \in Names : <<name, "lower">> = op[t].key
      BY <2>1, KeyOf
    <2>3. Contract!Open(op[t].request, name)
      BY <1>b, <2>2 DEF Contract!Open, Contract!NotCalled, Find
    <2>4. QED
      BY <2>1, <2>3 DEF Contract!Next
  <1>7. CASE \E t \in Threads : OpenFindsNothing(t)
    BY <1>7, <1>b DEF OpenFindsNothing, Renew
  <1>8. CASE \E t \in Threads : OpenFinds(t)
    BY <1>8, <1>a DEF OpenFinds, requestVars
  <1>9. CASE \E t \in Threads : OpenCopies(t)
    BY <1>9, <1>b DEF OpenCopies, Mutex, Renew
  <1>10. CASE \E r \in Requests : SendCallsResolver(r)
    <2>1. PICK r \in Requests : SendCallsResolver(r)
      BY <1>10
    <2>2. /\ bound[r] = base[r].pendingResolver /\ bound[r] # 0
          /\ called[r] = [times |-> 0, who |-> 0]
      BY <2>1 DEF SendCallsResolver, Calls, Callable, NoResolver
    <2>3. called' = [called EXCEPT ![r] = [times |-> 1, who |-> bound[r]]]
      BY <2>1, <2>2 DEF SendCallsResolver, Types
    <2>4. UNCHANGED << resolvers, bound >>
      BY <2>1 DEF SendCallsResolver
    <2>5. Contract!Call(r)
      BY <2>2, <2>3, <2>4 DEF Contract!Call, Contract!NotCalled, Find
    <2>6. QED
      BY <2>5 DEF Contract!Next
  <1>11. CASE \E t \in Threads : ResolverReturns(t)
    BY <1>11, <1>a DEF ResolverReturns
  <1>12. CASE UNCHANGED vars
    BY <1>12, <1>a DEF vars
  <1>13. QED
    BY NextCases, <1>1, <1>2, <1>3, <1>4, <1>5, <1>6, <1>7, <1>8, <1>9, <1>10,
       <1>11, <1>12

\* Threads and the mutex seen from outside: one atomic table, and requests that
\* keep the resolver they were opened with and call it once.
THEOREM Implements == Spec => ImplementsContract
  <1>1. Inv /\ [Next]_vars => [Contract!Next]_Contract!tableVars
    BY ContractStep
  <1>2. QED
    BY <1>1, ContractInit, Invariance, PTL DEF Spec, ImplementsContract, Contract!Spec
=============================================================================
