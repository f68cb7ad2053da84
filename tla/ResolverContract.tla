-------------------------- MODULE ResolverContract --------------------------
(***************************************************************************)
(* What the custom-scheme part of UrlRequest promises (UrlLib.h, above     *)
(* RegisterSchemeResolver and UnregisterSchemeResolver): one process-wide  *)
(* table from scheme names, whatever their case, to resolvers, changed and *)
(* read in one step; a request is bound to the resolver that is there when *)
(* it is opened, keeps it whatever becomes of the table, and calls it when *)
(* it is sent, at most once.                                               *)
(***************************************************************************)
EXTENDS Integers

CONSTANTS Names, Requests, Registrations

VARIABLES
    table,   \* name -> number of the registration in force, 0 for none
    bound,   \* request -> registration it was opened with, 0 for the transport
    called   \* request -> what has been called since: how often, and who

tableVars == << table, bound, called >>

NotCalled == [times |-> 0, who |-> 0]

Init ==
    /\ table = [name \in Names |-> 0]
    /\ bound = [r \in Requests |-> 0]
    /\ called = [r \in Requests |-> NotCalled]

Register(name, registration) ==
    /\ table' = [table EXCEPT ![name] = registration]
    /\ UNCHANGED << bound, called >>

Unregister(name) ==
    /\ table' = [table EXCEPT ![name] = 0]
    /\ UNCHANGED << bound, called >>

Open(r, name) ==
    /\ bound' = [bound EXCEPT ![r] = table[name]]
    /\ called' = [called EXCEPT ![r] = NotCalled]
    /\ UNCHANGED table

Call(r) ==
    /\ bound[r] # 0
    /\ called[r] = NotCalled
    /\ called' = [called EXCEPT ![r] = [times |-> 1, who |-> bound[r]]]
    /\ UNCHANGED << table, bound >>

Next ==
    \/ \E name \in Names, n \in Registrations : Register(name, n)
    \/ \E name \in Names : Unregister(name)
    \/ \E r \in Requests, name \in Names : Open(r, name)
    \/ \E r \in Requests : Call(r)

Spec == Init /\ [][Next]_tableVars
=============================================================================
