------------------------- MODULE MCSchemeResolvers --------------------------
(***************************************************************************)
(* SchemeResolvers for TLC: two threads, one of which owns two requests.   *)
(***************************************************************************)
EXTENDS SchemeResolvers

CONSTANTS t1, t2

MCOwner == [inner |-> t1, outer |-> t1, other |-> t2]
MCRequests == DOMAIN MCOwner

\* What the optional parts of an answer hold does not matter here, nor which of
\* the two ways to fail it was: either leaves an error and nothing else.
MCResults ==
    {r \in ResolverResults : /\ r.outcome # "threw"
                             /\ r.statusCode = 200 /\ r.statusText /\ r.contentType}
=============================================================================
