--------------------------- MODULE RequestContract --------------------------
(***************************************************************************)
(* What a UrlRequest promises to the code that uses it, whatever carries   *)
(* the request: a transport that answers later, or a scheme resolver that  *)
(* answers inside SendAsync().  The backends are shown to implement it.    *)
(*                                                                         *)
(*  - one Open() starts one request, and never while another is in flight; *)
(*  - a request is answered once, and the answer then stays as it is;      *)
(*  - an answer holds only what this request brought, and an error comes   *)
(*    with no status;                                                      *)
(*  - Abort() is for good: a transport send after it can only fail;        *)
(*  - an aborted request is answered in the end, peer or no peer.          *)
(***************************************************************************)
EXTENDS Integers

VARIABLES
    request,  \* number of the current request, 0 before the first Open()
    phase,    \* "new", "opened", "sent", "doomed" (sent when aborted), "settled"
    aborted,  \* Abort() was called, ever
    answer    \* what the accessors show once the request is settled

contractVars == << request, phase, aborted, answer >>

InFlight == {"sent", "doomed"}

NoAnswer == [code |-> 0, failed |-> FALSE, by |-> {}]

\* by: the requests on whose behalf some part of the answer was written.
Answers(r) ==
    { a \in [code : {0, 200, 404}, failed : BOOLEAN, by : SUBSET {r}] :
        a.failed => a.code = 0 }

Init ==
    /\ request = 0
    /\ phase = "new"
    /\ aborted = FALSE
    /\ answer = NoAnswer

Open ==
    /\ phase \notin InFlight
    /\ request' = request + 1
    /\ phase' = "opened"
    /\ answer' = NoAnswer
    /\ UNCHANGED aborted

Send ==
    /\ phase = "opened"
    /\ phase' = IF aborted THEN "doomed" ELSE "sent"
    /\ UNCHANGED << request, aborted, answer >>

Settle ==
    /\ phase \in InFlight
    /\ phase' = "settled"
    /\ answer' \in Answers(request)
    /\ phase = "doomed" => answer'.failed
    /\ UNCHANGED << request, aborted >>

\* An answer inside SendAsync(): a resolver's, or that nothing could be sent.  It
\* takes no notice of Abort().
Resolve ==
    /\ phase = "opened"
    /\ phase' = "settled"
    /\ answer' \in Answers(request)
    /\ UNCHANGED << request, aborted >>

Abort ==
    /\ aborted' = TRUE
    /\ UNCHANGED << request, phase, answer >>

Next == Open \/ Send \/ Settle \/ Resolve \/ Abort

Spec == Init /\ [][Next]_contractVars

-----------------------------------------------------------------------------
\* Abort() gets a transfer to settle even if the peer never says a word.
AbortSettles == (phase \in InFlight /\ aborted) ~> (phase = "settled")
=============================================================================
