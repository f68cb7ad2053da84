--------------------------- MODULE SocketContract ---------------------------
(***************************************************************************)
(* What a WebSocket object promises to the callbacks it was built with,    *)
(* whatever backend carries it: the end of a connection is judged once,    *)
(* by whoever notices it first, and reported once: onError for an abnormal *)
(* close code, and then onClose.                                           *)
(***************************************************************************)
EXTENDS Integers, Sequences

CONSTANTS Connections, Codes

VARIABLES
    opened,   \* number of connections opened so far
    verdict,  \* connection -> the close code it got, 0 for none
    reports   \* connection -> the callbacks that reported its end

socketVars == << opened, verdict, reports >>

Normal == 1000

\* What there is to report once the close code is known.
Expected(code) == IF code = Normal THEN <<"close">> ELSE <<"error", "close">>

Init ==
    /\ opened = 0
    /\ verdict = [c \in Connections |-> 0]
    /\ reports = [c \in Connections |-> <<>>]

Open ==
    /\ opened' = opened + 1
    /\ opened' \in Connections
    /\ UNCHANGED << verdict, reports >>

Judge(c) ==
    /\ c <= opened
    /\ verdict[c] = 0
    /\ \E code \in Codes : verdict' = [verdict EXCEPT ![c] = code]
    /\ UNCHANGED << opened, reports >>

Report(c) ==
    /\ verdict[c] # 0
    /\ Len(reports[c]) < Len(Expected(verdict[c]))
    /\ reports' = [reports EXCEPT
                      ![c] = Append(@, Expected(verdict[c])[Len(@) + 1])]
    /\ UNCHANGED << opened, verdict >>

Next == Open \/ \E c \in Connections : Judge(c) \/ Report(c)

Spec == Init /\ [][Next]_socketVars
=============================================================================
