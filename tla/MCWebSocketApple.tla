-------------------------- MODULE MCWebSocketApple --------------------------
(***************************************************************************)
(* WebSocketApple for TLC, with a claim of its comments that it does not   *)
(* keep.                                                                   *)
(***************************************************************************)
EXTENDS WebSocketApple

\* "Fires onError for abnormal codes, then onClose exactly once": an end is
\* reported once, so that an abnormal report of a connection means that this
\* connection ended, and not that of an earlier one is reported again.
OneEndIsReportedOnce ==
    \A c \in Connections :
        (verdict[c] = 1006 /\ Len(reports[c]) > 0) => conn[c] # "cancelled"
=============================================================================
