------------------------ MODULE MCUrlRequestDetached ------------------------
(***************************************************************************)
(* UrlRequestDetached for TLC, with what README.md claims and the code     *)
(* does not keep.                                                          *)
(***************************************************************************)
EXTENDS UrlRequestDetached

AllPlatforms == {"apple", "win32", "uwp", "android"}
OnlyAndroid == {"android"}

Disciplined == {}
Anything == {"OpenInFlight", "SendAfterThrow"}

\* README.md: "A request that fails at the transport layer ... completes with a
\* StatusCode() of 0".
FailureMeansZeroStatus ==
    (phase = "settled" /\ ~base.usingSchemeResolver /\ transfer[gen].lost) =>
        base.status.code = 0
=============================================================================
