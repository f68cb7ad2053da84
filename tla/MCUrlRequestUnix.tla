-------------------------- MODULE MCUrlRequestUnix --------------------------
(***************************************************************************)
(* UrlRequestUnix for TLC, with what the repository's comments claim and   *)
(* the code does not keep.                                                 *)
(***************************************************************************)
EXTENDS UrlRequestUnix

\* Clients that keep to the rules, that open a diverted URL while a transfer is
\* in flight, and that do anything the interface lets them do.
Disciplined == {}
Diverting == {"DivertInFlight"}
Anything == {"DivertInFlight", "Resend", "DropInContinuation"}

\* What the comment in PerformAsync, "File scheme always returns 0", and that of
\* ResetForOpen promise together: the status of a transfer that has no response
\* code of its own is 200 for a file and for nothing else, whatever the request
\* object was used for before.  m_file, which is never reset, says otherwise.
OnlyFilesDefaultToOk ==
    (phase = "settled" /\ ~base.usingSchemeResolver /\ job.curl = "gopher") =>
        base.status.code = 0
=============================================================================
