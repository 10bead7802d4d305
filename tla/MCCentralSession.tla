-------------------------- MODULE MCCentralSession --------------------------
(* Instances of CentralSession: a browser that may have two requests in       *)
(* flight.  The requests are interchangeable, and so are the sessions of apps. *)
EXTENDS CentralSession, TLC

\* Bound: no exchange is in flight and no session of an app is live once a handoff has
\* been asked for.  A handoff neither reads nor writes what revocations do to sessions.
SessionsApart ==
    (\E j \in AppSessions : appSession[j].state # "none") => \A s \in States : asked[s] = None

Interchangeable == Permutations(Requests) \cup Permutations(AppSessions)
=============================================================================
