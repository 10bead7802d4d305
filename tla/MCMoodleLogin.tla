--------------------------- MODULE MCMoodleLogin ---------------------------
(* A small instance of MoodleLogin, and with it of LoginThrottle.            *)
EXTENDS MoodleLogin, TLC

CONSTANTS g1, g2

SmallEnrolments ==
    {[roles |-> {"student"}, groups |-> {g1}],
     [roles |-> {"student"}, groups |-> {g2}],
     [roles |-> {"teacher", "other"}, groups |-> {g1, g2}]}

\* Bound: failures are in the table, and requests of other subjects in flight, only
\* before anyone has enrolled or been synchronized.  The throttle neither reads nor
\* writes what a login reads and stores after it.
Apart ==
    \/ \A a \in Accounts : EnrolledIn(a) = {} /\ role[a] = None /\ clan[a] = None
    \/ /\ \A x \in Slots : failure[x] = NoFailure
       /\ \A t \in Requests : request[t].subject \in Accounts \cup {None}
                              /\ request[t].op = "login"

Interchangeable ==
    Permutations(Requests) \cup Permutations(Courses)
        \cup Permutations(Clans)
=============================================================================
