--------------------------- MODULE LoginThrottle ---------------------------
(* MoodleLoginRateLimiter: logins and password resets are refused to a pair  *)
(* of subject and address, or to an address, with too many recent failures.  *)
(* The failures are counted before the provider is asked and recorded after  *)
(* it has answered, so that requests in flight pass the count together.      *)
EXTENDS Naturals, FiniteSets

CONSTANTS
    Subjects, Addresses,  \* hashed usernames and client addresses
    Requests,             \* requests in flight
    Slots,                \* bound: the rows of moodle_login_failures
    PairLimit, IpLimit,   \* moodle_login_pair_limit, moodle_login_ip_limit
    None

ASSUME ThrottleAssumption ==
    /\ PairLimit \in Nat \ {0}
    /\ IpLimit \in Nat \ {0}
    /\ IsFiniteSet(Requests)
    /\ IsFiniteSet(Slots)
    /\ None \notin Subjects \cup Addresses

VARIABLES
    failure,  \* moodle_login_failures
    request

vars == <<failure, request>>

\* A row is old when its failed_at is before the window.
Failure == [state: {"recent", "old"}, subject: Subjects, address: Addresses]

NoFailure == [state |-> "none", subject |-> None, address |-> None]

Steps == {"pair", "address", "answer", "record", "clear"}

\* "full": the pair had reached its limit when it was counted.
Request == [step: Steps, op: {"login", "reset"}, subject: Subjects, address: Addresses,
            full: BOOLEAN]

NoRequest == [step |-> "idle", op |-> "login", subject |-> None, address |-> None,
              full |-> FALSE]

\* A failure has a subject and an address, and every attempt is at a step of its handler.
TypeOK ==
    /\ failure \in [Slots -> Failure \cup {NoFailure}]
    /\ request \in [Requests -> Request \cup {NoRequest}]

Init ==
    /\ failure = [x \in Slots |-> NoFailure]
    /\ request = [t \in Requests |-> NoRequest]

-----------------------------------------------------------------------------

OfPair(s, a) ==
    {x \in Slots : failure[x].state = "recent" /\ failure[x].subject = s
                   /\ failure[x].address = a}

OfAddress(a) == {x \in Slots : failure[x].state = "recent" /\ failure[x].address = a}

Goto(t, step) == request' = [request EXCEPT ![t].step = step]

Start(t, op, s, a) ==
    /\ request[t].step = "idle"
    /\ request' = [request EXCEPT ![t] = [step |-> "pair", op |-> op, subject |-> s,
                                          address |-> a, full |-> FALSE]]
    /\ UNCHANGED failure

\* Mutant: one failure more is let through.
CountPairAbove(t) ==
    /\ request[t].step = "pair"
    /\ request' = [request EXCEPT ![t].step = "address",
           ![t].full = Cardinality(OfPair(request[t].subject, request[t].address)) > PairLimit]
    /\ UNCHANGED failure

CountPair(t) ==
    /\ request[t].step = "pair"
    /\ request' = [request EXCEPT ![t].step = "address",
           ![t].full = Cardinality(OfPair(request[t].subject, request[t].address)) >= PairLimit]
    /\ UNCHANGED failure

\* The transaction of the two counts has also deleted the old rows.
Purged == [x \in Slots |-> IF failure[x].state = "old" THEN NoFailure ELSE failure[x]]

\* Mutant: only the pair decides.
CountPairOnly(t) ==
    /\ request[t].step = "address"
    /\ failure' = Purged
    /\ IF request[t].full
       THEN request' = [request EXCEPT ![t] = NoRequest]
       ELSE Goto(t, "answer")

CountAddress(t) ==
    /\ request[t].step = "address"
    /\ failure' = Purged
    /\ IF request[t].full \/ Cardinality(OfAddress(request[t].address)) >= IpLimit
       THEN request' = [request EXCEPT ![t] = NoRequest]
       ELSE Goto(t, "answer")

\* Credentials that are refused are recorded, a login that succeeds clears its
\* pair, and a reset that Moodle takes counts like a failure.
Answer(t) ==
    /\ request[t].step = "answer"
    /\ \/ Goto(t, "record")
       \/ request[t].op = "login" /\ Goto(t, "clear")
    /\ UNCHANGED failure

Record(t, x) ==
    /\ request[t].step = "record"
    /\ failure[x] = NoFailure
    /\ failure' = [failure EXCEPT ![x] = [state |-> "recent", subject |-> request[t].subject,
                                          address |-> request[t].address]]
    /\ request' = [request EXCEPT ![t] = NoRequest]

\* Mutant: the rows lose their state and keep their keys.
ClearState(t) ==
    /\ request[t].step = "clear"
    /\ failure' = [x \in Slots |->
           IF failure[x].subject = request[t].subject /\ failure[x].address = request[t].address
           THEN [failure[x] EXCEPT !.state = "none"] ELSE failure[x]]
    /\ request' = [request EXCEPT ![t] = NoRequest]

Clear(t) ==
    /\ request[t].step = "clear"
    /\ failure' = [x \in Slots |->
           IF failure[x].subject = request[t].subject /\ failure[x].address = request[t].address
           THEN NoFailure ELSE failure[x]]
    /\ request' = [request EXCEPT ![t] = NoRequest]

\* The request ends with neither: the provider is unavailable, the account is
\* disabled, the identity cannot be linked, or the process is lost.
Leave(t) ==
    /\ request[t].step # "idle"
    /\ request' = [request EXCEPT ![t] = NoRequest]
    /\ UNCHANGED failure

\* A failure leaves the window of moodle_login_window_minutes.
Age(x) ==
    /\ failure[x].state = "recent"
    /\ failure' = [failure EXCEPT ![x].state = "old"]
    /\ UNCHANGED request

Next ==
    \/ \E t \in Requests :
          \/ \E op \in {"login", "reset"}, s \in Subjects, a \in Addresses : Start(t, op, s, a)
          \/ CountPair(t)
          \/ CountAddress(t)
          \/ Answer(t)
          \/ \E x \in Slots : Record(t, x)
          \/ Clear(t)
          \/ Leave(t)
    \/ \E x \in Slots : Age(x)

Spec == Init /\ [][Next]_vars

-----------------------------------------------------------------------------

\* Requests of a pair, or an address, that may still record a failure.
PassedOfPair(s, a) ==
    {t \in Requests : /\ request[t].step \in {"address", "answer", "record", "clear"}
                      /\ ~request[t].full
                      /\ request[t].subject = s
                      /\ request[t].address = a}

PassedOfAddress(a) ==
    {t \in Requests : /\ request[t].step \in {"answer", "record", "clear"}
                      /\ request[t].address = a}

\* The limit of a pair is overshot by no more than the requests in flight: the
\* recent failures, and those that admitted requests may still add, stay below the
\* limit and the number of requests (ensure_allowed and record_attempt).  One
\* request at a time never passes the limit.
PairOvershootIsBounded ==
    \A s \in Subjects, a \in Addresses :
        Cardinality(OfPair(s, a)) + Cardinality(PassedOfPair(s, a))
            < PairLimit + Cardinality(Requests)

\* The same for an address, whichever subjects its requests name.
AddressOvershootIsBounded ==
    \A a \in Addresses :
        Cardinality(OfAddress(a)) + Cardinality(PassedOfAddress(a))
            < IpLimit + Cardinality(Requests)
=============================================================================
